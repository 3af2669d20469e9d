---------------------------- MODULE ServiceCode -----------------------------
(***************************************************************************)
(* packages/volar/src/index.ts and packages/vue/src/index.ts: the code of  *)
(* a .vue file in Volar mode, and its cache on disk.  Every codegen worker *)
(* of every run on the machine shares the cache directory; a worker's own  *)
(* steps run without a break, but between its calls of the file system     *)
(* other workers run, may be killed, and releases and options change.      *)
(***************************************************************************)
EXTENDS VolarMappings

CONSTANTS
    Workers,
    Machines,       \* what is on the machine: [environments, fileNames, sources]
    Identity(_),    \* what cacheIdentity keeps of options
    None, Torn      \* no entry; an entry whose bytes are not all there

(* What language-core says of a file is about its two texts.               *)
ASSUME SourcesAssumption ==
    \A m \in Machines : \A file \in m.sources : WithinTexts(file)

(* An environment is what a worker runs with, [release, options, cached];  *)
(* a source is the contents of a .vue file with what language-core makes   *)
(* of it, [source, service, mappings].                                     *)
VARIABLES
    machine,
    env,        \* of each worker
    request,    \* fileName and source
    at,         \* the step each worker is at
    result,     \* what it is about to return
    cache,      \* the entries, by key
    temps       \* temporary files in the directory, by worker

vars == <<machine, env, request, at, result, cache, temps>>

(* generate; everything in which code may differ. *)
Generated(e, r) ==
    [release |-> e.release, options |-> e.options, fileName |-> r.fileName, source |-> r.source,
     code |-> Generate(r.source)]

(* Mutant: the name of the file is not hashed.                             *)
KeyWithoutName(e, r) == <<Identity(e.options), r.source>>

(* The SHA-256 of the identity, the name and the contents: the release of  *)
(* this package is not in it.                                              *)
Key(e, r) == <<Identity(e.options), r.fileName, r.source>>

Requests == [fileName : machine.fileNames, source : machine.sources]

Init ==
    /\ machine \in Machines
    /\ env \in [Workers -> machine.environments]
    /\ request = [w \in Workers |-> None]
    /\ at = [w \in Workers |-> "idle"]
    /\ result = [w \in Workers |-> None]
    /\ cache = [k \in {} |-> None]
    /\ temps = {}

Goto(w, step) == at' = [at EXCEPT ![w] = step]

CreateServiceCode(w) ==
    /\ at[w] = "idle"
    /\ \E r \in Requests : request' = [request EXCEPT ![w] = r]
    /\ Goto(w, IF env[w].cached THEN "read" ELSE "generate")
    /\ UNCHANGED <<machine, env, result, cache, temps>>

KeyOf(w) == Key(env[w], request[w])

Entry(w) == IF KeyOf(w) \in DOMAIN cache THEN cache[KeyOf(w)] ELSE None

(* readCache: what does not parse is as good as not there.                 *)
Read(w) ==
    /\ at[w] = "read"
    /\ \/ /\ Entry(w) \notin {None, Torn}
          /\ result' = [result EXCEPT ![w] = Entry(w)]
          /\ Goto(w, "answered")
       \/ /\ Entry(w) \in {None, Torn}
          /\ Goto(w, "generate")
          /\ UNCHANGED result
    /\ UNCHANGED <<machine, env, request, cache, temps>>

GenerateCode(w) ==
    /\ at[w] = "generate"
    /\ result' = [result EXCEPT ![w] = Generated(env[w], request[w])]
    /\ Goto(w, IF env[w].cached THEN "write" ELSE "answered")
    /\ UNCHANGED <<machine, env, request, cache, temps>>

-----------------------------------------------------------------------------
(* writeCache: mkdirSync and writeFileSync of a temporary file with a name *)
(* of its own, then renameSync.                                            *)

WriteTemp(w) ==
    /\ at[w] = "write"
    /\ temps' = temps \cup {w}
    /\ Goto(w, "rename")
    /\ UNCHANGED <<machine, env, request, result, cache>>

Put(k, entry) ==
    cache' = [j \in DOMAIN cache \cup {k} |-> IF j = k THEN entry ELSE cache[j]]

Rename(w) ==
    /\ at[w] = "rename"
    /\ Put(KeyOf(w), result[w])
    /\ temps' = temps \ {w}
    /\ Goto(w, "answered")
    /\ UNCHANGED <<machine, env, request, result>>

(* Mutant: an error of the file system is not caught. *)
AfterFault == "failed"

AfterCaught == "answered"

(* The disk is full, or the directory cannot be made or written: nothing,  *)
(* or a temporary file cut short, which nobody removes.                    *)
WriteFails(w) ==
    /\ at[w] \in {"write", "rename"}
    /\ Goto(w, AfterCaught)
    /\ temps' \in {temps, temps \cup {w}}
    /\ UNCHANGED <<machine, env, request, result, cache>>

-----------------------------------------------------------------------------
(* Faults. *)

Kill(w) ==
    /\ at[w] \notin {"idle", "answered", "failed", "dead"}
    /\ Goto(w, "dead")
    /\ UNCHANGED <<machine, env, request, result, cache, temps>>

(* The machine stops: what was renamed without a sync may not be on disk.  *)
PowerLoss ==
    /\ \E lost \in (SUBSET DOMAIN cache) \ {{}} :
          cache' = [k \in DOMAIN cache |-> IF k \in lost THEN Torn ELSE cache[k]]
    /\ at' = [w \in Workers |-> IF at[w] \in {"idle", "answered"} THEN at[w] ELSE "dead"]
    /\ UNCHANGED <<machine, env, request, result, temps>>

Step(w) == Read(w) \/ GenerateCode(w) \/ WriteTemp(w) \/ Rename(w) \/ WriteFails(w)

Next ==
    \/ \E w \in Workers : CreateServiceCode(w) \/ Step(w) \/ Kill(w)
    \/ PowerLoss

Spec == Init /\ [][Next]_vars /\ \A w \in Workers : WF_vars(Step(w))

-----------------------------------------------------------------------------
(* Properties. *)

Steps == {"idle", "read", "generate", "write", "rename", "answered", "dead"}

Answered(w) == at[w] = "answered"

(* Nobody who shares the cache runs with the same identity and another     *)
(* release, or with options of which the identity tells no difference.     *)
SharesIdentity(w) ==
    \A v \in Workers : env[v].cached /\ Identity(env[v].options) = Identity(env[w].options) =>
        env[v].release = env[w].release /\ env[v].options = env[w].options

(* A worker answers with the code of the file it was asked for, as it is   *)
(* now, whoever wrote the cache, wherever it was killed, whatever is torn; *)
(* with exactly what it would generate if every run that has the same      *)
(* identity has the same release and options.                              *)
AnswerIsGenerated ==
    \A w \in Workers : Answered(w) =>
        /\ result[w].fileName = request[w].fileName
        /\ result[w].source = request[w].source
        /\ Identity(result[w].options) = Identity(env[w].options)
        /\ SharesIdentity(w) => result[w] = Generated(env[w], request[w])

(* The cache is an optimization only: a worker that is not killed answers, *)
(* whatever fails on disk.                                                 *)
CacheNeverFails ==
    \A w \in Workers : at[w] = "read" ~> at[w] \in {"answered", "dead"}

(* The mappings of an answer relate bytes as language-core relates UTF-16  *)
(* units, if it splits no pair; the lengths are the source's.              *)
OffsetsInBytes ==
    \A w \in Workers : Answered(w) =>
        LET f == request[w].source
        IN  WholeCharacters(f) =>
              \A k \in DOMAIN f.mappings : \A i \in DOMAIN f.mappings[k].pairs :
                  LET p    == f.mappings[k].pairs[i]
                      sent == result[w].code.mappings[k][i]
                  IN  /\ sent.source = Bytes(f.source, p.source)
                      /\ sent.service = Bytes(f.service, p.service)
                      /\ sent.source + sent.sourceLen = Bytes(f.source, p.source + p.len)

(* Every byte of the service text is ignored or in a mapping the host      *)
(* gets, and never ignored in a mapping: no error vanishes between them.   *)
(* Not so behind a mapping whose generated text has a length of its own.   *)
IgnoredOrMapped ==
    \A w \in Workers : Answered(w) =>
        LET f    == request[w].source
            code == result[w].code
        IN  WholeCharacters(f) /\ SameLengths(f) =>
              \A b \in 0..(Bytes(f.service, Len(f.service)) - 1) :
                  (\E r \in code.ignored : Holds(r, b)) <=> ~InSent(code.mappings, b)
=============================================================================
