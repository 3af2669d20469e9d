---------------------------- MODULE PluginPipes ----------------------------
(***************************************************************************)
(* The two operating-system pipes between the Go host and one code        *)
(* generation plugin, and whether each of the two processes still runs.    *)
(*                                                                         *)
(* A frame of the protocol is a five-byte header (kind, payload length)    *)
(* followed by its payload.  The pipe carries UNITS: a unit is a whole     *)
(* header or a whole payload and arrives with its last byte.  Both readers *)
(* act only on a complete header and on a complete payload, so a read that *)
(* stops inside a unit changes nothing they do.                            *)
(***************************************************************************)
EXTENDS Naturals, Sequences

CONSTANTS
    Files,      \* the files a caller may ask the plugin to translate
    PipeCap     \* units a pipe holds before a write to it blocks

ASSUME PipeCapAssumption == PipeCap \in Nat \ {0}

VARIABLES
    stdin,      \* units written by the host, not yet read by the plugin
    stdout,     \* units written by the plugin, not yet read by the host
    host,       \* "starting" | "running" | "failed" (NewPlugin's error) |
                \* "exited" (program done) | "exit1" (os.Exit(1)) | "panic" | "killed"
    plugin      \* "starting" | "running" | "exited"

pipeVars == <<stdin, stdout, host, plugin>>

(* A request asks for one file's code; the response to it carries the code *)
(* generated for that file, named here by the file it was generated from.  *)
Message == [id : Nat, file : Files]

(* A header tells the length of its payload, here the file whose request   *)
(* or response has that length.                                            *)
Header(m) == [unit |-> "header", lengthOf |-> m.file]
Payload(m) == [unit |-> "payload", msg |-> m]
Frame(m) == <<Header(m), Payload(m)>>
InitFrame == << [unit |-> "initLength"], [unit |-> "initJson"] >>

(* os.Exit, a panic or the end of main closes the host's pipe ends. *)
HostUp == host \in {"starting", "running"}
PluginUp == plugin # "exited"

Fits(pipe, n) == Len(pipe) + n <= PipeCap

PipesInit ==
    /\ stdin = <<>>
    /\ stdout = <<>>
    /\ host = "starting"
    /\ plugin = "starting"
=============================================================================
