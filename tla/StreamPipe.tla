----------------------------- MODULE StreamPipe -----------------------------
(***************************************************************************)
(* What a stream of pkg/streamclient promises to the two programs that use *)
(* it: a bounded first-in first-out pipe of bytes.  A byte is its position *)
(* in the stream, so the pipe is two counters.                             *)
(***************************************************************************)
EXTENDS Integers

CONSTANTS
    ReadWindow, (* bytes the pipe holds at most             *)
    MaxBytes    (* bound: the bytes ever put into the pipe  *)

VARIABLES
    sent,      (* bytes put into the pipe                                   *)
    delivered, (* bytes taken out, in the order they were put in            *)
    input,     (* "open", "eof" or "error": how the writing program left it *)
    output     (* "open", "eof", "error" or "closed": what the reading
                  program was told last                                    *)

pipeVars == <<sent, delivered, input, output>>

PipeInit == sent = 0 /\ delivered = 0 /\ input = "open" /\ output = "open"

Put ==
    /\ input = "open"
    /\ sent' \in (sent + 1)..MaxBytes
    /\ sent' - delivered <= ReadWindow
    /\ UNCHANGED <<delivered, input, output>>

Get ==
    /\ output = "open"
    /\ delivered' \in (delivered + 1)..sent
    /\ UNCHANGED <<sent, input, output>>

Finish ==
    /\ input = "open"
    /\ input' \in {"eof", "error"}
    /\ UNCHANGED <<sent, delivered, output>>

(* End of stream only after the last byte; an error or the reader's own close
   may come before it. *)
Ended ==
    /\ output = "open"
    /\ \/ input = "eof" /\ delivered = sent /\ output' = "eof"
       \/ input = "error" /\ output' = "error"
       \/ output' = "closed"
    /\ UNCHANGED <<sent, delivered, input>>

PipeNext == Put \/ Get \/ Finish \/ Ended

PipeSpec == PipeInit /\ [][PipeNext]_pipeVars
=============================================================================
