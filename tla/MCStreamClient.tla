-------------------------- MODULE MCStreamClient --------------------------
(* A stream on a small instance; see the cfg for the bounds.  StreamClient has
   the Reader's loop over the packets that wait out of order in closed form; the
   loop is here as the code has it, and the two are compared. *)
EXTENDS StreamClient

(* One turn of the loop of processOOOPacketsLocked, over what is received and
   whether the loop has been left. *)
Turn(loop, p) ==
    LET r == loop.received
    IN  CASE loop.stopped     -> loop
          [] ~loop.stopped /\ r.eof ->
                 [received |-> [r EXCEPT !.ooo = {}], stopped |-> TRUE]
          [] ~loop.stopped /\ ~r.eof /\ p.seq # r.next -> [loop EXCEPT !.stopped = TRUE]
          [] OTHER -> [loop EXCEPT !.received = [Accept(r, p) EXCEPT !.ooo = @ \ {p}]]

(* processOOOPacketsLocked *)
LoopOOO(r) ==
    FoldLeft(Turn, [received |-> r, stopped |-> FALSE],
             SetToSortSeq(r.ooo, LAMBDA p, q : p.seq < q.seq)).received

(* Packets that wait out of order, no two with one sequence number: data of one
   or two bytes or an EOF at some of the positions 1 to 4, overlaps included. *)
SomeOOO ==
    {{[kind |-> at[i][1], seq |-> i, len |-> at[i][2]] : i \in {j \in 1..4 : at[j] # <<>>}} :
        at \in [1..4 -> {<<>>, <<"data", 1>>, <<"data", 2>>, <<"eof", 0>>}]}

(* The closed form computes what the loop does. *)
ASSUME ClosedFormIsLoop ==
    \A ooo \in SomeOOO, next \in 0..2, ended \in BOOLEAN :
        LET r == [next |-> next, buffer |-> <<0>>, eof |-> ended, ooo |-> ooo]
        IN  ProcessOOO(r) = LoopOOO(r)
=============================================================================
