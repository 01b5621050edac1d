---------------------------- MODULE BlockDevice -----------------------------
(***************************************************************************)
(* What the disk driver promises its callers: a call moves the sectors it  *)
(* names, in order, each to or from its own place, and nothing else on the *)
(* disk changes.  A call that fails has moved the first few of them; from  *)
(* then on nothing is promised.                                            *)
(***************************************************************************)
EXTENDS Naturals, Sequences

CONSTANTS Sector, Data

VARIABLES content,  \* of each sector
          call,     \* the call in progress
          got,      \* what the last read has stored in its buffer
          broken    \* a call has failed

vars == <<content, call, got, broken>>

NoCall == [kind |-> "none", first |-> 0, count |-> 0, data |-> <<>>, done |-> 0]

Init == /\ content \in [Sector -> Data]
        /\ call = NoCall
        /\ got = <<>>
        /\ broken = FALSE

Begin == /\ call = NoCall
         /\ call' \in [kind : {"read", "write"}, first : Sector, count : Nat \ {0},
                       data : Seq(Data), done : {0}]
         /\ call'.first + call'.count - 1 \in Sector
         /\ call'.kind = "write" => Len(call'.data) = call'.count
         /\ got' = <<>>
         /\ UNCHANGED <<content, broken>>

Move == LET place == call.first + call.done
        IN  /\ call.done < call.count
            /\ call' = [call EXCEPT !.done = @ + 1]
            /\ \/ /\ call.kind = "write"
                  /\ content' = [content EXCEPT ![place] = call.data[call.done + 1]]
                  /\ UNCHANGED got
               \/ /\ call.kind = "read"
                  /\ got' = Append(got, content[place])
                  /\ UNCHANGED content
            /\ UNCHANGED broken

End == /\ call # NoCall /\ call.done = call.count
       /\ call' = NoCall
       /\ UNCHANGED <<content, got, broken>>

\* The caller is not told.
Fail == /\ call # NoCall
        /\ call' = NoCall
        /\ broken' = TRUE
        /\ UNCHANGED <<content, got>>

Next == Begin \/ Move \/ End \/ Fail \/ (broken /\ broken')

Spec == Init /\ [][Next]_vars
=============================================================================
