---------------------------- MODULE BlockDevice ----------------------------
(***************************************************************************)
(* What a block device promises to the file systems above it: every        *)
(* request takes effect at one instant between its call and its return.    *)
(***************************************************************************)
EXTENDS Integers

CONSTANTS Threads, LbaCount, Values, Requests, None

VARIABLES content, req, ans

Lbas == 0 .. LbaCount - 1
Range(r) == {l \in Lbas : r.loc <= l /\ l < r.loc + r.count}

Init ==
  /\ content \in [Lbas -> Values]
  /\ req = [t \in Threads |-> None]
  /\ ans = [t \in Threads |-> None]

Call(t, r) ==
  /\ req[t] = None
  /\ req' = [req EXCEPT ![t] = r]
  /\ ans' = [ans EXCEPT ![t] = None]
  /\ UNCHANGED content

Return(t) ==
  /\ req[t] # None
  /\ req' = [req EXCEPT ![t] = None]
  /\ IF req[t].op = "write"
     THEN /\ content' = [l \in Lbas |-> IF l \in Range(req[t]) THEN req[t].val
                                        ELSE content[l]]
          /\ UNCHANGED ans
     ELSE /\ ans' = [ans EXCEPT ![t] = [l \in Range(req[t]) |-> content[l]]]
          /\ UNCHANGED content

Next == \E t \in Threads : Return(t) \/ \E r \in Requests : Call(t, r)

Spec == Init /\ [][Next]_<<content, req, ans>>
=============================================================================
