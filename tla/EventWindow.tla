----------------------------- MODULE EventWindow -----------------------------
(***************************************************************************)
(* What event deduplication promises, with none of the store traffic that  *)
(* implements it.  The reports of one dedup key arrive in windows; inside  *)
(* a window they are numbered 1, 2, 3, ... and each number sets off the    *)
(* DNS update at most once, possibly after its window has closed.          *)
(***************************************************************************)
EXTENDS Naturals

CONSTANT Keys               \* dedup keys

VARIABLES window,           \* window[k]: index of the current window of key k
          tally,            \* tally[k]: reports in that window
          ballots,          \* <<k, w, i>>: report number i of window w of key k
          fired             \* the ballots that set off a DNS update

vars == <<window, tally, ballots, fired>>

Init == /\ window = [k \in Keys |-> 0]
        /\ tally = [k \in Keys |-> 0]
        /\ ballots = {}
        /\ fired = {}

\* A report joins the current window under the next number.
Cast(k) ==
    /\ tally' = [tally EXCEPT ![k] = @ + 1]
    /\ ballots' = ballots \union {<<k, window[k], tally[k] + 1>>}
    /\ UNCHANGED <<window, fired>>

\* A report that was counted sets off the update, once.
Fire(b) ==
    /\ b \in ballots \ fired
    /\ fired' = fired \union {b}
    /\ UNCHANGED <<window, tally, ballots>>

\* The window closes; the next report of the key is number 1 again.
Close(k) ==
    /\ window' = [window EXCEPT ![k] = @ + 1]
    /\ tally' = [tally EXCEPT ![k] = 0]
    /\ UNCHANGED <<ballots, fired>>

Next == \/ \E k \in Keys : Cast(k) \/ Close(k)
        \/ \E b \in ballots : Fire(b)

Spec == Init /\ [][Next]_vars
=============================================================================
