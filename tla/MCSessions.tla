----------------------------- MODULE MCSessions -----------------------------
(* Instances of Sessions for TLC: a tab with several tasks beside one with one   *)
(* task, in the same browser.                                                  *)
EXTENDS Sessions, TLC

CONSTANTS b1, p1, p2, t1, u1, u2

MCPageOf == [t \in Tasks |-> IF t = t1 THEN p2 ELSE p1]
MCBrowserOf == [p \in Pages |-> b1]
MCForms == {<<"register", u2>>} \cup {"register", "login", "google", "complete"} \X {u1}
=============================================================================
