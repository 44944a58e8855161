-------------------------- MODULE ConfigAuthority --------------------------
(***************************************************************************)
(* What the apply protocol promises about restarts, without files, locks   *)
(* or Caddy: a restart recovers the configuration committed last, or       *)
(* nothing; and only a configuration the running proxy has confirmed is    *)
(* ever committed.  ProxyApply implements this specification.              *)
(***************************************************************************)
CONSTANTS Config, None

VARIABLES current,    \* the configuration committed last
          durable,    \* what a restart would recover now
          verified    \* a candidate the proxy has confirmed, not yet committed

authority == <<current, durable, verified>>

Init == current = None /\ durable = None /\ verified = None

\* The proxy confirmed a candidate while nothing is recoverable: a crash from
\* here to the commit comes up closed.
Verify(c) ==
    /\ durable = None
    /\ verified' = c
    /\ UNCHANGED <<current, durable>>

\* The one step that changes the authoritative configuration.
Commit ==
    /\ verified # None
    /\ current' = verified /\ durable' = verified
    /\ verified' = None

\* A candidate is given up, or lost in a crash.
Abandon ==
    /\ verified' = None
    /\ UNCHANGED <<current, durable>>

\* Recovery is closed: an activation or a storage fault is in the way.
Close ==
    /\ durable' = None
    /\ UNCHANGED <<current, verified>>

\* Recovery opens again, and only for the committed configuration.
Reopen ==
    /\ durable' = current
    /\ verified' = None
    /\ UNCHANGED current

Next ==
    \/ \E c \in Config : Verify(c)
    \/ Commit \/ Abandon \/ Close \/ Reopen

Spec == Init /\ [][Next]_authority
=============================================================================
