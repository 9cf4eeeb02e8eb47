---------------------------- MODULE AtomicConfig ----------------------------
(***************************************************************************)
(* What the configuration API promises: every administrative request that  *)
(* succeeds takes effect once, at one moment, and as a whole.  An update   *)
(* sets one row that exists, or every district a region has; a create adds *)
(* a tier that is missing.                                                 *)
(***************************************************************************)
CONSTANTS Districts, RegionOf, Absent, Writers, OpsOf

VARIABLES
  store,   \* the value of every row
  applied  \* applied[w]: the operation writer w has performed

configVars == <<store, applied>>

ConfigInit == applied = [w \in Writers |-> Absent]

\* The rows that operation o has to set.
Scope(o) ==
  IF o.kind = "putRegion"
    THEN {d \in Districts : RegionOf[d] = o.target /\ store[d] # Absent}
    ELSE {o.target}

Allowed(o) ==
  IF o.kind = "postTier" THEN store[o.target] = Absent
                         ELSE \E r \in Scope(o) : store[r] # Absent

Apply(w, o) ==
  /\ applied[w] = Absent
  /\ Allowed(o)
  /\ store' = [r \in DOMAIN store |-> IF r \in Scope(o) THEN o.value ELSE store[r]]
  /\ applied' = [applied EXCEPT ![w] = o]

ConfigNext == \E w \in Writers : \E o \in OpsOf[w] : Apply(w, o)

ConfigSpec == ConfigInit /\ [][ConfigNext]_configVars

=============================================================================
