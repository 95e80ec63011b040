--------------------------- MODULE TemplateService ---------------------------
(***************************************************************************)
(* What an OpenMock instance promises about the mocks it serves, as long   *)
(* as nobody but its admin API changes the templates: an instance in       *)
(* service serves one and the same repository; the repository changes only *)
(* while it is out of service; and it comes back only with a repository    *)
(* read from templates that all load, holding for every key a winner of    *)
(* what the directory and the sets say at that moment.                     *)
(*                                                                         *)
(* AdminReload.tla implements it: that module reads the sets one by one,   *)
(* handles several admin requests at once, and loses requests and timers   *)
(* in every restart.                                                       *)
(***************************************************************************)
EXTENDS Templates

CONSTANT Durable,   \* FALSE: the sets live in the instance (miniredis)
         Down       \* the instance serves no repository

VARIABLES store, disk, serving

serviceVars == <<store, disk, serving>>

ServiceInit ==
    /\ store \in [Sets -> Snapshot]
    /\ disk \in Snapshot
    /\ serving = Down

\* One Redis command of the admin API: one set changes.
EditSet(s) ==
    /\ serving # Down
    /\ \E contents \in Snapshot : store' = [store EXCEPT ![s] = contents]
    /\ UNCHANGED <<disk, serving>>

\* The process ends or is replaced.
Stop ==
    /\ serving' = Down
    /\ store' = IF Durable THEN store ELSE NoSets
    /\ UNCHANGED disk

ComeUp ==
    /\ serving = Down
    /\ ~ Poisoned(store, disk)
    /\ serving' \in Snapshot
    /\ \A k \in Keys : serving'[k] \in Winners(store, disk, k)
    /\ UNCHANGED <<store, disk>>

ServiceNext ==
    \/ \E s \in Sets : EditSet(s)
    \/ Stop
    \/ ComeUp

ServiceSpec == ServiceInit /\ [][ServiceNext]_serviceVars
=============================================================================
