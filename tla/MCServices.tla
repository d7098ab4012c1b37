----------------------------- MODULE MCServices -----------------------------
(***************************************************************************)
(* One instance with the parts of the orchestrator that deal with a        *)
(* service outside it: the GitHub publisher, the gate that verifies a      *)
(* merge, the three owner entries and the two credential brokers. They     *)
(* share no state, so a behaviour is about one of them ("which") and the   *)
(* states are the union of seven small instances, not their product. The   *)
(* entries meet only in the credential item, which may exist or not when   *)
(* an entry begins.                                                        *)
(***************************************************************************)
EXTENDS GitHubPublisher, HumanMerge, OwnerEntries, CredentialBrokers, TLC

\* The parts share their names, so that three permutations serve them all.
CONSTANTS p, q,         \* operations, processes of an entry, handles, grants
          x, y,         \* base branches, approvals of an entry
          a, b,         \* commits, digests of the sources
          k1, old       \* the key registered first, the head of a pull request

VARIABLE which

MCOps == {p, q}
MCBases == {x, y}
MCShas == {a, b}

Symmetric == Permutations(MCOps) \cup Permutations(MCBases) \cup Permutations(MCShas)

\* Where the entries are not the subject, no commit is named, for the sake of symmetry.
EntriesUnused ==
    /\ clock = 0 /\ disk = [scope |-> NoSha, rest |-> NoSha]
    /\ file = <<>> /\ claims = <<>> /\ item = "none"
    /\ proc = [o \in Procs |-> Idle]
    /\ uses = [u \in Kinds \X ApprovalIds |-> 0]

MCInit ==
    /\ which \in {"publisher", "gate", "bounded", "local"} \cup Kinds
    /\ Init
    /\ GateInit /\ approver.key = k1 /\ \A n \in Pulls : pull[n].head = old
    /\ IF which \in Kinds THEN EntryInit ELSE EntriesUnused
    /\ BrokerInit

PublisherPart == which = "publisher" /\ Next

GatePart == which = "gate" /\ GateNext

\* A startup compares all digests at every check, so that one part of the code changing is enough.
EntryPart ==
    /\ which \in Kinds
    /\ EntryNext
    /\ which = "startup" => disk'.rest = disk.rest
    /\ \A k \in Kinds \ {which} : file'[k] = NoApproval

BrokerPart ==
    \/ which = "bounded" /\ (BoundedNext \/ BrokerTick)
    \/ which = "local" /\ (LocalNext \/ BrokerTick)

MCNext ==
    /\ \/ PublisherPart /\ UNCHANGED <<gateVars, entryVars, brokerVars>>
       \/ GatePart /\ UNCHANGED <<vars, entryVars, brokerVars>>
       \/ EntryPart /\ UNCHANGED <<vars, gateVars, brokerVars>>
       \/ BrokerPart /\ UNCHANGED <<vars, gateVars, entryVars>>
    /\ UNCHANGED which

MCSpec == MCInit /\ [][MCNext]_<<which, vars, gateVars, entryVars, brokerVars>>
=============================================================================
