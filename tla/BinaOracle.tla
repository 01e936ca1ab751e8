----------------------------- MODULE BinaOracle -----------------------------
(***************************************************************************)
(* The contract that keeps BINA randomness on an EVM chain                  *)
(* (src/l1-chain/Solidity/BinaOracle.sol).  Publishers attest to outputs;   *)
(* with a quorum of equal attestations an output is final and becomes the   *)
(* seed of its purposes.  Publishers with a bond are assigned commitments   *)
(* to future heights and lose a part of the bond when they are not met.     *)
(* Consumers ask for words and have them derived from a seed.               *)
(*                                                                         *)
(* A transaction is one action: it takes effect as a whole or reverts.  A   *)
(* block hash stands for the seed the output carries.  Money is counted in  *)
(* halves of an ether, what one commitment locks; wherever the contract     *)
(* sends money, the receiver takes it.                                      *)
(***************************************************************************)
EXTENDS Integers, Sequences, FiniteSets, FiniteSetsExt, SequencesExt

CONSTANTS
  Accounts,
  Outputs,       \* records [block, height, nullifier, mined, falcon]
  Purposes,      \* purposes other than zero
  Zero,          \* bytes32(0)
  Generic,       \* PURPOSE_GENERIC
  PurposeLists,  \* lists publishers submit an output for
  None,
  Quorums,       \* values the owner sets
  MinBond,       \* MIN_PUBLISHER_BOND
  Slash,         \* COMMITMENT_SLASH_AMOUNT
  Drift,         \* MAX_TIMESTAMP_DRIFT
  MaxAge,        \* MAX_TIMESTAMP_AGE
  Clock,         \* times at which something happens
  Deadlines,     \* deadlines requesters choose
  Asked,         \* purposes words and commitments are asked for
  Targets,       \* heights commitments are asked for
  MinHeights,    \* heights words are asked for
  MaxBond,       \* bound: the largest bond
  MaxCommitments,\* bound: commitments ever requested
  MaxRequests    \* bound: words ever requested

ASSUME ParameterAssumption ==
  /\ Generic \in Purposes /\ Zero \notin Purposes
  /\ \A ps \in PurposeLists : ps # <<>> /\ ToSet(ps) \subseteq Purposes \cup {Zero}
  /\ Asked \subseteq Purposes \cup {Zero}
  /\ Quorums \subseteq Nat \ {0}
  /\ {MinBond, Drift, MaxAge, MaxBond, MaxCommitments, MaxRequests} \subseteq Nat
  /\ Slash \in Nat \ {0}
  /\ Clock \subseteq Nat /\ Clock # {} /\ Deadlines \cup Targets \cup MinHeights \subseteq Nat
  /\ \A o \in Outputs : o.height \in Nat \ {0} /\ o.mined \in Nat /\ o.falcon \in BOOLEAN

Hashes == {o.block : o \in Outputs}

ASSUME AccountsAssumption == IsFiniteSet(Accounts)

\* None stands for what is not there: no block and no final output.
ASSUME NoneAssumption ==
  /\ None \notin Hashes
  /\ None \notin [output : Outputs, purposes : PurposeLists, count : Nat]

VARIABLES
  now,
  publishers,
  requireFalcon,
  quorum,
  attestations,  \* per block: what is attested, by whom; need is history:
                 \* the quorum when the last attestation came
  outputs,       \* outputsByBlockHash
  usedNullifiers,
  latest,        \* per purpose: latest seed, height, Bitcoin height and block
  requests,
  answers,       \* history: the words derived, in order
  bonds, locked,
  active,        \* activePublishers
  index,         \* activePublisherIndex1
  commitments,
  balance        \* of the contract

purposeVars == <<outputs, usedNullifiers, latest>>
requestVars == <<requests, answers>>
bondVars == <<bonds, locked, active, index, commitments, balance>>
adminVars == <<publishers, requireFalcon, quorum>>
vars == <<now, adminVars, attestations, purposeVars, requestVars, bondVars>>

Effective(purpose) == IF purpose = Zero THEN Generic ELSE purpose

----------------------------------------------------------------------------
(* The rotation of bonded publishers *)

\* _removeActivePublisher: the last takes the place.  The variant clears the
\* entry before it moves the last, which may be the same.
RemovedLate(p) ==
  LET last == Last(active)
  IN IF index[p] = 0 THEN [active |-> active, index |-> index]
     ELSE [active |-> Front([active EXCEPT ![index[p]] = last]),
           index |-> [index EXCEPT ![p] = 0, ![last] = index[p]]]
Removed(p) ==
  LET last == Last(active)
  IN IF index[p] = 0 THEN [active |-> active, index |-> index]
     ELSE [active |-> Front([active EXCEPT ![index[p]] = last]),
           index |-> [index EXCEPT ![last] = index[p], ![p] = 0]]

Rotate(rotation) == active' = rotation.active /\ index' = rotation.index

\* Of those whose bond falls short the rotation is rid.  The variant keeps them
\* while they have any.
RotationWhileBonded(p, bond) ==
  IF bond = 0 THEN Removed(p) ELSE [active |-> active, index |-> index]
RotationWith(p, bond) ==
  IF bond < MinBond THEN Removed(p) ELSE [active |-> active, index |-> index]

\* depositBond
DepositBond(p, amount) ==
  LET bond == bonds[p] + amount
  IN /\ p \in publishers
     /\ amount > 0 /\ bond <= MaxBond
     /\ bonds' = [bonds EXCEPT ![p] = bond]
     /\ balance' = balance + amount
     /\ IF bond >= MinBond /\ index[p] = 0
          THEN /\ active' = Append(active, p)
               /\ index' = [index EXCEPT ![p] = Len(active) + 1]
          ELSE UNCHANGED <<active, index>>
     /\ UNCHANGED <<now, adminVars, attestations, purposeVars, requestVars, locked, commitments>>

\* What is not locked.  The variant forgets the locks.
FreeOfAll(p) == bonds[p]
Free(p) == bonds[p] - locked[p]

\* withdrawBond: whether or not the account is a publisher still
WithdrawBond(p, amount) ==
  /\ amount > 0 /\ amount <= Free(p)
  /\ bonds' = [bonds EXCEPT ![p] = @ - amount]
  /\ balance' = balance - amount
  /\ Rotate(RotationWith(p, bonds[p] - amount))
  /\ UNCHANGED <<now, adminVars, attestations, purposeVars, requestVars, locked, commitments>>

----------------------------------------------------------------------------
(* Commitments to future heights *)

\* requestFuturePublication
RequestFuture(purpose, height, deadline) ==
  LET assigned == active[(height % Len(active)) + 1]
  IN /\ Len(commitments) < MaxCommitments
     /\ deadline > now
     /\ active # <<>>
     /\ Free(assigned) >= Slash
     /\ locked' = [locked EXCEPT ![assigned] = @ + Slash]
     /\ commitments' = Append(commitments,
          [purpose |-> Effective(purpose), height |-> height, deadline |-> deadline,
           assigned |-> assigned, resolved |-> FALSE])
     /\ UNCHANGED <<now, adminVars, attestations, purposeVars, requestVars,
                    bonds, active, index, balance>>

\* resolveFutureCommitment
Resolve(i) ==
  LET c == commitments[i]
      p == c.assigned
      published == latest[c.purpose].height >= c.height
      amount == Min({locked[p], Slash})
  IN /\ ~c.resolved
     /\ published \/ now >= c.deadline
     /\ commitments' = [commitments EXCEPT ![i].resolved = TRUE]
     /\ locked' = [locked EXCEPT ![p] = @ - amount]
     /\ IF published THEN UNCHANGED <<bonds, active, index, balance>>
        ELSE /\ bonds' = [bonds EXCEPT ![p] = @ - amount]
             /\ balance' = balance - amount
             /\ Rotate(RotationWith(p, bonds[p] - amount))
     /\ UNCHANGED <<now, adminVars, attestations, purposeVars, requestVars>>

----------------------------------------------------------------------------
(* Outputs *)

\* _validateOutput; no output has a zero field or work out of range.
Valid(o) ==
  /\ requireFalcon => o.falcon
  /\ o.mined <= now + Drift
  /\ o.mined + MaxAge >= now

\* The variant asks only the first publisher.
UnusedAtFirst(o) == attestations[o.block].by = {} => o.nullifier \notin usedNullifiers
Unused(o) == o.nullifier \notin usedNullifiers

Matches(o, purposes) ==
  LET att == attestations[o.block]
  IN att.by # {} => att.output = o /\ att.purposes = purposes

\* No purpose would fall back to an earlier height.  The variant looks at the
\* first purpose alone.
AdvancesFirst(o, purposes) == o.height >= latest[Effective(purposes[1])].height
Advances(o, purposes) ==
  \A i \in DOMAIN purposes : o.height >= latest[Effective(purposes[i])].height

\* The variant waits for one more.
EnoughAndOne(count) == count > quorum
Enough(count) == count >= quorum

Finalize(o, purposes, count) ==
  /\ Advances(o, purposes)
  /\ outputs' = [outputs EXCEPT ![o.block] = [output |-> o, purposes |-> purposes, count |-> count]]
  /\ usedNullifiers' = usedNullifiers \cup {o.nullifier}
  /\ latest' = [p \in Purposes |->
       IF \E i \in DOMAIN purposes : Effective(purposes[i]) = p
         THEN [height |-> o.height, block |-> o.block] ELSE latest[p]]

\* submitOutput, submitOutputForPurposes
Submit(p, o, purposes) ==
  LET by == attestations[o.block].by \cup {p}
  IN /\ p \in publishers
     /\ Valid(o)
     /\ outputs[o.block] = None
     /\ Unused(o)
     /\ Matches(o, purposes)
     /\ p \notin attestations[o.block].by
     /\ attestations' = [attestations EXCEPT ![o.block] =
          [output |-> o, purposes |-> purposes, by |-> by, need |-> quorum]]
     /\ IF Enough(Cardinality(by)) THEN Finalize(o, purposes, Cardinality(by))
        ELSE UNCHANGED purposeVars
     /\ UNCHANGED <<now, adminVars, requestVars, bondVars>>

----------------------------------------------------------------------------
(* Words for consumers *)

\* requestUtility
RequestUtility(purpose, minHeight) ==
  /\ Len(requests) < MaxRequests
  /\ requests' = Append(requests, [purpose |-> Effective(purpose), minHeight |-> minHeight,
                                   fulfilled |-> FALSE])
  /\ UNCHANGED <<now, adminVars, attestations, purposeVars, answers, bondVars>>

\* The variant asks for a seed only.
ReadyAtAnyHeight(r) == latest[r.purpose].block # None
Ready(r) == latest[r.purpose].block # None /\ latest[r.purpose].height >= r.minHeight

\* fulfillUtility, by anyone
FulfillUtility(i) ==
  /\ ~requests[i].fulfilled
  /\ Ready(requests[i])
  /\ requests' = [requests EXCEPT ![i].fulfilled = TRUE]
  /\ answers' = Append(answers, [request |-> i, seed |-> latest[requests[i].purpose].block])
  /\ UNCHANGED <<now, adminVars, attestations, purposeVars, bondVars>>

----------------------------------------------------------------------------
(* The owner; who that is decides nothing else, and transferOwnership is left out *)

\* setPublisher: bond and locks stay
SetPublisher(p, authorized) ==
  /\ publishers' = IF authorized THEN publishers \cup {p} ELSE publishers \ {p}
  /\ IF authorized THEN UNCHANGED <<active, index>> ELSE Rotate(Removed(p))
  /\ UNCHANGED <<now, requireFalcon, quorum, attestations, purposeVars, requestVars,
                 bonds, locked, commitments, balance>>

SetRequireFalcon(required) ==
  /\ requireFalcon' = required
  /\ UNCHANGED <<now, publishers, quorum, attestations, purposeVars, requestVars,
                 bondVars>>

\* setQuorumThreshold: outputs that wait are not looked at.
SetQuorum(k) ==
  /\ quorum' = k
  /\ UNCHANGED <<now, publishers, requireFalcon, attestations, purposeVars, requestVars,
                 bondVars>>

----------------------------------------------------------------------------
(* The specification *)

\* The constructor: the deployer publishes, and may name another.
Init ==
  /\ now = Min(Clock)
  /\ \E deployer, initial \in Accounts : publishers = {deployer, initial}
  /\ requireFalcon = FALSE
  /\ quorum = 1
  /\ attestations = [h \in Hashes |-> [output |-> None, purposes |-> <<>>, by |-> {}, need |-> 1]]
  /\ outputs = [h \in Hashes |-> None]
  /\ usedNullifiers = {}
  /\ latest = [p \in Purposes |-> [height |-> 0, block |-> None]]
  /\ requests = <<>>
  /\ answers = <<>>
  /\ bonds = [p \in Accounts |-> 0]
  /\ locked = [p \in Accounts |-> 0]
  /\ active = <<>>
  /\ index = [p \in Accounts |-> 0]
  /\ commitments = <<>>
  /\ balance = 0

Tick ==
  /\ now' \in {t \in Clock : t > now}
  /\ UNCHANGED <<adminVars, attestations, purposeVars, requestVars, bondVars>>

Next ==
  \/ \E p \in Accounts, amount \in 1..MaxBond : DepositBond(p, amount) \/ WithdrawBond(p, amount)
  \/ \E purpose \in Asked, height \in Targets, deadline \in Deadlines :
       RequestFuture(purpose, height, deadline)
  \/ \E i \in DOMAIN commitments : Resolve(i)
  \/ \E p \in Accounts, o \in Outputs, purposes \in PurposeLists : Submit(p, o, purposes)
  \/ \E purpose \in Asked, height \in MinHeights : RequestUtility(purpose, height)
  \/ \E i \in DOMAIN requests : FulfillUtility(i)
  \/ \E p \in Accounts, authorized \in BOOLEAN : SetPublisher(p, authorized)
  \/ \E required \in BOOLEAN : SetRequireFalcon(required)
  \/ \E k \in Quorums : SetQuorum(k)
  \/ Tick

Spec == Init /\ [][Next]_vars

----------------------------------------------------------------------------
(* Properties *)

\* Every variable has its type, and an account has its index exactly while it
\* is in the rotation, however publishers leave it (_removeActivePublisher).
TypeOK ==
  /\ now \in Clock /\ publishers \subseteq Accounts
  /\ requireFalcon \in BOOLEAN /\ quorum \in Quorums \cup {1}
  /\ \A h \in Hashes : attestations[h].by \subseteq Accounts
  /\ \A h \in Hashes : outputs[h] # None => outputs[h].output \in Outputs
  /\ usedNullifiers \subseteq {o.nullifier : o \in Outputs}
  /\ \A p \in Purposes : latest[p] \in [height : Nat, block : {None} \cup Hashes]
  /\ bonds \in [Accounts -> 0..MaxBond] /\ locked \in [Accounts -> Nat] /\ balance \in Nat
  /\ \A i \in DOMAIN active : index[active[i]] = i
  /\ \A p \in Accounts : index[p] # 0 => p \in ToSet(active)

\* The commitments an account still has to meet.
Pending(p) == {i \in DOMAIN commitments : commitments[i].assigned = p /\ ~commitments[i].resolved}

\* A commitment that is not resolved has its amount locked in the bond of the
\* publisher assigned: withdrawals, slashes of other commitments and the loss of
\* the role never take what one of them backs (requestFuturePublication,
\* withdrawBond, resolveFutureCommitment).
CommitmentsAreLocked ==
  \A p \in Accounts : /\ locked[p] = Slash * Cardinality(Pending(p))
                      /\ locked[p] <= bonds[p]

\* Bonds back commitments, and the contract holds the bonds: what it pays out is
\* what it takes from one of them (withdrawBond, resolveFutureCommitment).
BondsBackCommitments ==
  /\ CommitmentsAreLocked
  /\ balance = MapThenSumSet(LAMBDA p : bonds[p], Accounts)

\* Whoever may be assigned a height is a publisher with a full bond, after
\* slashes, withdrawals, and publishers dismissed and named again.
RotationIsBonded ==
  \A p \in ToSet(active) : p \in publishers /\ bonds[p] >= MinBond

\* The seed of a purpose is the output of the greatest height that is final for
\* it, in whatever order outputs reach their quorum (StaleHeight).
SeedIsHighestFinal ==
  \A p \in Purposes :
    LET final == {h \in Hashes : /\ outputs[h] # None
                                 /\ p \in {Effective(q) : q \in ToSet(outputs[h].purposes)}}
    IN IF final = {} THEN latest[p].block = None
       ELSE /\ latest[p].block \in final
            /\ \A h \in final : outputs[h].output.height <= latest[p].height

\* Two final outputs never share a nullifier, also when both waited for their
\* quorum at the same time (NullifierAlreadyUsed).
NullifiersDiffer ==
  \A g, h \in Hashes : g # h /\ outputs[g] # None /\ outputs[h] # None =>
    outputs[g].output.nullifier # outputs[h].output.nullifier

\* An output is final exactly if as many publishers attested to it as the quorum
\* asked for when the last of them did: only an owner who lowers the quorum
\* later leaves one waiting that has enough (setQuorumThreshold).
QuorumDecides ==
  \A h \in Hashes : attestations[h].by # {} =>
    /\ outputs[h] # None <=> Cardinality(attestations[h].by) >= attestations[h].need
    /\ outputs[h] # None => /\ outputs[h].output = attestations[h].output
                            /\ outputs[h].count = Cardinality(attestations[h].by)

\* A request is answered once, from an output that is final for its purpose and
\* no lower than it asked (fulfillUtility).
AnswersAreLate ==
  /\ \A i, j \in DOMAIN answers : answers[i].request = answers[j].request => i = j
  /\ \A i \in DOMAIN answers :
       LET r == requests[answers[i].request]
           o == outputs[answers[i].seed]
       IN o # None /\ o.output.height >= r.minHeight
=============================================================================
