--------------------------- MODULE BinaOracleProofs ---------------------------
(***************************************************************************)
(* For any publishers, outputs, quorums, purposes and clocks: an output is  *)
(* final by its quorum and once, seeds are the highest final outputs,       *)
(* words are answered once and not too early; and for any bonds and heights *)
(* the rotation holds bonded publishers, with commitments locked in bonds.  *)
(*                                                                         *)
(* The two halves of the contract share no state but the publishers, so     *)
(* each has an inductive invariant of its own.                              *)
(***************************************************************************)
EXTENDS BinaOracle, CollectionLemmas, SequenceTheorems

----------------------------------------------------------------------------
(* Outputs and words *)

Attestation == [output : Outputs \cup {None}, purposes : PurposeLists \cup {<<>>},
                by : SUBSET Accounts, need : Nat]
Final == [output : Outputs, purposes : PurposeLists, count : Nat]
Request == [purpose : Purposes, minHeight : Nat, fulfilled : BOOLEAN]

OutputsTyped ==
  /\ quorum \in Nat
  /\ attestations \in [Hashes -> Attestation]
  /\ outputs \in [Hashes -> Final \cup {None}]
  /\ latest \in [Purposes -> [height : Nat, block : Hashes \cup {None}]]
  /\ requests \in Seq(Request)
  /\ answers \in Seq([request : Nat, seed : Hashes])

\* A nullifier is spent by the output that becomes final with it.
FinalIsUsed == \A h \in Hashes : outputs[h] # None => outputs[h].output.nullifier \in usedNullifiers

\* A purpose's height is that of its seed.
SeedIsFinal ==
  \A p \in Purposes : latest[p].block # None =>
    /\ outputs[latest[p].block] # None
    /\ outputs[latest[p].block].output.height = latest[p].height

AnswersAreOfRequests ==
  \A i \in DOMAIN answers : /\ answers[i].request \in DOMAIN requests
                            /\ requests[answers[i].request].fulfilled

OutputInv ==
  /\ OutputsTyped
  /\ FinalIsUsed
  /\ SeedIsFinal
  /\ AnswersAreOfRequests
  /\ QuorumDecides
  /\ NullifiersDiffer
  /\ SeedIsHighestFinal
  /\ AnswersAreLate

LEMMA EffectiveType == \A q \in Purposes \cup {Zero} : Effective(q) \in Purposes
BY ParameterAssumption DEF Effective

LEMMA HashType == \A o \in Outputs : o.block \in Hashes
BY DEF Hashes

LEMMA OutputInit == Init => OutputInv
<1> SUFFICES ASSUME Init PROVE OutputInv
  OBVIOUS
<1>1. OutputsTyped
  BY DEF Init, OutputsTyped, Attestation, Final
<1>2. FinalIsUsed /\ SeedIsFinal /\ AnswersAreOfRequests
  BY DEF Init, FinalIsUsed, SeedIsFinal, AnswersAreOfRequests
<1>3. QuorumDecides /\ NullifiersDiffer /\ AnswersAreLate
  BY DEF Init, QuorumDecides, NullifiersDiffer, AnswersAreLate
<1>4. SeedIsHighestFinal
  BY DEF Init, SeedIsHighestFinal
<1> QED
  BY <1>1, <1>2, <1>3, <1>4 DEF OutputInv

\* The outputs a purpose may have its seed from.
FinalFor(p) ==
  {h \in Hashes : outputs[h] # None /\ p \in {Effective(q) : q \in ToSet(outputs[h].purposes)}}

\* submitOutput, submitOutputForPurposes: the attestation alone, or the last one.
LEMMA SubmitKeeps ==
  ASSUME OutputInv, NEW p \in Accounts, NEW o \in Outputs, NEW purposes \in PurposeLists,
         Submit(p, o, purposes)
  PROVE  OutputInv'
<1> DEFINE b == o.block
           by == attestations[b].by \cup {p}
           att == [output |-> o, purposes |-> purposes, by |-> by, need |-> quorum]
           final == [output |-> o, purposes |-> purposes, count |-> Cardinality(by)]
<1> USE HashType
<1>1. /\ b \in Hashes /\ outputs[b] = None /\ o.nullifier \notin usedNullifiers
      /\ attestations' = [attestations EXCEPT ![b] = att]
      /\ UNCHANGED <<quorum, requests, answers>>
  BY DEF Submit, Unused, adminVars, requestVars
<1>2. by \in SUBSET Accounts /\ Cardinality(by) \in Nat /\ final \in Final /\ att \in Attestation
  <2>1. by \in SUBSET Accounts
    BY <1>1 DEF OutputInv, OutputsTyped, Attestation
  <2>2. Cardinality(by) \in Nat
    BY <2>1, AccountsAssumption, FS_Subset, FS_CardinalityType
  <2> QED
    BY <2>1, <2>2 DEF Final, Attestation, OutputInv, OutputsTyped
<1>3. attestations' \in [Hashes -> Attestation]
  BY <1>1, <1>2 DEF OutputInv, OutputsTyped
<1>4. CASE ~Enough(Cardinality(by)) /\ UNCHANGED purposeVars
  <2>1. UNCHANGED <<outputs, usedNullifiers, latest>> /\ ~(Cardinality(by) >= quorum)
    BY <1>4 DEF purposeVars, Enough
  <2>2. QuorumDecides'
    BY <1>1, <1>2, <2>1 DEF OutputInv, OutputsTyped, QuorumDecides
  <2> QED
    BY <1>1, <1>3, <2>1, <2>2
    DEF OutputInv, OutputsTyped, FinalIsUsed, SeedIsFinal, AnswersAreOfRequests,
        NullifiersDiffer, SeedIsHighestFinal, AnswersAreLate
<1>5. CASE Enough(Cardinality(by)) /\ Finalize(o, purposes, Cardinality(by))
  <2> DEFINE touched == {Effective(purposes[i]) : i \in DOMAIN purposes}
  <2>1. /\ Cardinality(by) >= quorum
        /\ outputs' = [outputs EXCEPT ![b] = final]
        /\ usedNullifiers' = usedNullifiers \cup {o.nullifier}
        /\ latest' = [q \in Purposes |->
                        IF q \in touched THEN [height |-> o.height, block |-> b] ELSE latest[q]]
        /\ \A q \in touched : o.height >= latest[q].height
    BY <1>5 DEF Enough, Finalize, Advances
  <2>2. /\ o.height \in Nat /\ None \notin Hashes /\ None \notin Final
        /\ touched = {Effective(q) : q \in ToSet(purposes)}
    BY ParameterAssumption, NoneAssumption DEF ToSet, Final
  <2>3. /\ outputs'[b] = final /\ outputs'[b] # None
        /\ \A h \in Hashes \ {b} : outputs'[h] = outputs[h]
    BY <1>1, <1>2, <2>1, <2>2 DEF OutputInv, OutputsTyped
  <2>4. OutputsTyped'
    BY <1>1, <1>2, <1>3, <2>1, <2>2 DEF OutputInv, OutputsTyped
  <2>5. FinalIsUsed' /\ NullifiersDiffer'
    BY <1>1, <2>1, <2>3 DEF OutputInv, FinalIsUsed, NullifiersDiffer
  <2>6. SeedIsFinal'
    <3> SUFFICES ASSUME NEW q \in Purposes, latest'[q].block # None
                 PROVE  /\ outputs'[latest'[q].block] # None
                        /\ outputs'[latest'[q].block].output.height = latest'[q].height
      BY DEF SeedIsFinal
    <3>1. CASE q \in touched
      BY <3>1, <2>1, <2>3
    <3>2. CASE q \notin touched
      <4>1. latest'[q] = latest[q] /\ latest[q].block \in Hashes
        BY <3>2, <2>1 DEF OutputInv, OutputsTyped
      <4>2. outputs[latest[q].block] # None
            /\ outputs[latest[q].block].output.height = latest[q].height
        BY <4>1 DEF OutputInv, SeedIsFinal
      <4> QED
        BY <4>1, <4>2, <1>1, <2>3
    <3> QED
      BY <3>1, <3>2
  <2>7. AnswersAreOfRequests' /\ AnswersAreLate'
    <3>1. \A i \in DOMAIN answers : answers[i].seed \in Hashes
      <4>1. answers \in Seq([request : Nat, seed : Hashes])
        BY DEF OutputInv, OutputsTyped
      <4>2. \A i \in DOMAIN answers : answers[i] \in [request : Nat, seed : Hashes]
        BY <4>1, LenProperties, ElementOfSeq
      <4> QED
        BY <4>2
    <3>2. \A i \in DOMAIN answers : outputs'[answers[i].seed] = outputs[answers[i].seed]
      BY <1>1, <2>3, <3>1 DEF OutputInv, AnswersAreLate
    <3>3. AnswersAreOfRequests'
      BY <1>1 DEF OutputInv, AnswersAreOfRequests
    <3> QED
      BY <1>1, <3>1, <3>2, <3>3 DEF OutputInv, AnswersAreLate
  <2>8. QuorumDecides'
    BY <1>1, <1>2, <2>1, <2>3 DEF OutputInv, OutputsTyped, QuorumDecides
  <2>9. SeedIsHighestFinal'
    <3> SUFFICES ASSUME NEW q \in Purposes
                 PROVE  IF FinalFor(q)' = {} THEN latest'[q].block = None
                        ELSE /\ latest'[q].block \in FinalFor(q)'
                             /\ \A h \in FinalFor(q)' : outputs'[h].output.height <= latest'[q].height
      BY DEF SeedIsHighestFinal, FinalFor
    <3>1. IF FinalFor(q) = {} THEN latest[q].block = None
          ELSE /\ latest[q].block \in FinalFor(q)
               /\ \A h \in FinalFor(q) : outputs[h].output.height <= latest[q].height
      BY DEF OutputInv, SeedIsHighestFinal, FinalFor
    <3>2. FinalFor(q)' = FinalFor(q) \cup (IF q \in touched THEN {b} ELSE {})
      <4>1. b \notin FinalFor(q) /\ final.purposes = purposes
        BY <1>1 DEF FinalFor
      <4>2. b \in FinalFor(q)' <=> q \in touched
        BY <1>1, <2>2, <2>3, <4>1 DEF FinalFor
      <4>3. \A h \in Hashes \ {b} : h \in FinalFor(q)' <=> h \in FinalFor(q)
        BY <2>3 DEF FinalFor
      <4>4. FinalFor(q) \subseteq Hashes /\ FinalFor(q)' \subseteq Hashes
        BY DEF FinalFor
      <4> QED
        BY <1>1, <4>1, <4>2, <4>3, <4>4
    <3>3. b \notin FinalFor(q) /\ FinalFor(q) \subseteq Hashes
      BY <1>1 DEF FinalFor
    <3>4. CASE q \in touched
      <4>1. latest'[q] = [height |-> o.height, block |-> b] /\ o.height >= latest[q].height
        BY <3>4, <2>1
      <4>2. \A h \in FinalFor(q) : outputs[h].output.height \in Nat /\ outputs'[h] = outputs[h]
        BY <2>3, <3>3, ParameterAssumption DEF FinalFor, OutputInv, OutputsTyped, Final
      <4>3. latest[q].height \in Nat
        BY DEF OutputInv, OutputsTyped
      <4> QED
        BY <3>1, <3>2, <3>4, <4>1, <4>2, <4>3, <2>2, <2>3
    <3>5. CASE q \notin touched
      BY <3>1, <3>2, <3>3, <3>5, <2>1, <2>3
    <3> QED
      BY <3>4, <3>5
  <2> QED
    BY <2>4, <2>5, <2>6, <2>7, <2>8, <2>9 DEF OutputInv
<1> QED
  BY <1>4, <1>5 DEF Submit

\* requestUtility: earlier requests keep their places.
LEMMA RequestKeeps ==
  ASSUME OutputInv, NEW purpose \in Asked, NEW height \in MinHeights,
         RequestUtility(purpose, height)
  PROVE  OutputInv'
<1> DEFINE r == [purpose |-> Effective(purpose), minHeight |-> height, fulfilled |-> FALSE]
<1>1. /\ requests' = Append(requests, r)
      /\ UNCHANGED <<quorum, attestations, outputs, usedNullifiers, latest, answers>>
  BY DEF RequestUtility, adminVars, purposeVars
<1>2. r \in Request
  BY EffectiveType, ParameterAssumption DEF Request
<1>3. requests' \in Seq(Request) /\ \A i \in DOMAIN requests : i \in DOMAIN requests' /\ requests'[i] = requests[i]
  BY <1>1, <1>2 DEF OutputInv, OutputsTyped
<1>4. AnswersAreOfRequests' /\ AnswersAreLate'
  BY <1>1, <1>3 DEF OutputInv, AnswersAreOfRequests, AnswersAreLate
<1> QED
  BY <1>1, <1>3, <1>4
  DEF OutputInv, OutputsTyped, FinalIsUsed, SeedIsFinal, QuorumDecides, NullifiersDiffer,
      SeedIsHighestFinal

\* fulfillUtility
LEMMA FulfillKeeps ==
  ASSUME OutputInv, NEW i \in DOMAIN requests, FulfillUtility(i) PROVE OutputInv'
<1> DEFINE r == requests[i]
           a == [request |-> i, seed |-> latest[r.purpose].block]
<1>1. /\ ~r.fulfilled /\ latest[r.purpose].block # None /\ latest[r.purpose].height >= r.minHeight
      /\ requests' = [requests EXCEPT ![i].fulfilled = TRUE]
      /\ answers' = Append(answers, a)
      /\ UNCHANGED <<quorum, attestations, outputs, usedNullifiers, latest>>
  BY DEF FulfillUtility, Ready, adminVars, purposeVars
<1>2. r \in Request /\ i \in Nat
  BY DEF OutputInv, OutputsTyped
<1>3. a.seed \in Hashes /\ outputs[a.seed] # None /\ outputs[a.seed].output.height >= r.minHeight
  BY <1>1, <1>2 DEF OutputInv, OutputsTyped, SeedIsFinal, Request
<1>4. /\ requests' \in Seq(Request) /\ DOMAIN requests' = DOMAIN requests
      /\ \A j \in DOMAIN requests : /\ requests'[j].minHeight = requests[j].minHeight
                                    /\ requests[j].fulfilled \/ j = i => requests'[j].fulfilled
  <2>1. requests' = [requests EXCEPT ![i] = [@ EXCEPT !.fulfilled = TRUE]]
    BY <1>1
  <2>2. [r EXCEPT !.fulfilled = TRUE] \in Request
    BY <1>2 DEF Request
  <2>3. \A j \in DOMAIN requests : requests[j] \in Request
    BY DEF OutputInv, OutputsTyped
  <2> QED
    BY <2>1, <2>2, <2>3 DEF OutputInv, OutputsTyped, Request
<1>5. /\ answers' \in Seq([request : Nat, seed : Hashes])
      /\ DOMAIN answers' = DOMAIN answers \cup {Len(answers) + 1}
      /\ answers'[Len(answers) + 1] = a
      /\ \A j \in DOMAIN answers : answers'[j] = answers[j] /\ j # Len(answers) + 1
  BY <1>1, <1>2, <1>3 DEF OutputInv, OutputsTyped
<1>6. AnswersAreOfRequests'
  BY <1>4, <1>5 DEF OutputInv, AnswersAreOfRequests
<1>7. AnswersAreLate'
  <2>1. \A j \in DOMAIN answers : answers[j].request # i
    BY <1>1 DEF OutputInv, AnswersAreOfRequests
  <2>2. \A j, k \in DOMAIN answers' : answers'[j].request = answers'[k].request => j = k
    BY <1>5, <2>1 DEF OutputInv, AnswersAreLate
  <2>3. \A j \in DOMAIN answers : answers[j].request \in DOMAIN requests
    BY DEF OutputInv, AnswersAreOfRequests
  <2>4. \A j \in DOMAIN answers' :
          LET o == outputs'[answers'[j].seed]
          IN o # None /\ o.output.height >= requests'[answers'[j].request].minHeight
    BY <1>1, <1>3, <1>4, <1>5, <2>3 DEF OutputInv, AnswersAreLate
  <2> QED
    BY <2>2, <2>4 DEF AnswersAreLate
<1> QED
  BY <1>1, <1>4, <1>5, <1>6, <1>7
  DEF OutputInv, OutputsTyped, FinalIsUsed, SeedIsFinal, QuorumDecides, NullifiersDiffer,
      SeedIsHighestFinal

\* The owner's quorum decides of later attestations only; bonds, commitments and
\* the clock decide of none.
LEMMA RestKeepsOutputs ==
  ASSUME OutputInv, quorum' \in Nat, UNCHANGED <<attestations, purposeVars, requestVars>>
  PROVE  OutputInv'
<1>1. UNCHANGED <<attestations, outputs, usedNullifiers, latest, requests, answers>>
  BY DEF purposeVars, requestVars
<1> QED
  BY <1>1
  DEF OutputInv, OutputsTyped, FinalIsUsed, SeedIsFinal, AnswersAreOfRequests, QuorumDecides,
      NullifiersDiffer, SeedIsHighestFinal, AnswersAreLate

LEMMA OutputStep == OutputInv /\ [Next]_vars => OutputInv'
<1> SUFFICES ASSUME OutputInv, [Next]_vars PROVE OutputInv'
  OBVIOUS
<1>0. quorum \in Nat
  BY DEF OutputInv, OutputsTyped
<1>1. CASE \E p \in Accounts, o \in Outputs, purposes \in PurposeLists : Submit(p, o, purposes)
  BY <1>1, SubmitKeeps
<1>2. CASE \E purpose \in Asked, height \in MinHeights : RequestUtility(purpose, height)
  BY <1>2, RequestKeeps
<1>3. CASE \E i \in DOMAIN requests : FulfillUtility(i)
  BY <1>3, FulfillKeeps
<1>4. CASE \E k \in Quorums : SetQuorum(k)
  BY <1>4, RestKeepsOutputs, ParameterAssumption DEF SetQuorum
<1>5. CASE \E p \in Accounts, amount \in 1..MaxBond : DepositBond(p, amount) \/ WithdrawBond(p, amount)
  BY <1>0, <1>5, RestKeepsOutputs DEF DepositBond, WithdrawBond, adminVars
<1>6. CASE \/ \E purpose \in Asked, height \in Targets, deadline \in Deadlines :
                RequestFuture(purpose, height, deadline)
           \/ \E i \in DOMAIN commitments : Resolve(i)
  BY <1>0, <1>6, RestKeepsOutputs DEF RequestFuture, Resolve, adminVars
<1>7. CASE \/ \E p \in Accounts, authorized \in BOOLEAN : SetPublisher(p, authorized)
           \/ \E required \in BOOLEAN : SetRequireFalcon(required)
           \/ Tick
  BY <1>0, <1>7, RestKeepsOutputs DEF SetPublisher, SetRequireFalcon, Tick, adminVars
<1>8. CASE UNCHANGED vars
  BY <1>0, <1>8, RestKeepsOutputs DEF vars, adminVars
<1> QED
  BY <1>1, <1>2, <1>3, <1>4, <1>5, <1>6, <1>7, <1>8 DEF Next

LEMMA OutputInvAlways == Spec => []OutputInv
<1>1. Init => OutputInv
  BY OutputInit
<1>2. OutputInv /\ [Next]_vars => OutputInv'
  BY OutputStep
<1> QED
  BY <1>1, <1>2, PTL DEF Spec

\* Outputs are final by their quorum, with the content attested to, whatever
\* the owner does to the quorum before and after (submitOutput,
\* setQuorumThreshold).
THEOREM QuorumDecidesAlways == Spec => []QuorumDecides
<1>1. OutputInv => QuorumDecides
  BY DEF OutputInv
<1> QED
  BY <1>1, OutputInvAlways, PTL

\* No two final outputs share a nullifier, however many wait for their quorum
\* at once (NullifierAlreadyUsed).
THEOREM NullifiersDifferAlways == Spec => []NullifiersDiffer
<1>1. OutputInv => NullifiersDiffer
  BY DEF OutputInv
<1> QED
  BY <1>1, OutputInvAlways, PTL

\* A purpose's seed is the highest output final for it (_attestAndMaybeFinalize
\* and its StaleHeight).
THEOREM SeedIsHighestAlways == Spec => []SeedIsHighestFinal
<1>1. OutputInv => SeedIsHighestFinal
  BY DEF OutputInv
<1> QED
  BY <1>1, OutputInvAlways, PTL

\* A request is answered once and from a height it may be answered from
\* (fulfillUtility).
THEOREM AnswersAreLateAlways == Spec => []AnswersAreLate
<1>1. OutputInv => AnswersAreLate
  BY DEF OutputInv
<1> QED
  BY <1>1, OutputInvAlways, PTL

----------------------------------------------------------------------------
(* The rotation *)

\* The array and the indices into it describe each other.
Places(list, place) ==
  /\ list \in Seq(Accounts) /\ place \in [Accounts -> Nat]
  /\ \A i \in DOMAIN list : place[list[i]] = i
  /\ \A p \in Accounts : place[p] # 0 => place[p] \in DOMAIN list /\ list[place[p]] = p

\* _removeActivePublisher takes one account out and keeps the others, also when
\* it is the last.
LEMMA RemovedPlaces ==
  ASSUME Places(active, index), NEW p \in Accounts
  PROVE  /\ Places(Removed(p).active, Removed(p).index)
         /\ \A i \in DOMAIN Removed(p).active : /\ Removed(p).active[i] \in ToSet(active)
                                                /\ Removed(p).active[i] # p
<1>1. CASE index[p] = 0
  <2>1. Removed(p).active = active /\ Removed(p).index = index
    BY <1>1 DEF Removed
  <2>2. \A i \in DOMAIN active : active[i] # p /\ active[i] \in ToSet(active)
    BY <1>1 DEF Places, ToSet
  <2> QED
    BY <2>1, <2>2
<1>2. CASE index[p] # 0
  <2> DEFINE n == Len(active)
             k == index[p]
             last == active[n]
             a == [active EXCEPT ![k] = last]
             x == [index EXCEPT ![last] = k, ![p] = 0]
  <2>1. /\ active \in Seq(Accounts) /\ index \in [Accounts -> Nat]
        /\ n \in Nat /\ k \in 1..n /\ n \in 1..n /\ active[k] = p /\ DOMAIN active = 1..n
        /\ last \in Accounts /\ index[last] = n
    BY <1>2 DEF Places
  <2>2. a \in Seq(Accounts) /\ Len(a) = n /\ x \in [Accounts -> Nat]
    BY <2>1
  <2>3. Removed(p).active = SubSeq(a, 1, n - 1) /\ Removed(p).index = x
    BY <1>2, <2>2 DEF Removed, Front, Last
  <2> DEFINE b == SubSeq(a, 1, n - 1)
  <2>4. /\ b \in Seq(Accounts) /\ DOMAIN b = 1..(n - 1)
        /\ \A i \in 1..(n - 1) : b[i] = IF i = k THEN last ELSE active[i]
    BY <2>1, <2>2
  <2>5. \A i \in DOMAIN b : x[b[i]] = i /\ b[i] # p /\ b[i] \in ToSet(active)
    <3> SUFFICES ASSUME NEW i \in 1..(n - 1)
                 PROVE  x[b[i]] = i /\ b[i] # p /\ b[i] \in ToSet(active)
      BY <2>4
    <3>1. CASE i = k
      BY <3>1, <2>1, <2>4 DEF ToSet
    <3>2. CASE i # k
      <4>0. n \in Nat /\ DOMAIN active = 1..n
        BY <2>1
      <4>1. i \in 1..n /\ i \in DOMAIN active /\ i # n
        <5> HIDE DEF n
        <5> QED
          BY <4>0
      <4>2. active[i] \in Accounts
        BY <2>1, <4>1, ElementOfSeq
      <4>3. index[active[i]] = i /\ active[i] \in ToSet(active)
        BY <4>1 DEF Places, ToSet
      <4>4. active[i] # p /\ active[i] # last
        BY <3>2, <4>1, <4>3, <2>1
      <4>5. x[active[i]] = index[active[i]] /\ b[i] = active[i]
        BY <3>2, <4>2, <4>4, <2>1, <2>4
      <4> QED
        BY <4>3, <4>4, <4>5
    <3> QED
      BY <3>1, <3>2
  <2>6. \A q \in Accounts : x[q] # 0 => x[q] \in DOMAIN b /\ b[x[q]] = q
    <3> SUFFICES ASSUME NEW q \in Accounts, x[q] # 0 PROVE x[q] \in 1..(n - 1) /\ b[x[q]] = q
      BY <2>4
    <3>1. q # p
      BY <2>1
    <3>2. CASE q = last
      BY <3>1, <3>2, <2>1, <2>4
    <3>3. CASE q # last
      <4>1. x[q] = index[q] /\ index[q] \in 1..n /\ active[index[q]] = q
        BY <3>1, <3>3, <2>1 DEF Places
      <4> QED
        BY <3>1, <3>3, <4>1, <2>1, <2>4
    <3> QED
      BY <3>2, <3>3
  <2> QED
    BY <2>2, <2>3, <2>4, <2>5, <2>6 DEF Places
<1> QED
  BY <1>1, <1>2

----------------------------------------------------------------------------
(* Bonds *)

Commitment == [purpose : Purposes, height : Nat, deadline : Nat, assigned : Accounts,
               resolved : BOOLEAN]

BondsTyped ==
  /\ bonds \in [Accounts -> Int] /\ locked \in [Accounts -> Int]
  /\ commitments \in Seq(Commitment)

BondInv ==
  /\ BondsTyped
  /\ Places(active, index)
  /\ RotationIsBonded
  /\ CommitmentsAreLocked

LEMMA PendingFinite ==
  ASSUME BondsTyped, NEW p
  PROVE  IsFiniteSet(Pending(p)) /\ Cardinality(Pending(p)) \in Nat
<1>1. Pending(p) \in SUBSET (1..Len(commitments)) /\ Len(commitments) \in Nat
  BY DEF BondsTyped, Pending
<1>2. IsFiniteSet(1..Len(commitments))
  BY <1>1, FS_Interval
<1> QED
  BY <1>1, <1>2, FS_Subset, FS_CardinalityType

LEMMA SlashTimes ==
  \A c \in Nat : Slash * (c + 1) = Slash * c + Slash /\ Slash * c \in Nat /\ Slash * c >= 0
BY ParameterAssumption

LEMMA BondInit == Init => BondInv
<1> SUFFICES ASSUME Init PROVE BondInv
  OBVIOUS
<1>1. BondsTyped /\ Places(active, index) /\ RotationIsBonded
  BY DEF Init, BondsTyped, Places, RotationIsBonded, ToSet
<1>2. \A p \in Accounts : Pending(p) = {}
  BY DEF Init, Pending
<1>3. CommitmentsAreLocked
  <2>1. Slash * 0 = 0
    BY ParameterAssumption
  <2> QED
    <3> SUFFICES ASSUME NEW p \in Accounts
                 PROVE  locked[p] = Slash * Cardinality(Pending(p)) /\ locked[p] <= bonds[p]
      BY DEF CommitmentsAreLocked
    <3>1. Cardinality(Pending(p)) = 0
      BY <1>2, FS_EmptySet
    <3>2. locked[p] = 0 /\ bonds[p] = 0
      BY DEF Init
    <3> QED
      BY <2>1, <3>1, <3>2
<1> QED
  BY <1>1, <1>3 DEF BondInv

\* After an account's bond changes, the rotation is rid of it where it falls
\* short.
LEMMA RotationKeeps ==
  ASSUME BondInv, NEW p \in Accounts, NEW bond \in Int, UNCHANGED publishers,
         bonds' = [bonds EXCEPT ![p] = bond],
         Rotate(RotationWith(p, bond))
  PROVE  Places(active, index)' /\ RotationIsBonded'
<1>1. \A q \in Accounts : bonds'[q] = IF q = p THEN bond ELSE bonds[q]
  BY DEF BondInv, BondsTyped
<1>2. MinBond \in Int
  BY ParameterAssumption
<1>3. CASE bond < MinBond
  <2>1. active' = Removed(p).active /\ index' = Removed(p).index
    BY <1>3 DEF Rotate, RotationWith
  <2>2. Places(active', index') /\ \A i \in DOMAIN active' : active'[i] \in ToSet(active) /\ active'[i] # p
    BY <2>1, RemovedPlaces DEF BondInv
  <2>3. ToSet(active) \subseteq Accounts
    BY DEF BondInv, Places, ToSet
  <2>4. RotationIsBonded'
    BY <1>1, <2>2, <2>3 DEF BondInv, RotationIsBonded, ToSet
  <2> QED
    BY <2>2, <2>4 DEF Places
<1>4. CASE ~(bond < MinBond)
  <2>1. UNCHANGED <<active, index>> /\ bond >= MinBond
    BY <1>2, <1>4 DEF Rotate, RotationWith
  <2>2. ToSet(active) \subseteq Accounts
    BY DEF BondInv, Places, ToSet
  <2> QED
    BY <1>1, <2>1, <2>2 DEF BondInv, Places, RotationIsBonded, ToSet
<1> QED
  BY <1>3, <1>4

\* depositBond: an account that has its full bond comes last in the rotation.
LEMMA DepositKeeps ==
  ASSUME BondInv, NEW p \in Accounts, NEW amount \in 1..MaxBond, DepositBond(p, amount)
  PROVE  BondInv'
<1> DEFINE bond == bonds[p] + amount
<1>1. /\ p \in publishers /\ bond \in Int /\ amount > 0 /\ amount \in Int
      /\ bonds' = [bonds EXCEPT ![p] = bond]
      /\ UNCHANGED <<publishers, locked, commitments>>
  BY ParameterAssumption DEF DepositBond, adminVars, BondInv, BondsTyped
<1>2. BondsTyped' /\ \A q \in Accounts : bonds'[q] >= bonds[q] /\ bonds'[q] \in Int /\ (q = p => bonds'[q] = bond)
  BY <1>1 DEF BondInv, BondsTyped
<1>3. CommitmentsAreLocked'
  <2>1. \A q \in Accounts : locked[q] \in Int /\ bonds[q] \in Int
    BY DEF BondInv, BondsTyped
  <2> QED
    BY <1>1, <1>2, <2>1 DEF BondInv, CommitmentsAreLocked, Pending
<1>4. MinBond \in Int /\ ToSet(active) \subseteq Accounts
  BY ParameterAssumption DEF BondInv, Places, ToSet
<1>5. CASE UNCHANGED <<active, index>>
  <2>1. RotationIsBonded'
    BY <1>1, <1>2, <1>4, <1>5 DEF BondInv, BondsTyped, RotationIsBonded, ToSet
  <2> QED
    BY <1>2, <1>3, <1>5, <2>1 DEF BondInv, Places
<1>6. CASE /\ bond >= MinBond /\ index[p] = 0
           /\ active' = Append(active, p) /\ index' = [index EXCEPT ![p] = Len(active) + 1]
  <2>1. /\ active \in Seq(Accounts) /\ Len(active) \in Nat /\ index \in [Accounts -> Nat]
        /\ DOMAIN active = 1..Len(active)
    BY DEF BondInv, Places
  <2>2. /\ active' \in Seq(Accounts) /\ index' \in [Accounts -> Nat]
        /\ DOMAIN active' = 1..(Len(active) + 1) /\ active'[Len(active) + 1] = p
        /\ \A i \in DOMAIN active : active'[i] = active[i] /\ active[i] \in Accounts
    BY <1>6, <2>1
  <2>3. \A i \in DOMAIN active : active[i] # p /\ index[active[i]] = i
    BY <1>6 DEF BondInv, Places
  <2>4. Places(active, index)'
    <3>1. \A i \in DOMAIN active' : index'[active'[i]] = i
      BY <1>6, <2>1, <2>2, <2>3
    <3>2. \A q \in Accounts : index'[q] # 0 => index'[q] \in DOMAIN active' /\ active'[index'[q]] = q
      BY <1>6, <2>1, <2>2 DEF BondInv, Places
    <3> QED
      BY <2>2, <3>1, <3>2 DEF Places
  <2>5. ToSet(active)' \subseteq ToSet(active) \cup {p}
    <3> SUFFICES ASSUME NEW i \in DOMAIN active' PROVE active'[i] \in ToSet(active) \cup {p}
      BY DEF ToSet
    <3>1. i \in DOMAIN active \/ i = Len(active) + 1
      BY <2>1, <2>2
    <3> QED
      BY <2>2, <3>1 DEF ToSet
  <2>6. RotationIsBonded'
    BY <1>1, <1>2, <1>4, <1>6, <2>5 DEF BondInv, BondsTyped, RotationIsBonded
  <2> QED
    BY <1>2, <1>3, <2>4, <2>6 DEF BondInv
<1> QED
  BY <1>5, <1>6 DEF DepositBond

\* withdrawBond: no more than is free of locks.
LEMMA WithdrawKeeps ==
  ASSUME BondInv, NEW p \in Accounts, NEW amount \in 1..MaxBond, WithdrawBond(p, amount)
  PROVE  BondInv'
<1> DEFINE bond == bonds[p] - amount
<1>1. /\ bond \in Int /\ amount \in Int /\ amount <= bonds[p] - locked[p]
      /\ bonds' = [bonds EXCEPT ![p] = bond]
      /\ Rotate(RotationWith(p, bond))
      /\ UNCHANGED <<publishers, locked, commitments>>
  BY ParameterAssumption DEF WithdrawBond, Free, adminVars, BondInv, BondsTyped
<1>2. BondsTyped'
  BY <1>1 DEF BondInv, BondsTyped
<1>3. Places(active, index)' /\ RotationIsBonded'
  BY <1>1, RotationKeeps
<1>4. CommitmentsAreLocked'
  <2>1. \A q \in Accounts : bonds'[q] = IF q = p THEN bond ELSE bonds[q]
    BY <1>1 DEF BondInv, BondsTyped
  <2>2. locked[p] <= bond
    BY <1>1 DEF BondInv, BondsTyped
  <2> QED
    BY <1>1, <2>1, <2>2 DEF BondInv, CommitmentsAreLocked, Pending
<1> QED
  BY <1>2, <1>3, <1>4 DEF BondInv

\* requestFuturePublication: the publisher whose turn the height is has room for
\* one commitment more.
LEMMA FutureKeeps ==
  ASSUME BondInv, NEW purpose \in Asked, NEW height \in Targets, NEW deadline \in Deadlines,
         RequestFuture(purpose, height, deadline)
  PROVE  BondInv'
<1> DEFINE p == active[(height % Len(active)) + 1]
           c == [purpose |-> Effective(purpose), height |-> height, deadline |-> deadline,
                 assigned |-> p, resolved |-> FALSE]
           n == Len(commitments)
<1>1. /\ active # <<>> /\ bonds[p] - locked[p] >= Slash
      /\ locked' = [locked EXCEPT ![p] = @ + Slash]
      /\ commitments' = Append(commitments, c)
      /\ UNCHANGED <<publishers, bonds, active, index>>
  BY DEF RequestFuture, Free, adminVars
<1>2. p \in Accounts
  <2>1. active \in Seq(Accounts) /\ Len(active) \in Nat \ {0} /\ height \in Nat
    BY <1>1, ParameterAssumption DEF BondInv, Places
  <2>2. (height % Len(active)) + 1 \in 1..Len(active)
    <3> HIDE DEF p
    <3> QED
      BY <2>1
  <2> QED
    BY <2>1, <2>2, ElementOfSeq
<1>3. c \in Commitment
  BY <1>2, EffectiveType, ParameterAssumption DEF Commitment
<1> HIDE DEF p
<1>4. /\ locked \in [Accounts -> Int] /\ bonds \in [Accounts -> Int]
      /\ commitments \in Seq(Commitment) /\ n \in Nat /\ Slash \in Nat
  BY ParameterAssumption DEF BondInv, BondsTyped
<1>5. BondsTyped'
  BY <1>1, <1>2, <1>3, <1>4 DEF BondsTyped
<1>6. \A q \in Accounts : Pending(q)' = Pending(q) \cup (IF q = p THEN {n + 1} ELSE {})
  <2>1. /\ DOMAIN commitments' = 1..(n + 1) /\ DOMAIN commitments = 1..n
        /\ commitments'[n + 1] = c
        /\ \A i \in 1..n : commitments'[i] = commitments[i]
    BY <1>1, <1>3, <1>4
  <2>2. c.assigned = p /\ c.resolved = FALSE
    OBVIOUS
  <2> HIDE DEF c, n
  <2>3. \A i \in 1..(n + 1) : i = n + 1 \/ i \in 1..n
    BY <1>4
  <2>4. n + 1 \in 1..(n + 1) /\ \A i \in 1..n : i \in 1..(n + 1)
    BY <1>4
  <2> QED
    BY <2>1, <2>2, <2>3, <2>4 DEF Pending
<1>7. CommitmentsAreLocked'
  <2> SUFFICES ASSUME NEW q \in Accounts
               PROVE  locked'[q] = Slash * Cardinality(Pending(q)') /\ locked'[q] <= bonds'[q]
    BY DEF CommitmentsAreLocked
  <2>1. locked[q] = Slash * Cardinality(Pending(q)) /\ locked[q] <= bonds[q]
    BY DEF BondInv, CommitmentsAreLocked
  <2>2. CASE q # p
    BY <1>1, <1>2, <1>4, <1>6, <2>1, <2>2
  <2>3. CASE q = p
    <3>1. n + 1 \notin Pending(q)
      <4>1. Pending(q) \subseteq 1..n
        BY <1>4 DEF Pending
      <4> HIDE DEF n
      <4> QED
        BY <1>4, <4>1
    <3>2. Cardinality(Pending(q)') = Cardinality(Pending(q)) + 1
      <4>1. IsFiniteSet(Pending(q))
        BY PendingFinite DEF BondInv
      <4> QED
        BY <1>6, <2>3, <3>1, <4>1, FS_AddElement
    <3>3. Cardinality(Pending(q)) \in Nat
      BY PendingFinite DEF BondInv
    <3>4. locked'[q] = locked[q] + Slash
      BY <1>1, <1>4, <2>3
    <3>5. locked'[q] = Slash * Cardinality(Pending(q)')
      BY <2>1, <3>2, <3>3, <3>4, SlashTimes
    <3>6. locked'[q] <= bonds'[q]
      BY <1>1, <1>2, <1>4, <2>3, <3>4
    <3> QED
      BY <3>5, <3>6
  <2> QED
    BY <2>2, <2>3
<1> QED
  BY <1>1, <1>5, <1>7 DEF BondInv, Places, RotationIsBonded

\* resolveFutureCommitment: one lock goes, with its amount of the bond when
\* the commitment was not met.
LEMMA ResolveKeeps ==
  ASSUME BondInv, NEW i \in DOMAIN commitments, Resolve(i) PROVE BondInv'
<1> DEFINE c == commitments[i]
           p == c.assigned
<1>1. c \in Commitment /\ p \in Accounts /\ ~c.resolved
  <2>1. commitments \in Seq(Commitment)
    BY DEF BondInv, BondsTyped
  <2>2. c \in Commitment
    BY <2>1, LenProperties, ElementOfSeq
  <2> QED
    BY <2>2 DEF Commitment, Resolve
<1>2. /\ locked \in [Accounts -> Int] /\ bonds \in [Accounts -> Int]
      /\ commitments \in Seq(Commitment) /\ Slash \in Nat
  BY ParameterAssumption DEF BondInv, BondsTyped
<1>3. i \in Pending(p) /\ IsFiniteSet(Pending(p)) /\ Cardinality(Pending(p)) \in Nat
  BY <1>1, PendingFinite DEF BondInv, Pending
<1>4. Cardinality(Pending(p) \ {i}) = Cardinality(Pending(p)) - 1
      /\ Cardinality(Pending(p) \ {i}) \in Nat
  BY <1>3, FS_RemoveElement, FS_CardinalityType
<1>5. /\ locked[p] = Slash * Cardinality(Pending(p) \ {i}) + Slash
      /\ locked[p] >= Slash /\ locked[p] <= bonds[p]
  <2>1. locked[p] = Slash * Cardinality(Pending(p)) /\ locked[p] <= bonds[p]
    BY <1>1 DEF BondInv, CommitmentsAreLocked
  <2> DEFINE rest == Cardinality(Pending(p) \ {i})
  <2>2. Cardinality(Pending(p)) = rest + 1 /\ rest \in Nat
    BY <1>3, <1>4
  <2> HIDE DEF rest
  <2>3. Slash * (rest + 1) = Slash * rest + Slash /\ Slash * rest \in Nat
    BY <2>2, SlashTimes
  <2> QED
    BY <1>2, <2>1, <2>2, <2>3 DEF rest
<1>6. Min({locked[p], Slash}) = Slash
  <2>1. locked[p] \in Int /\ Slash \in Int
    BY <1>1, <1>2
  <2> QED
    BY <1>5, <2>1 DEF Min
<1>7. /\ commitments' = [commitments EXCEPT ![i].resolved = TRUE]
      /\ locked' = [locked EXCEPT ![p] = @ - Slash]
      /\ UNCHANGED publishers
      /\ \/ UNCHANGED <<bonds, active, index>>
         \/ /\ bonds' = [bonds EXCEPT ![p] = bonds[p] - Slash]
            /\ Rotate(RotationWith(p, bonds[p] - Slash))
  BY <1>6 DEF Resolve, adminVars
<1>8. /\ commitments' \in Seq(Commitment) /\ DOMAIN commitments' = DOMAIN commitments
      /\ \A j \in DOMAIN commitments :
           /\ commitments'[j].assigned = commitments[j].assigned
           /\ commitments'[j].resolved = IF j = i THEN TRUE ELSE commitments[j].resolved
  <2>1. commitments' = [commitments EXCEPT ![i] = [c EXCEPT !.resolved = TRUE]]
    BY <1>7
  <2>2. [c EXCEPT !.resolved = TRUE] \in Commitment
    BY <1>1 DEF Commitment
  <2>3. \A j \in DOMAIN commitments : commitments[j] \in Commitment
    BY <1>2
  <2> QED
    BY <1>2, <2>1, <2>2, <2>3, SMTT(40) DEF Commitment
<1>9. \A q \in Accounts : Pending(q)' = IF q = p THEN Pending(q) \ {i} ELSE Pending(q)
  BY <1>8 DEF Pending
<1>10. /\ \A q \in Accounts : locked'[q] = IF q = p THEN locked[q] - Slash ELSE locked[q]
       /\ \A q \in Accounts : bonds'[q] >= IF q = p THEN bonds[q] - Slash ELSE bonds[q]
       /\ BondsTyped'
  <2> HIDE DEF p
  <2> QED
    BY <1>1, <1>2, <1>7, <1>8 DEF BondsTyped
<1>11. CommitmentsAreLocked'
  <2> SUFFICES ASSUME NEW q \in Accounts
               PROVE  locked'[q] = Slash * Cardinality(Pending(q)') /\ locked'[q] <= bonds'[q]
    BY DEF CommitmentsAreLocked
  <2>1. bonds'[q] \in Int /\ bonds[q] \in Int /\ locked[q] \in Int
    BY <1>2, <1>10 DEF BondsTyped
  <2>2. CASE q = p
    <3>1. locked'[q] = locked[q] - Slash /\ Pending(q)' = Pending(q) \ {i}
          /\ bonds'[q] >= bonds[q] - Slash
      BY <1>9, <1>10, <2>2
    <3>2. Slash * Cardinality(Pending(q) \ {i}) \in Nat
      BY <1>4, <2>2, SlashTimes
    <3> QED
      BY <1>2, <1>5, <2>1, <2>2, <3>1, <3>2
  <2>3. CASE q # p
    BY <1>9, <1>10, <2>1, <2>3 DEF BondInv, CommitmentsAreLocked
  <2> QED
    BY <2>2, <2>3
<1>12. Places(active, index)' /\ RotationIsBonded'
  <2>1. CASE UNCHANGED <<bonds, active, index>>
    BY <1>7, <2>1 DEF BondInv, Places, RotationIsBonded
  <2>2. CASE /\ bonds' = [bonds EXCEPT ![p] = bonds[p] - Slash]
             /\ Rotate(RotationWith(p, bonds[p] - Slash))
    <3>1. bonds[p] - Slash \in Int
      BY <1>1, <1>2
    <3> HIDE DEF p
    <3> QED
      BY <1>1, <1>7, <2>2, <3>1, RotationKeeps
  <2> QED
    BY <1>7, <2>1, <2>2
<1> QED
  BY <1>10, <1>11, <1>12 DEF BondInv

\* setPublisher: who is dismissed leaves the rotation, with the bond in place.
LEMMA SetPublisherKeeps ==
  ASSUME BondInv, NEW p \in Accounts, NEW authorized \in BOOLEAN, SetPublisher(p, authorized)
  PROVE  BondInv'
<1>1. UNCHANGED <<bonds, locked, commitments>>
  BY DEF SetPublisher
<1>2. BondsTyped' /\ CommitmentsAreLocked'
  BY <1>1 DEF BondInv, BondsTyped, CommitmentsAreLocked, Pending
<1>3. CASE authorized
  <2>1. publishers' = publishers \cup {p} /\ UNCHANGED <<active, index>>
    BY <1>3 DEF SetPublisher
  <2> QED
    BY <1>1, <1>2, <2>1 DEF BondInv, Places, RotationIsBonded
<1>4. CASE ~authorized
  <2>1. publishers' = publishers \ {p} /\ active' = Removed(p).active /\ index' = Removed(p).index
    BY <1>4 DEF SetPublisher, Rotate
  <2>2. Places(active', index') /\ \A i \in DOMAIN active' : active'[i] \in ToSet(active) /\ active'[i] # p
    BY <2>1, RemovedPlaces DEF BondInv
  <2>3. RotationIsBonded'
    BY <1>1, <2>1, <2>2 DEF BondInv, RotationIsBonded, ToSet
  <2> QED
    BY <1>2, <2>2, <2>3 DEF BondInv, Places
<1> QED
  BY <1>3, <1>4

LEMMA BondStep == BondInv /\ [Next]_vars => BondInv'
<1> SUFFICES ASSUME BondInv, [Next]_vars PROVE BondInv'
  OBVIOUS
<1>1. CASE \E p \in Accounts, amount \in 1..MaxBond : DepositBond(p, amount) \/ WithdrawBond(p, amount)
  BY <1>1, DepositKeeps, WithdrawKeeps
<1>2. CASE \E purpose \in Asked, height \in Targets, deadline \in Deadlines :
             RequestFuture(purpose, height, deadline)
  BY <1>2, FutureKeeps
<1>3. CASE \E i \in DOMAIN commitments : Resolve(i)
  BY <1>3, ResolveKeeps
<1>4. CASE \E p \in Accounts, authorized \in BOOLEAN : SetPublisher(p, authorized)
  BY <1>4, SetPublisherKeeps
<1>5. CASE UNCHANGED <<publishers, bonds, locked, active, index, commitments>>
  <2>1. \A p \in Accounts : Pending(p)' = Pending(p)
    BY <1>5 DEF Pending
  <2>2. BondsTyped' /\ Places(active, index)'
    BY <1>5 DEF BondInv, BondsTyped, Places
  <2>3. RotationIsBonded'
    BY <1>5 DEF BondInv, RotationIsBonded
  <2>4. CommitmentsAreLocked'
    BY <1>5, <2>1 DEF BondInv, CommitmentsAreLocked
  <2> QED
    BY <2>2, <2>3, <2>4 DEF BondInv
<1>6. CASE \/ \E p \in Accounts, o \in Outputs, purposes \in PurposeLists : Submit(p, o, purposes)
           \/ \E purpose \in Asked, height \in MinHeights : RequestUtility(purpose, height)
           \/ \E i \in DOMAIN requests : FulfillUtility(i)
           \/ \E required \in BOOLEAN : SetRequireFalcon(required)
           \/ \E k \in Quorums : SetQuorum(k)
           \/ Tick
           \/ UNCHANGED vars
  BY <1>5, <1>6, ZenonT(60)
  DEF Submit, RequestUtility, FulfillUtility, SetRequireFalcon, SetQuorum, Tick, vars,
      adminVars, bondVars
<1> QED
  BY <1>1, <1>2, <1>3, <1>4, <1>6 DEF Next

LEMMA BondInvAlways == Spec => []BondInv
<1>1. Init => BondInv
  BY BondInit
<1>2. BondInv /\ [Next]_vars => BondInv'
  BY BondStep
<1> QED
  BY <1>1, <1>2, PTL DEF Spec

\* Whoever may be assigned a height is a publisher with a full bond
\* (_removeActivePublisher in withdrawBond, resolveFutureCommitment and
\* setPublisher).
THEOREM RotationIsBondedAlways == Spec => []RotationIsBonded
<1>1. BondInv => RotationIsBonded
  BY DEF BondInv
<1> QED
  BY <1>1, BondInvAlways, PTL

\* An unresolved commitment's amount is locked in its publisher's bond, and no
\* withdrawal or slash takes it (withdrawBond, resolveFutureCommitment).
THEOREM CommitmentsAreLockedAlways == Spec => []CommitmentsAreLocked
<1>1. BondInv => CommitmentsAreLocked
  BY DEF BondInv
<1> QED
  BY <1>1, BondInvAlways, PTL
----------------------------------------------------------------------------
(* What the contract holds *)

Holdings ==
  /\ now \in Clock /\ publishers \subseteq Accounts
  /\ requireFalcon \in BOOLEAN /\ quorum \in Quorums \cup {1}
  /\ usedNullifiers \subseteq {o.nullifier : o \in Outputs}
  /\ \A p \in Accounts : bonds[p] <= MaxBond
  /\ balance = SumOf(bonds, Accounts)

Whole == OutputInv /\ BondInv /\ Holdings

\* What one account pays in or gets out is what the contract has more or less.
LEMMA MoneyMoves ==
  ASSUME BondsTyped, balance = SumOf(bonds, Accounts), NEW p \in Accounts, NEW d \in Int,
         bonds' = [bonds EXCEPT ![p] = bonds[p] + d], balance' = balance + d
  PROVE  balance' = SumOf(bonds, Accounts)'
<1>1. bonds \in [Accounts -> Int] /\ bonds[p] \in Int /\ bonds[p] + d \in Int
      /\ IsFiniteSet(Accounts)
  BY AccountsAssumption DEF BondsTyped
<1>2. SumOf(bonds', Accounts) = SumOf(bonds, Accounts) + (bonds[p] + d) - bonds[p]
  <2>1. ASSUME NEW v \in Int
        PROVE  SumOf([bonds EXCEPT ![p] = v], Accounts) = SumOf(bonds, Accounts) + v - bonds[p]
    BY <1>1, SumChanges
  <2> QED
    BY <1>1, <2>1
<1>3. SumOf(bonds, Accounts) \in Int
  BY <1>1, SumIsNumber
<1> QED
  BY <1>1, <1>2, <1>3

\* depositBond, withdrawBond
LEMMA TransfersKeep ==
  ASSUME Whole, NEW p \in Accounts, NEW amount \in 1..MaxBond,
         DepositBond(p, amount) \/ WithdrawBond(p, amount)
  PROVE  Holdings'
<1>1. /\ BondsTyped /\ balance = SumOf(bonds, Accounts) /\ amount \in Nat /\ amount \in Int
      /\ bonds \in [Accounts -> Int] /\ \A q \in Accounts : bonds[q] <= MaxBond
  BY ParameterAssumption DEF Whole, BondInv, BondsTyped, Holdings
<1>2. UNCHANGED <<now, publishers, requireFalcon, quorum, usedNullifiers>>
  BY DEF DepositBond, WithdrawBond, adminVars, purposeVars
<1>3. balance \in Int
  BY <1>1, AccountsAssumption, SumIsNumber
<1>4. CASE DepositBond(p, amount)
  <2>1. /\ bonds' = [bonds EXCEPT ![p] = bonds[p] + amount] /\ balance' = balance + amount
        /\ bonds[p] + amount <= MaxBond
    BY <1>4 DEF DepositBond
  <2>2. balance' = SumOf(bonds, Accounts)'
    BY <1>1, <2>1, MoneyMoves
  <2>3. \A q \in Accounts : bonds'[q] <= MaxBond
    BY <1>1, <2>1
  <2> QED
    BY <1>2, <2>2, <2>3 DEF Whole, Holdings
<1>5. CASE WithdrawBond(p, amount)
  <2>1. bonds' = [bonds EXCEPT ![p] = bonds[p] - amount] /\ balance' = balance - amount
    BY <1>5 DEF WithdrawBond
  <2>2. /\ -amount \in Int /\ bonds[p] - amount = bonds[p] + (-amount)
        /\ balance - amount = balance + (-amount)
    BY <1>1, <1>3
  <2>3. balance' = SumOf(bonds, Accounts)'
    BY <1>1, <2>1, <2>2, MoneyMoves
  <2>4. \A q \in Accounts : bonds'[q] <= MaxBond
    BY <1>1, <2>1, ParameterAssumption
  <2> QED
    BY <1>2, <2>3, <2>4 DEF Whole, Holdings
<1> QED
  BY <1>4, <1>5

\* resolveFutureCommitment: the slash leaves the contract with what it takes
\* from the bond.
LEMMA SlashKeeps ==
  ASSUME Whole, NEW i \in DOMAIN commitments, Resolve(i) PROVE Holdings'
<1> DEFINE p == commitments[i].assigned
           amount == Min({locked[p], Slash})
<1>1. /\ BondsTyped /\ balance = SumOf(bonds, Accounts)
      /\ bonds \in [Accounts -> Int] /\ \A q \in Accounts : bonds[q] <= MaxBond
  BY DEF Whole, BondInv, BondsTyped, Holdings
<1>2. UNCHANGED <<now, publishers, requireFalcon, quorum, usedNullifiers>>
  BY DEF Resolve, adminVars, purposeVars
<1>3. p \in Accounts
  <2>1. commitments \in Seq(Commitment)
    BY DEF Whole, BondInv, BondsTyped
  <2>2. commitments[i] \in Commitment
    BY <2>1, LenProperties, ElementOfSeq
  <2> QED
    BY <2>2 DEF Commitment
<1>4. amount \in Nat
  <2>1. locked[p] = Slash * Cardinality(Pending(p)) /\ Cardinality(Pending(p)) \in Nat
    BY <1>1, <1>3, PendingFinite DEF Whole, BondInv, CommitmentsAreLocked
  <2>2. locked[p] \in Nat /\ Slash \in Nat
    BY <2>1, SlashTimes, ParameterAssumption
  <2> QED
    BY <2>2, MinOfTwo
<1> HIDE DEF amount
<1>5. CASE UNCHANGED <<bonds, balance>>
  BY <1>2, <1>5 DEF Whole, Holdings
<1>6. CASE bonds' = [bonds EXCEPT ![p] = @ - amount] /\ balance' = balance - amount
  <2>1. balance \in Int
    BY <1>1, AccountsAssumption, SumIsNumber
  <2>2. /\ -amount \in Int /\ bonds[p] - amount = bonds[p] + (-amount)
        /\ balance - amount = balance + (-amount)
    BY <1>1, <1>3, <1>4, <2>1
  <2> HIDE DEF p
  <2>3. balance' = SumOf(bonds, Accounts)'
    BY <1>1, <1>3, <1>6, <2>2, MoneyMoves
  <2>4. \A q \in Accounts : bonds'[q] <= MaxBond
    BY <1>1, <1>3, <1>4, <1>6, ParameterAssumption
  <2> QED
    BY <1>2, <2>3, <2>4 DEF Whole, Holdings
<1> QED
  BY <1>5, <1>6 DEF Resolve, amount

LEMMA HoldingsStep == Whole /\ [Next]_vars => Holdings'
<1> SUFFICES ASSUME Whole, [Next]_vars PROVE Holdings'
  OBVIOUS
<1>1. CASE UNCHANGED <<bonds, balance>>
           /\ now' \in Clock /\ publishers' \subseteq Accounts
           /\ requireFalcon' \in BOOLEAN /\ quorum' \in Quorums \cup {1}
           /\ usedNullifiers' \subseteq {o.nullifier : o \in Outputs}
  BY <1>1 DEF Whole, Holdings
<1>2. CASE \E p \in Accounts, amount \in 1..MaxBond : DepositBond(p, amount) \/ WithdrawBond(p, amount)
  BY <1>2, TransfersKeep
<1>3. CASE \E i \in DOMAIN commitments : Resolve(i)
  BY <1>3, SlashKeeps
<1>4. CASE \E p \in Accounts, o \in Outputs, purposes \in PurposeLists : Submit(p, o, purposes)
  BY <1>1, <1>4 DEF Submit, Finalize, purposeVars, adminVars, bondVars, Whole, Holdings
<1>5. CASE \E p \in Accounts, authorized \in BOOLEAN : SetPublisher(p, authorized)
  BY <1>1, <1>5 DEF SetPublisher, purposeVars, Whole, Holdings
<1>6. CASE \/ \E required \in BOOLEAN : SetRequireFalcon(required)
           \/ \E k \in Quorums : SetQuorum(k)
           \/ Tick
  BY <1>1, <1>6 DEF SetRequireFalcon, SetQuorum, Tick, purposeVars, adminVars, bondVars, Whole, Holdings
<1>7. CASE \/ \E purpose \in Asked, height \in Targets, deadline \in Deadlines :
                RequestFuture(purpose, height, deadline)
           \/ \E purpose \in Asked, height \in MinHeights : RequestUtility(purpose, height)
           \/ \E i \in DOMAIN requests : FulfillUtility(i)
           \/ UNCHANGED vars
  BY <1>1, <1>7
  DEF RequestFuture, RequestUtility, FulfillUtility, vars, purposeVars, adminVars, bondVars,
      Whole, Holdings
<1> QED
  BY <1>2, <1>3, <1>4, <1>5, <1>6, <1>7 DEF Next

LEMMA HoldingsInit == Init => Holdings
<1> SUFFICES ASSUME Init PROVE Holdings
  OBVIOUS
<1>1. now \in Clock
  <2>1. \E t \in Clock : \A u \in Clock : t <= u
    BY ParameterAssumption, LeastOf
  <2> QED
    BY <2>1 DEF Init, Min
<1>2. bonds \in [Accounts -> Int] /\ \A p \in Accounts : bonds[p] = 0
  BY DEF Init
<1>3. balance = SumOf(bonds, Accounts)
  BY <1>2, AccountsAssumption, SumIsNumber DEF Init
<1>4. \A p \in Accounts : bonds[p] <= MaxBond
  BY <1>2, ParameterAssumption
<1>5. publishers \subseteq Accounts
  BY DEF Init
<1> QED
  BY <1>1, <1>3, <1>4, <1>5 DEF Init, Holdings

LEMMA HoldingsAlways == Spec => []Whole
<1>1. Init => Holdings
  BY HoldingsInit
<1>2. Whole /\ [Next]_vars => Holdings'
  BY HoldingsStep
<1> QED
  BY <1>1, <1>2, OutputInvAlways, BondInvAlways, PTL DEF Spec, Whole

\* Commitments are locked in bonds, and the bonds are in the contract: deposits,
\* withdrawals and slashes move the same amount in both (depositBond,
\* withdrawBond, resolveFutureCommitment).
THEOREM BondsAlwaysBack == Spec => []BondsBackCommitments
<1>1. Whole => BondsBackCommitments
  BY DEF Whole, BondInv, Holdings, BondsBackCommitments, SumOf
<1> QED
  BY <1>1, HoldingsAlways, PTL

\* No bond falls below zero or rises above the bound, the contract never owes
\* what it has not, and the indices describe the rotation (_removeActivePublisher).
THEOREM OracleStaysTyped == Spec => []TypeOK
<1> SUFFICES ASSUME Whole PROVE TypeOK
  BY HoldingsAlways, PTL
<1>1. bonds \in [Accounts -> 0..MaxBond] /\ locked \in [Accounts -> Nat]
  <2>1. ASSUME NEW p \in Accounts PROVE locked[p] \in Nat /\ bonds[p] \in 0..MaxBond
    <3>1. Cardinality(Pending(p)) \in Nat
      BY PendingFinite DEF Whole, BondInv
    <3>2. locked[p] = Slash * Cardinality(Pending(p)) /\ locked[p] <= bonds[p]
      BY DEF Whole, BondInv, CommitmentsAreLocked
    <3>3. locked[p] \in Nat
      BY <3>1, <3>2, SlashTimes
    <3>4. bonds[p] <= MaxBond /\ bonds[p] \in Int
      BY DEF Whole, BondInv, BondsTyped, Holdings
    <3> QED
      BY <3>2, <3>3, <3>4, ParameterAssumption
  <2> QED
    BY <2>1 DEF Whole, BondInv, BondsTyped
<1>2. balance \in Nat
  <2>1. bonds \in [Accounts -> Int] /\ bonds \in [Accounts -> Nat]
    BY <1>1
  <2> QED
    BY <2>1, AccountsAssumption, SumIsNumber DEF Whole, Holdings
<1>3. /\ \A i \in DOMAIN active : index[active[i]] = i
      /\ \A p \in Accounts : index[p] # 0 => p \in ToSet(active)
  BY DEF Whole, BondInv, Places, ToSet
<1>4. /\ \A h \in Hashes : attestations[h].by \subseteq Accounts
      /\ \A h \in Hashes : outputs[h] # None => outputs[h].output \in Outputs
      /\ \A p \in Purposes : latest[p] \in [height : Nat, block : {None} \cup Hashes]
  BY DEF Whole, OutputInv, OutputsTyped, Attestation, Final
<1> QED
  BY <1>1, <1>2, <1>3, <1>4 DEF Whole, Holdings, TypeOK

=============================================================================
