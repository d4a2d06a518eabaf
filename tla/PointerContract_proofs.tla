------------------------ MODULE PointerContract_proofs ------------------------
(***************************************************************************)
(* The replicas of the pointer contract keep the safety part of the        *)
(* promise of PointerNetwork, for any set of signed records and any peers. *)
(***************************************************************************)
EXTENDS PointerContract, TLAPS

-------------------------------------------------------------------------------
(* The order of records.                                                      *)

\* Two different records of the author never tie.
LEMMA BeatsTotal ==
  ASSUME NEW r \in Signed, NEW q \in Signed
  PROVE  r = q \/ Beats(r, q) \/ Beats(q, r)
BY RecordsAssumption DEF Record, Beats, EncodedBelow

\* No two records each supersede the other.
LEMMA BeatsAsymmetric ==
  ASSUME NEW r \in Signed, NEW q \in Signed, Beats(r, q)
  PROVE  ~Beats(q, r) /\ r # q
BY RecordsAssumption DEF Record, Beats, EncodedBelow

\* What supersedes the successor of a record supersedes the record.
LEMMA BeatsTransitive ==
  ASSUME NEW r \in Signed, NEW q \in Signed, NEW t \in Signed, Beats(r, q), Beats(q, t)
  PROVE  Beats(r, t)
BY RecordsAssumption DEF Record, Beats, EncodedBelow

\* A merge keeps the current record, or takes one that supersedes it.
LEMMA MergeMovesUp ==
  ASSUME NEW r \in Signed, NEW q \in Signed
  PROVE  Merge(r, q) \in Signed /\ (Merge(r, q) = r \/ Beats(Merge(r, q), r))
BY DEF Merge

\* One payload leaves the best record, or puts a record in its place that
\* supersedes it.
LEMMA AbsorbMovesUp ==
  ASSUME NEW best \in Signed \cup {Empty}, NEW body \in Signed \cup {Empty}
  PROVE  /\ Absorb(best, body) \in Signed \cup {Empty}
         /\ best = Empty => Absorb(best, body) = body
         /\ best \in Signed => /\ Absorb(best, body) \in Signed
                               /\ \/ Absorb(best, body) = best
                                  \/ Beats(Absorb(best, body), best)
BY MergeMovesUp, RecordsAssumption DEF Absorb

\* update_state keeps what is stored, or stores a signed record that supersedes
\* it: a call that is refused changes nothing, and a damaged state is replaced by
\* any record.
LEMMA UpdateMovesUp ==
  ASSUME NEW local \in Body, NEW first \in Body, NEW second \in Body
  PROVE  LET new == UpdateState(local, first, second) IN
         new = local \/ (Usable(new) /\ (Usable(local) => Beats(new, local)))
<1> DEFINE new == UpdateState(local, first, second)
           once == Absorb(Kept(local), first)
<1>1. CASE Garbage \in {first, second} \/ (Kept(local) = Empty /\ first = Empty /\ second = Empty)
  BY <1>1 DEF UpdateState
<1>2. CASE ~(Garbage \in {first, second} \/ (Kept(local) = Empty /\ first = Empty /\ second = Empty))
  <2>1. first \in Signed \cup {Empty} /\ second \in Signed \cup {Empty}
    BY <1>2 DEF Body
  <2>2. Kept(local) \in Signed \cup {Empty}
    BY DEF Kept, Usable
  <2>3. new = Absorb(once, second)
    BY <1>2 DEF UpdateState
  <2>4. once \in Signed \cup {Empty}
    BY <2>1, <2>2, AbsorbMovesUp
  <2>5. CASE Usable(local)
    <3>1. Kept(local) = local /\ local \in Signed
      BY <2>5 DEF Kept, Usable
    <3>2. once \in Signed /\ (once = local \/ Beats(once, local))
      BY <2>1, <2>2, <3>1, AbsorbMovesUp
    <3>3. new \in Signed /\ (new = once \/ Beats(new, once))
      BY <2>1, <2>3, <2>4, <3>2, AbsorbMovesUp
    <3>4. new = local \/ Beats(new, local)
      BY <3>1, <3>2, <3>3, BeatsTransitive
    <3>5. QED  BY <3>3, <3>4 DEF Usable
  <2>6. CASE ~Usable(local)
    <3>1. Kept(local) = Empty /\ (first # Empty \/ second # Empty)
      BY <1>2, <2>6 DEF Kept
    <3>2. once = first
      BY <2>1, <2>2, <3>1, AbsorbMovesUp
    <3>3. CASE first = Empty
      BY <2>1, <2>3, <2>4, <2>6, <3>1, <3>2, <3>3, AbsorbMovesUp DEF Usable
    <3>4. CASE first \in Signed
      BY <2>1, <2>3, <2>4, <2>6, <3>2, <3>4, AbsorbMovesUp DEF Usable
    <3>5. QED  BY <2>1, <3>3, <3>4
  <2>7. QED  BY <2>5, <2>6
<1>3. QED  BY <1>1, <1>2

-------------------------------------------------------------------------------

\* One step of any peer keeps the shape of the states and of the links.
LEMMA TypeStep == TypeOK /\ [Next]_vars => TypeOK'
<1> SUFFICES ASSUME TypeOK, [Next]_vars PROVE TypeOK'
  OBVIOUS
<1> USE DEF TypeOK, Body, Message
<1>1. CASE UNCHANGED vars
  BY <1>1 DEF vars
<1>2. ASSUME NEW p \in Peer, NEW body \in Body, Put(p, body) PROVE TypeOK'
  BY <1>2 DEF Put
<1>3. ASSUME NEW p \in Peer, NEW first \in Body, NEW second \in Body, Update(p, first, second)
      PROVE  TypeOK'
  <2>1. UpdateState(state[p], first, second) \in Body
    BY UpdateMovesUp DEF Usable
  <2>2. QED  BY <1>3, <2>1 DEF Update
<1>4. ASSUME NEW p \in Peer, Lose(p) PROVE TypeOK'
  BY <1>4 DEF Lose
<1>5. ASSUME NEW pq \in Link, Heartbeat(pq[1], pq[2]) PROVE TypeOK'
  <2>1. pq = <<pq[1], pq[2]>> /\ pq[1] \in Peer
    BY DEF Link
  <2>2. SummarizeState(state[pq[1]]) \in Signed \cup {Empty}
    BY DEF SummarizeState, Kept, Usable
  <2>3. link' = [link EXCEPT ![pq] = Summary(SummarizeState(state[pq[1]]))] /\ UNCHANGED state
    BY <1>5, <2>1 DEF Heartbeat
  <2>4. QED  BY <2>2, <2>3 DEF Summary
<1>6. ASSUME NEW pq \in Link, NEW again \in BOOLEAN PROVE
        LET after == Consume(pq[1], pq[2], again) IN
        after \in [Link -> Message] /\ \A l \in Link : after[l].kind = "delta" => Usable(after[l].body)
  <2>1. pq = <<pq[1], pq[2]>>
    BY DEF Link
  <2>2. QED  BY <2>1 DEF Consume, NoMessage
<1>7. ASSUME NEW pq \in Link, NEW again \in BOOLEAN, OnSummary(pq[1], pq[2], again)
      PROVE  TypeOK'
  <2> DEFINE p == pq[1]
             q == pq[2]
             theirs == link[<<p, q>>].body
             delta == IF theirs = SummarizeState(state[q]) THEN Empty
                      ELSE GetStateDelta(state[q], theirs)
             after == Consume(p, q, again)
  <2>1. p \in Peer /\ q \in Peer /\ <<q, p>> \in Link
    BY DEF Link
  <2>2. delta = Empty \/ delta \in Signed
    BY DEF GetStateDelta, Usable
  <2>3. UNCHANGED state
    BY <1>7 DEF OnSummary
  <2>4. CASE delta = Empty
    BY <1>6, <1>7, <2>3, <2>4 DEF OnSummary
  <2>5. CASE delta # Empty
    <3>1. link' = [after EXCEPT ![<<q, p>>] = Delta(delta)]
      BY <1>7, <2>5 DEF OnSummary
    <3>2. delta \in Signed
      BY <2>2, <2>5
    <3> HIDE DEF delta, after
    <3>3. after \in [Link -> Message] /\ \A l \in Link : after[l].kind = "delta" => Usable(after[l].body)
      BY <1>6 DEF after
    <3>4. link' \in [Link -> Message] /\ \A l \in Link : link'[l].kind = "delta" => Usable(link'[l].body)
      BY <2>1, <3>1, <3>2, <3>3 DEF Delta, Usable
    <3>5. QED  BY <2>3, <3>4 DEF Usable
  <2>6. QED  BY <2>4, <2>5
<1>8. ASSUME NEW pq \in Link, NEW again \in BOOLEAN, OnDelta(pq[1], pq[2], again)
      PROVE  TypeOK'
  <2>1. pq[2] \in Peer /\ link[<<pq[1], pq[2]>>].body \in Body
    BY DEF Link
  <2>2. UpdateState(state[pq[2]], link[<<pq[1], pq[2]>>].body, Empty) \in Body
    BY <2>1, UpdateMovesUp DEF Usable
  <2>3. state' \in [Peer -> Body]
    BY <1>8, <2>1, <2>2 DEF OnDelta
  <2>4. link' = Consume(pq[1], pq[2], again)
    BY <1>8 DEF OnDelta
  <2>5. QED  BY <1>6, <2>3, <2>4 DEF Usable
<1>9. ASSUME NEW pq \in Link, Drop(pq[1], pq[2]) PROVE TypeOK'
  <2>1. pq = <<pq[1], pq[2]>>
    BY DEF Link
  <2>2. QED  BY <1>9, <2>1 DEF Drop, NoMessage
<1>10. QED
  BY <1>1, <1>2, <1>3, <1>4, <1>5, <1>7, <1>8, <1>9 DEF Next

\* What a peer stores is a body, and what a link carries verifies or is empty.
THEOREM TypeCorrect == Spec => []TypeOK
<1>1. Init => TypeOK
  BY DEF Init, TypeOK, Body, Message, NoMessage
<1>2. QED  BY <1>1, TypeStep, PTL DEF Spec

\* Of two peers with different usable records exactly one owes the other a delta:
\* get_state_delta decides by a total order.
THEOREM OneOwesHolds == Spec => []OneOwes
<1>1. ASSUME TypeOK, NEW pq \in Link, Usable(state[pq[1]]), Usable(state[pq[2]]),
             state[pq[1]] # state[pq[2]]
      PROVE  /\ SummarizeState(state[pq[1]]) # SummarizeState(state[pq[2]])
             /\ (GetStateDelta(state[pq[1]], SummarizeState(state[pq[2]])) = Empty)
                  # (GetStateDelta(state[pq[2]], SummarizeState(state[pq[1]])) = Empty)
  <2> DEFINE r == state[pq[1]]
             q == state[pq[2]]
  <2>1. r \in Signed /\ q \in Signed /\ r # q
    BY <1>1 DEF Usable
  <2>2. SummarizeState(r) = r /\ SummarizeState(q) = q
    BY <1>1 DEF SummarizeState, Kept
  <2>3. (GetStateDelta(r, q) = Empty) <=> ~Beats(r, q)
    BY <2>1, BeatsAsymmetric, RecordsAssumption DEF GetStateDelta, Merge, Usable
  <2>4. (GetStateDelta(q, r) = Empty) <=> ~Beats(q, r)
    BY <2>1, BeatsAsymmetric, RecordsAssumption DEF GetStateDelta, Merge, Usable
  <2>5. Beats(r, q) <=> ~Beats(q, r)
    BY <2>1, BeatsTotal, BeatsAsymmetric
  <2>6. QED  BY <2>1, <2>2, <2>3, <2>4, <2>5
<1>2. TypeOK => OneOwes
  BY <1>1 DEF OneOwes
<1>3. QED  BY <1>2, TypeCorrect, PTL

\* A peer that stores something else than before was delivered a record.
LEMMA UpdateIsDelivery ==
  ASSUME TypeOK, NEW p \in Peer, NEW first \in Body, NEW second \in Body,
         state' = [state EXCEPT ![p] = UpdateState(state[p], first, second)]
  PROVE  [Network!Next]_state
<1> DEFINE new == UpdateState(state[p], first, second)
<1>1. state[p] \in Body /\ state \in [Peer -> Body]
  BY DEF TypeOK
<1>2. CASE new = state[p]
  BY <1>1, <1>2
<1>3. CASE Usable(new) /\ (Usable(state[p]) => Beats(new, state[p]))
  <2>1. new = IF Usable(state[p]) THEN Merge(state[p], new) ELSE new
    BY <1>3 DEF Merge
  <2>2. new \in Signed
    BY <1>3 DEF Usable
  <2> HIDE DEF new
  <2>3. Network!Deliver(p, new)
    BY <1>1, <2>1, <2>2 DEF new, Network!Deliver, Network!Usable, Network!Merge, Network!Beats,
       Network!EncodedBelow, Usable, Merge, Beats, EncodedBelow
  <2>4. QED  BY <2>2, <2>3 DEF Network!Next
<1>4. QED  BY <1>1, <1>2, <1>3, UpdateMovesUp

\* The contract's replicas do nothing the abstract network does not do.
THEOREM ContractImplementsNetwork == Spec => Network!Spec
<1>1. Init => Network!Init
  BY DEF Init, Network!Init
<1>2. TypeOK /\ [Next]_vars => [Network!Next]_state
  <2> SUFFICES ASSUME TypeOK, [Next]_vars PROVE [Network!Next]_state
    OBVIOUS
  <2>1. CASE UNCHANGED vars
    BY <2>1 DEF vars
  <2>2. ASSUME NEW p \in Peer, NEW body \in Body, Put(p, body) PROVE [Network!Next]_state
    <3>1. body \in Signed /\ ~Usable(state[p])
      BY <2>2, RecordsAssumption DEF Put, ValidateState, Usable
    <3>2. Network!Deliver(p, body)
      BY <2>2, <3>1 DEF TypeOK, Put, Network!Deliver, Network!Usable, Usable
    <3>3. QED  BY <3>1, <3>2 DEF Network!Next
  <2>3. ASSUME NEW p \in Peer, NEW first \in Body, NEW second \in Body, Update(p, first, second)
        PROVE  [Network!Next]_state
    BY <2>3, UpdateIsDelivery DEF Update
  <2>4. ASSUME NEW p \in Peer, Lose(p) PROVE [Network!Next]_state
    BY <2>4 DEF Lose, Network!Lose, Network!Next
  <2>5. ASSUME NEW pq \in Link, NEW again \in BOOLEAN, OnDelta(pq[1], pq[2], again)
        PROVE  [Network!Next]_state
    <3>1. pq \in Link /\ pq = <<pq[1], pq[2]>> /\ pq[2] \in Peer
      BY DEF Link
    <3>2. link[<<pq[1], pq[2]>>].body \in Body /\ Empty \in Body
      BY <3>1 DEF TypeOK, Message, Body
    <3>3. QED  BY <2>5, <3>1, <3>2, UpdateIsDelivery DEF OnDelta
  <2>6. ASSUME NEW pq \in Link, NEW again \in BOOLEAN,
               \/ Heartbeat(pq[1], pq[2]) \/ OnSummary(pq[1], pq[2], again) \/ Drop(pq[1], pq[2])
        PROVE  UNCHANGED state
    BY <2>6 DEF Heartbeat, OnSummary, Drop
  <2>7. QED
    BY <2>1, <2>2, <2>3, <2>4, <2>5, <2>6 DEF Next
<1>3. QED  BY <1>1, <1>2, TypeCorrect, PTL DEF Spec, Network!Spec
===============================================================================
