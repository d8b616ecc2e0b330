------------------------ MODULE Reconciliation_proofs ------------------------
(***************************************************************************)
(* What Reconciliation satisfies for any threads, observers, permits and   *)
(* heads, whatever fails; and verify_quorum for any attestations.          *)
(*                                                                         *)
(* Inductive invariants:                                                   *)
(*    TypeInv   types, each request's locals, and who has the ledger lock  *)
(*    TrailInv  rows are copies of events in the file, which describe      *)
(*              objects that are stored                                    *)
(*    OnceInv   an object has one event, on its way or written             *)
(*    TruthInv  what an observer that is not faulty saw merged is merged   *)
(*    OrderInv  an event comes after those of the objects that were        *)
(*              acknowledged when its own was stored, in time and number   *)
(*    ChainInv  the file is a chain, the event about to be written is its  *)
(*              next link (one server)                                     *)
(*    LossInv   an event waiting for its row is nobody else's (one server) *)
(***************************************************************************)
EXTENDS Reconciliation, FiniteSetTheorems, TLAPS

-----------------------------------------------------------------------------
(* The ledger file *)

\* Events are nested in one another, and so are of no type that could be named.
\* No line is empty, and a file whose last line has no end has a line.
FileOK ==
    /\ \E S : lines \in Seq(Seq(S) \ {<<>>})
    /\ ended \in BOOLEAN /\ (ended \/ lines # <<>>)

\* Whatever is put in the file leaves what was there, and the file can be read
\* afterwards only if it could be before and a whole record began a line.
LEMMA PutEffects ==
    ASSUME FileOK, NEW chunk, NEW newline \in BOOLEAN, Put(chunk, newline)
    PROVE  /\ FileOK'
           /\ Written' = Written \union ({chunk} \ {Torn})
           /\ Len(lines') \in Nat /\ Len(lines) \in Nat
           /\ Len(lines) <= Len(lines')
           /\ Readable(lines)' => /\ ended /\ Readable(lines) /\ chunk # Torn
                                  /\ lines' = Append(lines, <<chunk>>)
                                  /\ Len(lines') = Len(lines) + 1
           /\ ended /\ Readable(lines) /\ chunk # Torn => Readable(lines)'
<1>1. PICK S : lines \in Seq(Seq(S) \ {<<>>})
  BY DEF FileOK
<1> DEFINE T == S \union {chunk}
           line == lines[Len(lines)]
<1>2. /\ Len(lines) \in Nat /\ DOMAIN lines = 1..Len(lines)
      /\ \A i \in 1..Len(lines) : lines[i] \in Seq(T) /\ lines[i] # <<>>
  <2>1. Seq(S) \subseteq Seq(T)
    OBVIOUS
  <2> QED BY <1>1, <2>1
<1>3. CASE ended
  <2>1. lines' = Append(lines, <<chunk>>) /\ ended' = newline
    BY <1>3 DEF Put
  <2>2. /\ Len(lines') = Len(lines) + 1 /\ DOMAIN lines' = 1..(Len(lines) + 1)
        /\ lines'[Len(lines) + 1] = <<chunk>>
        /\ \A i \in 1..Len(lines) : lines'[i] = lines[i]
    BY <1>1, <1>2, <2>1
  <2>3. Range(<<chunk>>) = {chunk} /\ <<chunk>> \in Seq(T) \ {<<>>} /\ Len(<<chunk>>) = 1
        /\ <<chunk>>[1] = chunk
    BY DEF Range
  <2>4. lines' \in Seq(Seq(T) \ {<<>>})
    <3>1. lines \in Seq(Seq(T) \ {<<>>})
      BY <1>1, <1>2
    <3> QED BY <2>1, <2>3, <3>1
  <2>5. FileOK'
    <3>1. lines' # <<>>
      BY <1>2, <2>2
    <3> QED BY <2>1, <2>4, <3>1 DEF FileOK
  <2>6. Written' = Written \union ({chunk} \ {Torn})
    <3>1. 1..(Len(lines) + 1) = 1..Len(lines) \union {Len(lines) + 1}
      BY <1>2
    <3> DEFINE Old == UNION {Range(lines[i]) : i \in DOMAIN lines}
               New == UNION {Range(lines'[i]) : i \in DOMAIN lines'}
    <3>2. ASSUME NEW e PROVE e \in New <=> e \in Old \/ e = chunk
      <4>1. e \in New <=> \E i \in 1..(Len(lines) + 1) : e \in Range(lines'[i])
        BY <2>2
      <4>2. e \in Old <=> \E i \in 1..Len(lines) : e \in Range(lines[i])
        BY <1>2
      <4>3. e \in Range(lines'[Len(lines) + 1]) <=> e = chunk
        BY <2>2, <2>3
      <4>4. \A i \in 1..Len(lines) : Range(lines'[i]) = Range(lines[i])
        BY <2>2
      <4> QED BY <3>1, <4>1, <4>2, <4>3, <4>4
    <3>3. New = Old \union {chunk}
      BY <3>2
    <3> QED BY <3>3 DEF Written
  <2>7. Readable(lines)' <=> Readable(lines) /\ chunk # Torn
    BY <1>2, <2>2, <2>3 DEF Readable
  <2> QED BY <1>2, <1>3, <2>1, <2>2, <2>5, <2>6, <2>7
<1>4. CASE ~ended
  <2>0. Len(lines) \in 1..Len(lines)
    BY <1>1, <1>2, <1>4 DEF FileOK
  <2>1. lines' = [lines EXCEPT ![Len(lines)] = Append(line, chunk)] /\ ended' = newline
    BY <1>4 DEF Put
  <2>2. /\ line \in Seq(T) /\ line # <<>>
        /\ Append(line, chunk) \in Seq(T) /\ Append(line, chunk) # <<>>
        /\ Len(Append(line, chunk)) = Len(line) + 1 /\ Len(line) \in Nat /\ Len(line) > 0
    <3>1. line \in Seq(T) /\ line # <<>>
      BY <1>2, <2>0
    <3> QED BY <3>1
  <2>3. /\ DOMAIN lines' = 1..Len(lines) /\ lines'[Len(lines)] = Append(line, chunk)
        /\ \A i \in 1..Len(lines) : i # Len(lines) => lines'[i] = lines[i]
    BY <1>2, <2>0, <2>1
  <2>4. lines' \in Seq(Seq(T) \ {<<>>}) /\ Len(lines') = Len(lines)
    <3>1. lines' \in [1..Len(lines) -> Seq(T) \ {<<>>}]
      BY <1>2, <2>1, <2>2
    <3> QED BY <1>2, <3>1
  <2>5. FileOK'
    <3>1. lines' # <<>>
      BY <2>0, <2>4
    <3> QED BY <2>1, <2>4, <3>1 DEF FileOK
  <2>6. Range(Append(line, chunk)) = Range(line) \union {chunk}
    <3>1. /\ DOMAIN Append(line, chunk) = 1..(Len(line) + 1) /\ DOMAIN line = 1..Len(line)
          /\ Append(line, chunk)[Len(line) + 1] = chunk
          /\ \A k \in 1..Len(line) : Append(line, chunk)[k] = line[k]
      BY <2>2
    <3>2. 1..(Len(line) + 1) = 1..Len(line) \union {Len(line) + 1}
      BY <2>2
    <3> QED BY <3>1, <3>2 DEF Range
  <2>7. Written' = Written \union ({chunk} \ {Torn})
    <3> DEFINE Old == UNION {Range(lines[i]) : i \in DOMAIN lines}
               New == UNION {Range(lines'[i]) : i \in DOMAIN lines'}
    <3>1. ASSUME NEW e PROVE e \in New <=> e \in Old \/ e = chunk
      <4>1. e \in New <=> \E i \in 1..Len(lines) : e \in Range(lines'[i])
        BY <2>3
      <4>2. e \in Old <=> \E i \in 1..Len(lines) : e \in Range(lines[i])
        BY <1>2
      <4>3. e \in Range(lines'[Len(lines)]) <=> e \in Range(line) \/ e = chunk
        BY <2>3, <2>6
      <4>4. \A i \in 1..Len(lines) : i # Len(lines) => Range(lines'[i]) = Range(lines[i])
        BY <2>3
      <4> QED BY <2>0, <4>1, <4>2, <4>3, <4>4
    <3>2. New = Old \union {chunk}
      BY <3>1
    <3> QED BY <3>2 DEF Written
  <2>8. ~Readable(lines)'
    <3>1. Len(lines'[Len(lines)]) # 1
      BY <2>2, <2>3
    <3> QED BY <2>0, <2>3, <3>1 DEF Readable
  <2>9. Len(lines') \in Nat /\ Len(lines) \in Nat /\ Len(lines) <= Len(lines')
    BY <1>2, <2>4
  <2> QED BY <1>4, <2>5, <2>7, <2>8, <2>9
<1> QED BY <1>3, <1>4 DEF FileOK

\* A write that fails leaves what was there and adds the event or nothing.
LEMMA WriteFailsEffects ==
    ASSUME FileOK, NEW event, WriteFails(event)
    PROVE  /\ FileOK'
           /\ Written \subseteq Written' /\ Written' \subseteq Written \union {event}
           /\ Len(lines') \in Nat /\ Len(lines) \in Nat
           /\ Len(lines) <= Len(lines')
           /\ Readable(lines)' =>
                 \/ UNCHANGED lines
                 \/ /\ Readable(lines) /\ lines' = Append(lines, <<event>>)
                    /\ Len(lines') = Len(lines) + 1
<1>1. Len(lines) \in Nat
  BY DEF FileOK
<1>2. CASE UNCHANGED <<lines, ended>>
  BY <1>1, <1>2 DEF FileOK, Written
<1>3. CASE Put(Torn, FALSE)
  BY <1>3, PutEffects
<1>4. CASE Put(event, FALSE) \/ Put(event, TRUE)
  BY <1>4, PutEffects
<1> QED BY <1>2, <1>3, <1>4 DEF WriteFails

\* The records of a file that can be read are all that was written.
LEMMA ReadableWritten ==
    ASSUME FileOK, Readable(lines)
    PROVE  /\ Written = {lines[i][1] : i \in DOMAIN lines}
           /\ Len(lines) \in Nat /\ DOMAIN lines = 1..Len(lines)
           /\ Records(lines) \in Seq(Written) /\ Len(Records(lines)) = Len(lines)
           /\ \A i \in DOMAIN lines : Records(lines)[i] = lines[i][1]
<1>1. PICK S : lines \in Seq(Seq(S) \ {<<>>})
  BY DEF FileOK
<1>2. Len(lines) \in Nat /\ DOMAIN lines = 1..Len(lines) /\ \A i \in DOMAIN lines : lines[i] \in Seq(S)
  BY <1>1
<1>3. ASSUME NEW i \in DOMAIN lines PROVE Range(lines[i]) = {lines[i][1]} /\ lines[i][1] # Torn
  <2>1. Len(lines[i]) = 1 /\ lines[i][1] # Torn /\ DOMAIN lines[i] = 1..1
    BY <1>2 DEF Readable
  <2>2. 1..1 = {1}
    OBVIOUS
  <2> QED BY <2>1, <2>2 DEF Range
<1>4. Written = {lines[i][1] : i \in DOMAIN lines}
  BY <1>3 DEF Written
<1>5. Records(lines) = [i \in 1..Len(lines) |-> lines[i][1]]
  BY <1>2 DEF Records
<1>6. Records(lines) \in [1..Len(lines) -> Written]
  BY <1>2, <1>4, <1>5
<1>7. Records(lines) \in Seq(Written) /\ Len(Records(lines)) = Len(lines)
  BY <1>2, <1>6
<1> QED BY <1>2, <1>4, <1>5, <1>7

-----------------------------------------------------------------------------
(* Types *)

Attested == [signer : Signers, statement : Statements \union AllStatements, valid : BOOLEAN]
Objects == [type : {"permit", "execution", "reconciliation"}, permit : PermitIds,
            state : States, receipt : Receipts, after : SUBSET Nat]
Requests(S) == [kind : Kinds \union {None}, permit : PermitIds \union {None},
                receipt : Receipts, attestations : Seq(Attested), met : BOOLEAN,
                draft : Drafts \union {None}, event : S]
AllSteps == {"idle"} \union Steps
Drafted == {"lock", "write", "insert", "advance"}
Numbered == {"write", "insert", "advance"}

StoreOK ==
    /\ FileOK
    /\ objects \in Seq(Objects) /\ acknowledged \union moved \subseteq DOMAIN objects
    /\ ledgerLock \in [Processes -> Threads \union {None}]
    /\ clock \in 0..MaxClock /\ faults \in 0..MaxFaults /\ requests \in 0..MaxRequests
ThreadOK ==
    /\ pc \in [Threads -> AllSteps]
    /\ \E S : None \in S /\ req \in [Threads -> Requests(S)]

\* What a draft says of an object is so; a denied request's says nothing.
Describes(draft) ==
    /\ draft.object = None => draft.permit = None /\ draft.state = None
    /\ draft.object # None =>
          /\ draft.object \in DOMAIN objects
          /\ draft.permit = objects[draft.object].permit
          /\ draft.state = objects[draft.object].state

\* What a request has in its locals at each of its steps; it is between the two
\* steps of the ledger file exactly while it has the lock.
LocalOK(t) ==
    /\ pc[t] = "idle" => req[t] = Idle
    /\ pc[t] # "idle" => /\ req[t].kind \in Kinds
                         /\ req[t].permit = None <=> req[t].kind = "denied"
    /\ pc[t] = "store" => req[t].kind \in {"mint", "execute"}
    /\ pc[t] \in {"observe", "conclude"} => req[t].kind = "reconcile"
    /\ pc[t] = "observe" => Len(req[t].attestations) < Len(Sources)
    /\ req[t].draft # None <=> pc[t] \in Drafted
    /\ pc[t] \in Drafted =>
          /\ req[t].draft.object = None <=> req[t].kind = "denied"
          /\ Describes(req[t].draft) /\ req[t].draft.permit = req[t].permit
    /\ pc[t] \in Numbered =>
          /\ req[t].event = Hashed("entry", req[t].event.sequence, req[t].draft,
                                   req[t].event.previous)
          /\ req[t].event.sequence \in Nat \ {0}
    /\ req[t].met => req[t].kind = "reconcile"
    /\ pc[t] = "advance" => req[t].met
    /\ ledgerLock[Host[t]] = t <=> pc[t] = "write"

TypeInv == PullTypeOK /\ StoreOK /\ ThreadOK /\ \A t \in Threads : LocalOK(t)

\* None is nothing else.
LEMMA NoneApart ==
    None \notin Nat /\ None \notin PermitIds /\ None \notin States /\ None \notin Kinds
    /\ None \notin Drafts /\ None \notin Threads
  BY RecordsAssumption, AuditAssumption

\* How a step moves its thread; the others stay where they are.
Fixed(t) == \A u \in Threads \ {t} : pc'[u] = pc[u] /\ req'[u] = req[u]
At(t, from, to) == pc[t] = from /\ pc'[t] = to /\ Fixed(t)
Leaves(t) == pc'[t] = "idle" /\ req'[t] = Idle /\ Fixed(t)
Same(t) == /\ req'[t].kind = req[t].kind /\ req'[t].permit = req[t].permit
           /\ req'[t].receipt = req[t].receipt
Asked(kind, p, receipt, draft) ==
    [kind |-> kind, permit |-> p, receipt |-> receipt, attestations |-> <<>>, met |-> FALSE,
     draft |-> draft, event |-> None]

LEMMA LocalTypes ==
    ASSUME ThreadOK
    PROVE  /\ pc \in [Threads -> AllSteps]
           /\ \A t \in Threads :
                 /\ req[t].kind \in Kinds \union {None} /\ req[t].permit \in PermitIds \union {None}
                 /\ req[t].receipt \in Receipts /\ req[t].attestations \in Seq(Attested)
                 /\ req[t].met \in BOOLEAN /\ req[t].draft \in Drafts \union {None}
<1>1. PICK S : req \in [Threads -> Requests(S)]
  BY DEF ThreadOK
<1> QED BY <1>1 DEF ThreadOK, Requests

LEMMA EndEffects ==
    ASSUME ThreadOK, NEW t \in Threads, End(t)
    PROVE  ThreadOK' /\ Leaves(t)
<1>1. PICK S : None \in S /\ req \in [Threads -> Requests(S)]
  BY DEF ThreadOK
<1>2. Idle \in Requests(S)
  BY <1>1 DEF Idle, Requests, Receipts
<1>3. req' \in [Threads -> Requests(S)]
  BY <1>1, <1>2 DEF End
<1>4. pc' \in [Threads -> AllSteps] /\ Leaves(t)
  BY <1>1 DEF End, Leaves, Fixed, ThreadOK, AllSteps
<1> QED BY <1>1, <1>3, <1>4 DEF ThreadOK

LEMMA BeginEffects ==
    ASSUME ThreadOK, NEW t \in Threads, NEW kind \in Kinds, NEW p \in PermitIds,
           NEW receipt \in Receipts, NEW first \in Steps, Begin(t, kind, p, receipt, first)
    PROVE  ThreadOK' /\ At(t, "idle", first) /\ req'[t] = Asked(kind, p, receipt, None)
<1>1. PICK S : None \in S /\ req \in [Threads -> Requests(S)]
  BY DEF ThreadOK
<1>2. [Idle EXCEPT !.kind = kind, !.permit = p, !.receipt = receipt]
          = Asked(kind, p, receipt, None)
  <2> DEFINE One == [kind : {kind}, permit : {p}, receipt : {receipt}, attestations : {<<>>},
                     met : {FALSE}, draft : {None}, event : {None}]
  <2>1. [Idle EXCEPT !.kind = kind, !.permit = p, !.receipt = receipt] \in One
    BY DEF Idle
  <2>2. Asked(kind, p, receipt, None) \in One
    BY DEF Asked
  <2> QED BY <2>1, <2>2
<1>3. Asked(kind, p, receipt, None) \in Requests(S)
  BY <1>1 DEF Requests, Asked
<1>4. req' = [req EXCEPT ![t] = Asked(kind, p, receipt, None)]
  BY <1>2 DEF Begin
<1>5. req' \in [Threads -> Requests(S)] /\ req'[t] = Asked(kind, p, receipt, None)
  BY <1>1, <1>3, <1>4
<1>6. pc' \in [Threads -> AllSteps] /\ At(t, "idle", first)
  BY <1>1, <1>4 DEF Begin, Goto, At, Fixed, ThreadOK, AllSteps
<1> QED BY <1>1, <1>5, <1>6 DEF ThreadOK

LEMMA TimestampTypes ==
    ASSUME StoreOK, Timestamp
    PROVE  clock \in Nat /\ clock' \in 0..MaxClock /\ clock <= clock'
  BY AuditAssumption DEF StoreOK, Timestamp

LEMMA DraftTypes ==
    ASSUME NEW time \in 0..MaxClock, NEW object \in Nat \union {None},
           NEW p \in PermitIds \union {None}, NEW state \in States \union {None}
    PROVE  Draft(object, p, state, time) \in Drafts
  BY DEF Draft, Drafts

LEMMA DeniedEffects ==
    ASSUME ThreadOK, StoreOK, NEW t \in Threads, BeginDenied(t)
    PROVE  /\ ThreadOK' /\ At(t, "idle", "lock")
           /\ req'[t] = Asked("denied", None, NoClaim, Draft(None, None, None, clock'))
<1> DEFINE asked == Asked("denied", None, NoClaim, Draft(None, None, None, clock'))
<1>1. PICK S : None \in S /\ req \in [Threads -> Requests(S)]
  BY DEF ThreadOK
<1>2. [Idle EXCEPT !.kind = "denied", !.draft = Draft(None, None, None, clock')] = asked
  <2> DEFINE draft == Draft(None, None, None, clock')
             One == [kind : {"denied"}, permit : {None}, receipt : {NoClaim},
                     attestations : {<<>>}, met : {FALSE}, draft : {draft}, event : {None}]
  <2> HIDE DEF draft
  <2>1. [Idle EXCEPT !.kind = "denied", !.draft = draft] \in One
    BY DEF Idle
  <2>2. Asked("denied", None, NoClaim, draft) \in One
    BY DEF Asked
  <2> QED BY <2>1, <2>2 DEF draft
<1>3. asked \in Requests(S)
  <2>1. Draft(None, None, None, clock') \in Drafts
    BY DraftTypes, TimestampTypes DEF BeginDenied
  <2> QED BY <1>1, <2>1 DEF Requests, Asked, Kinds, Receipts
<1>4. req' = [req EXCEPT ![t] = asked]
  BY <1>2 DEF BeginDenied
<1>5. req' \in [Threads -> Requests(S)] /\ req'[t] = asked
  BY <1>1, <1>3, <1>4
<1>6. pc' \in [Threads -> AllSteps] /\ At(t, "idle", "lock")
  BY <1>1, <1>4 DEF BeginDenied, Goto, At, Fixed, ThreadOK, AllSteps, Steps
<1> QED BY <1>1, <1>5, <1>6 DEF ThreadOK

LEMMA StatementTypes == PullTypeOK => Statement \in AllStatements
<1> SUFFICES ASSUME PullTypeOK PROVE Statement \in AllStatements
  OBVIOUS
<1>1. CASE merge = NoMerge
  <2>1. Statement = [merged |-> FALSE, head |-> head, sha |-> None]
    BY <1>1 DEF Statement
  <2>2. head \in Heads
    BY DEF PullTypeOK
  <2> QED BY <2>1, <2>2 DEF AllStatements
<1>2. CASE merge # NoMerge
  <2>1. Statement = [merged |-> TRUE, head |-> head, sha |-> merge.sha]
    BY <1>2 DEF Statement
  <2>2. merge.sha \in Commits /\ head \in Heads
    BY <1>2 DEF PullTypeOK, Merges
  <2> QED BY <2>1, <2>2 DEF AllStatements
<1> QED BY <1>1, <1>2

LEMMA RoundSteps == \A n : RoundAfter(n) \in {"observe", "conclude"}
  BY DEF RoundAfter

\* The answer of a source: one that is not faulty states what it sees.
LEMMA ObserveEffects ==
    ASSUME ThreadOK, PullTypeOK, NEW t \in Threads, LocalOK(t), Observe(t)
    PROVE  /\ ThreadOK' /\ pc[t] = "observe"
           /\ \/ Leaves(t)
              \/ \E attestation \in Attested :
                    /\ attestation.valid /\ attestation.signer \notin Faulty =>
                          attestation.statement = Statement
                    /\ At(t, "observe", RoundAfter(Len(req[t].attestations) + 1))
                    /\ req'[t].attestations = Append(req[t].attestations, attestation)
                    /\ Same(t) /\ req'[t].met = req[t].met /\ req'[t].draft = req[t].draft
                    /\ req'[t].event = req[t].event
<1> DEFINE n == Len(req[t].attestations) + 1
           signer == Sources[n]
<1>1. PICK S : None \in S /\ req \in [Threads -> Requests(S)]
  BY DEF ThreadOK
<1>2. pc[t] = "observe" /\ signer \in Signers
  <2>1. pc[t] = "observe" /\ Len(req[t].attestations) < Len(Sources)
    BY DEF Observe, LocalOK
  <2>2. req[t].attestations \in Seq(Attested)
    BY LocalTypes
  <2>3. Len(Sources) \in Nat /\ Len(req[t].attestations) \in Nat
    BY <2>2, ReconciliationAssumption
  <2>4. n \in 1..Len(Sources)
    BY <2>1, <2>3
  <2>5. Sources[n] \in Signers
    BY <2>4, ReconciliationAssumption
  <2> QED BY <2>1, <2>5
<1>3. ASSUME NEW attestation \in Attested,
             req' = [req EXCEPT ![t].attestations = Append(@, attestation)],
             pc' = [pc EXCEPT ![t] = RoundAfter(n)]
      PROVE  /\ ThreadOK'
             /\ At(t, "observe", RoundAfter(n))
             /\ req'[t].attestations = Append(req[t].attestations, attestation)
             /\ Same(t) /\ req'[t].met = req[t].met /\ req'[t].draft = req[t].draft
             /\ req'[t].event = req[t].event
  <2>1. req[t] \in Requests(S) /\ Append(req[t].attestations, attestation) \in Seq(Attested)
    BY <1>1 DEF Requests
  <2>2. req'[t] \in Requests(S)
    BY <1>1, <1>3, <2>1 DEF Requests
  <2>3. req' \in [Threads -> Requests(S)]
    BY <1>1, <1>3, <2>2
  <2>4. pc' \in [Threads -> AllSteps]
    BY <1>3, RoundSteps DEF ThreadOK, AllSteps, Steps
  <2>5. At(t, "observe", RoundAfter(n))
    BY <1>1, <1>2, <1>3 DEF At, Fixed, ThreadOK
  <2>6. /\ req'[t].attestations = Append(req[t].attestations, attestation)
        /\ Same(t) /\ req'[t].met = req[t].met /\ req'[t].draft = req[t].draft
        /\ req'[t].event = req[t].event
    BY <1>1, <1>3, <2>1 DEF Same, Requests
  <2> QED BY <1>1, <2>3, <2>4, <2>5, <2>6 DEF ThreadOK
<1> DEFINE Moved(attestation) ==
               /\ req' = [req EXCEPT ![t].attestations = Append(@, attestation)]
               /\ pc' = [pc EXCEPT ![t] = RoundAfter(n)]
           sees == [signer |-> signer, statement |-> Statement, valid |-> TRUE]
           forges == [signer |-> signer, statement |-> Statement, valid |-> FALSE]
<1>4. CASE signer \notin Faulty /\ Moved(sees)
  <2>1. sees \in Attested /\ sees.statement = Statement
    BY <1>2, StatementTypes DEF Attested
  <2> QED BY <1>2, <1>3, <1>4, <2>1
<1>5. ASSUME signer \in Faulty, NEW statement \in Lies,
             Moved([signer |-> signer, statement |-> statement, valid |-> TRUE])
      PROVE  ThreadOK' /\ \E attestation \in Attested :
                    /\ attestation.valid /\ attestation.signer \notin Faulty =>
                          attestation.statement = Statement
                    /\ At(t, "observe", RoundAfter(n))
                    /\ req'[t].attestations = Append(req[t].attestations, attestation)
                    /\ Same(t) /\ req'[t].met = req[t].met /\ req'[t].draft = req[t].draft
                    /\ req'[t].event = req[t].event
  <2> DEFINE a == [signer |-> signer, statement |-> statement, valid |-> TRUE]
  <2>1. a \in Attested /\ a.signer = signer
    BY <1>2, ReconciliationAssumption DEF Attested
  <2> QED BY <1>3, <1>5, <2>1
<1>6. CASE signer \in Faulty /\ Moved(forges)
  <2>1. forges \in Attested /\ ~forges.valid
    BY <1>2, StatementTypes DEF Attested
  <2> QED BY <1>2, <1>3, <1>6, <2>1
<1>7. CASE End(t)
  BY <1>2, <1>7, EndEffects
<1> QED BY <1>2, <1>4, <1>5, <1>6, <1>7 DEF Observe

LEMMA StoreEffects ==
    ASSUME ThreadOK, StoreOK, NEW t \in Threads, NEW object \in Objects, NEW met \in BOOLEAN,
           Store(t, object, met)
    PROVE  /\ ThreadOK' /\ objects' \in Seq(Objects) /\ At(t, pc[t], "lock") /\ Same(t)
           /\ req'[t].met = met /\ req'[t].attestations = <<>>
           /\ req'[t].draft = Draft(Len(objects) + 1, object.permit, object.state, clock')
           /\ Len(objects) \in Nat /\ DOMAIN objects = 1..Len(objects)
           /\ DOMAIN objects' = DOMAIN objects \union {Len(objects) + 1}
           /\ objects'[Len(objects) + 1] = object
           /\ \A i \in DOMAIN objects : objects'[i] = objects[i]
<1> DEFINE draft == Draft(Len(objects) + 1, object.permit, object.state, clock')
<1>1. PICK S : None \in S /\ req \in [Threads -> Requests(S)]
  BY DEF ThreadOK
<1>2. objects \in Seq(Objects) /\ Len(objects) \in Nat /\ DOMAIN objects = 1..Len(objects)
  BY DEF StoreOK
<1>3. draft \in Drafts
  <2>1. object.permit \in PermitIds /\ object.state \in States
    BY DEF Objects
  <2>2. clock' \in 0..MaxClock
    BY TimestampTypes DEF Store
  <2> QED BY <1>2, <2>1, <2>2, DraftTypes
<1>4. req' = [req EXCEPT ![t].met = met, ![t].attestations = <<>>, ![t].draft = draft]
  BY DEF Store
<1>5. req[t] \in Requests(S)
  BY <1>1
<1>6. req'[t] = [req[t] EXCEPT !.met = met, !.attestations = <<>>, !.draft = draft]
  BY <1>1, <1>4
<1> HIDE DEF draft
<1>7. req'[t] \in Requests(S)
  <2>1. <<>> \in Seq(Attested)
    OBVIOUS
  <2>2. req'[t] = [kind |-> req[t].kind, permit |-> req[t].permit, receipt |-> req[t].receipt,
                   attestations |-> <<>>, met |-> met, draft |-> draft, event |-> req[t].event]
    BY <1>5, <1>6 DEF Requests
  <2>3. req[t].kind \in Kinds \union {None} /\ req[t].permit \in PermitIds \union {None}
        /\ req[t].receipt \in Receipts /\ req[t].event \in S
    BY <1>5 DEF Requests
  <2> QED BY <1>3, <2>1, <2>2, <2>3 DEF Requests
<1>8. /\ Same(t) /\ req'[t].met = met /\ req'[t].attestations = <<>> /\ req'[t].draft = draft
  BY <1>3, <1>5, <1>6 DEF Requests, Same
<1>9. req' \in [Threads -> Requests(S)]
  BY <1>1, <1>4, <1>7
<1>10. pc' \in [Threads -> AllSteps] /\ At(t, pc[t], "lock")
  BY <1>1, <1>4 DEF ThreadOK, AllSteps, Steps, Store, At, Fixed
<1>11. objects' = Append(objects, object)
  BY DEF Store
<1>12. /\ objects' \in Seq(Objects) /\ objects'[Len(objects) + 1] = object
       /\ \A i \in DOMAIN objects : objects'[i] = objects[i]
       /\ DOMAIN objects' = 1..(Len(objects) + 1)
  BY <1>2, <1>11
<1>13. DOMAIN objects' = DOMAIN objects \union {Len(objects) + 1}
  BY <1>2, <1>12
<1> QED BY <1>1, <1>2, <1>8, <1>9, <1>10, <1>12, <1>13 DEF ThreadOK, draft

LEMMA LockEffects ==
    ASSUME ThreadOK, NEW t \in Threads, Lock(t)
    PROVE  /\ ThreadOK' /\ pc[t] = "lock"
           /\ \/ Leaves(t) /\ UNCHANGED ledgerLock
              \/ /\ Readable(lines) /\ Acquire(t) /\ At(t, "lock", "write") /\ Same(t)
                 /\ req'[t].attestations = req[t].attestations
                 /\ req'[t].met = req[t].met /\ req'[t].draft = req[t].draft
                 /\ req'[t].event = NextEvent(Records(lines), req[t].draft)
<1>1. PICK S : None \in S /\ req \in [Threads -> Requests(S)]
  BY DEF ThreadOK
<1> DEFINE event == NextEvent(Records(lines), req[t].draft)
           U == S \union {event}
<1>2. CASE /\ Readable(lines) /\ Acquire(t) /\ Goto(t, "lock", "write")
           /\ req' = [req EXCEPT ![t].event = event]
  <2> HIDE DEF event
  <2>1. req[t] \in Requests(S) /\ S \subseteq U /\ event \in U /\ None \in U
    BY <1>1
  <2>2. req'[t] = [req[t] EXCEPT !.event = event]
    BY <1>1, <1>2
  <2>3. req'[t] \in Requests(U)
    BY <2>1, <2>2 DEF Requests
  <2>4. \A u \in Threads : req[u] \in Requests(U)
    BY <1>1, <2>1 DEF Requests
  <2>5. req' \in [Threads -> Requests(U)]
    BY <1>1, <1>2, <2>3, <2>4
  <2>6. /\ Same(t) /\ req'[t].attestations = req[t].attestations
        /\ req'[t].met = req[t].met /\ req'[t].draft = req[t].draft /\ req'[t].event = event
    BY <2>1, <2>2 DEF Requests, Same
  <2>7. pc' \in [Threads -> AllSteps] /\ At(t, "lock", "write")
    BY <1>1, <1>2 DEF Goto, ThreadOK, AllSteps, Steps, At, Fixed
  <2> QED BY <1>2, <2>1, <2>5, <2>6, <2>7 DEF ThreadOK, At, event
<1>3. CASE End(t) /\ UNCHANGED ledgerLock
  BY <1>3, EndEffects DEF Lock
<1> QED BY <1>2, <1>3 DEF Lock

\* A step that moves on with the locals it has.
LEMMA GotoEffects ==
    ASSUME ThreadOK, NEW t \in Threads, NEW from, NEW to \in AllSteps, Goto(t, from, to),
           UNCHANGED req
    PROVE  ThreadOK' /\ At(t, from, to)
  BY DEF ThreadOK, Goto, At, Fixed

-----------------------------------------------------------------------------
(* Each step keeps the types *)

\* Objects are never removed or changed.
Grown == \A i \in DOMAIN objects : i \in DOMAIN objects' /\ objects'[i] = objects[i]

\* What one thread may do with a lock: nothing, take it, or give it back.
LockMoves(t) ==
    \/ UNCHANGED ledgerLock
    \/ ledgerLock[Host[t]] = None /\ ledgerLock' = [ledgerLock EXCEPT ![Host[t]] = t]
    \/ ledgerLock[Host[t]] = t /\ ledgerLock' = [ledgerLock EXCEPT ![Host[t]] = None]

LEMMA ReleaseMoves ==
    ASSUME TypeInv, NEW t \in Threads, Release(t)
    PROVE  /\ LockMoves(t) /\ ledgerLock'[Host[t]] # t
           /\ ledgerLock' \in [Processes -> Threads \union {None}]
<1>1. Host[t] \in Processes /\ ledgerLock \in [Processes -> Threads \union {None}] /\ None # t
  BY AuditAssumption DEF TypeInv, StoreOK
<1>2. CASE ledgerLock[Host[t]] = t
  <2>1. ledgerLock' = [ledgerLock EXCEPT ![Host[t]] = None]
    BY <1>2 DEF Release
  <2> QED BY <1>1, <1>2, <2>1 DEF LockMoves
<1>3. CASE ledgerLock[Host[t]] # t
  <2>1. ledgerLock' = ledgerLock
    BY <1>1, <1>3 DEF Release
  <2> QED BY <1>1, <1>3, <2>1 DEF LockMoves
<1> QED BY <1>2, <1>3

LEMMA OthersStay ==
    ASSUME TypeInv, NEW t \in Threads, Fixed(t), Grown, LockMoves(t)
    PROVE  \A u \in Threads \ {t} : LocalOK(u)'
<1> SUFFICES ASSUME NEW u \in Threads \ {t} PROVE LocalOK(u)'
  OBVIOUS
<1>1. LocalOK(u) /\ pc'[u] = pc[u] /\ req'[u] = req[u]
  BY DEF TypeInv, Fixed
<1>2. ledgerLock'[Host[u]] = u <=> ledgerLock[Host[u]] = u
  <2>1. Host[t] \in Processes /\ Host[u] \in Processes /\ None # u
        /\ ledgerLock \in [Processes -> Threads \union {None}]
    BY AuditAssumption DEF TypeInv, StoreOK
  <2> QED BY <2>1 DEF LockMoves
<1>3. Describes(req[u].draft) => Describes(req[u].draft)'
  BY <1>1 DEF Describes, Grown
<1> QED BY <1>1, <1>2, <1>3 DEF LocalOK

LEMMA LeavesLocal ==
    ASSUME NEW t \in Threads, Leaves(t), ledgerLock'[Host[t]] # t
    PROVE  LocalOK(t)'
  BY DEF LocalOK, Leaves, Idle, Drafted, Numbered

\* The request is over; the lock, if it had it, is given back.
LEMMA LeavesTypes ==
    ASSUME TypeInv, NEW t \in Threads, Leaves(t), Grown,
           Release(t) \/ (UNCHANGED ledgerLock /\ pc[t] # "write")
    PROVE  \A u \in Threads : LocalOK(u)'
<1>1. LockMoves(t) /\ ledgerLock'[Host[t]] # t
  BY ReleaseMoves DEF LockMoves, TypeInv, LocalOK
<1> QED BY <1>1, OthersStay, LeavesLocal DEF Leaves

LEMMA BeginTypes ==
    ASSUME TypeInv, NEW t \in Threads, NEW kind \in Kinds, NEW p \in PermitIds,
           NEW receipt \in Receipts, NEW first, Begin(t, kind, p, receipt, first), PullTypeOK',
           \/ kind \in {"mint", "execute"} /\ first = "store"
           \/ kind = "reconcile" /\ first = RoundAfter(0)
    PROVE  TypeInv'
<1>1. first \in Steps
  BY RoundSteps DEF Steps
<1>2. ThreadOK' /\ At(t, "idle", first) /\ req'[t] = Asked(kind, p, receipt, None)
  BY <1>1, BeginEffects DEF TypeInv
<1>3. /\ UNCHANGED <<lines, ended, rows, ledgerLock, clock, objects, moved, acknowledged, faults>>
      /\ requests < MaxRequests /\ requests' = requests + 1
  BY DEF Begin, auditVars
<1>4. StoreOK'
  <2>1. FileOK'
    BY <1>3 DEF TypeInv, StoreOK, FileOK
  <2>2. requests' \in 0..MaxRequests
    BY <1>3, ReconciliationAssumption DEF TypeInv, StoreOK
  <2> QED BY <1>3, <2>1, <2>2 DEF TypeInv, StoreOK
<1>5. \A u \in Threads \ {t} : LocalOK(u)'
  BY <1>2, <1>3, OthersStay DEF At, Grown, LockMoves
<1>6. first = "observe" => Len(<<>>) < Len(Sources)
  <2>1. Len(Sources) \in Nat /\ Len(<<>>) = 0
    BY ReconciliationAssumption
  <2> QED BY <2>1 DEF RoundAfter
<1>7. LocalOK(t)'
  <2>1. /\ req'[t].kind = kind /\ req'[t].permit = p /\ req'[t].draft = None
        /\ req'[t].attestations = <<>> /\ req'[t].met = FALSE
    BY <1>2 DEF Asked
  <2>2. p # None /\ pc'[t] = first /\ ledgerLock'[Host[t]] # t
    BY <1>2, <1>3, NoneApart DEF At, TypeInv, LocalOK
  <2>3. first \in {"store", "observe", "conclude"} /\ kind # "denied"
        /\ (first = "store" <=> kind \in {"mint", "execute"})
    BY RoundSteps
  <2> QED BY <1>6, <2>1, <2>2, <2>3 DEF LocalOK, Drafted, Numbered
<1> QED BY <1>2, <1>4, <1>5, <1>7 DEF TypeInv

LEMMA ObjectTypes ==
    ASSUME TypeInv, NEW i \in DOMAIN objects
    PROVE  objects[i] \in Objects /\ i \in Nat /\ i # None
<1>1. objects[i] \in Objects /\ i \in Nat
  BY DEF TypeInv, StoreOK
<1> QED BY <1>1, NoneApart

LEMMA BeginReconcileTypes ==
    ASSUME TypeInv, NEW t \in Threads, NEW i \in DOMAIN objects, BeginReconcile(t, i)
    PROVE  TypeInv'
<1>1. PullTypeOK'
  BY DEF BeginReconcile, pullVars, TypeInv, PullTypeOK
<1>2. objects[i].permit \in PermitIds /\ objects[i].receipt \in Receipts
  BY ObjectTypes DEF Objects
<1>3. "reconcile" \in Kinds
  BY DEF Kinds
<1> QED BY <1>1, <1>2, <1>3, BeginTypes DEF BeginReconcile

LEMMA BeginMintTypes ==
    ASSUME TypeInv, NEW t \in Threads, NEW p \in PermitIds, BeginMint(t, p)
    PROVE  TypeInv'
<1>1. PullTypeOK'
  BY DEF BeginMint, pullVars, TypeInv, PullTypeOK
<1>2. "mint" \in Kinds /\ NoClaim \in Receipts
  BY DEF Kinds, Receipts
<1> QED BY <1>1, <1>2, BeginTypes DEF BeginMint

LEMMA BeginExecuteTypes ==
    ASSUME TypeInv, NEW t \in Threads, NEW p \in PermitIds, NEW receipt \in Receipts,
           BeginExecute(t, p, receipt)
    PROVE  TypeInv'
<1>1. PullTypeOK'
  BY DEF BeginExecute, SendPut, TypeInv, PullTypeOK
<1>2. "execute" \in Kinds
  BY DEF Kinds
<1> QED BY <1>1, <1>2, BeginTypes DEF BeginExecute

LEMMA BeginDeniedTypes ==
    ASSUME TypeInv, NEW t \in Threads, BeginDenied(t)
    PROVE  TypeInv'
<1>1. /\ ThreadOK' /\ At(t, "idle", "lock")
      /\ req'[t] = Asked("denied", None, NoClaim, Draft(None, None, None, clock'))
  BY DeniedEffects DEF TypeInv
<1>2. /\ UNCHANGED <<head, merge, puts, pushes, lines, ended, rows, ledgerLock, objects,
                     moved, acknowledged, faults>>
      /\ requests < MaxRequests /\ requests' = requests + 1
      /\ clock' \in 0..MaxClock
  BY TimestampTypes DEF BeginDenied, pullVars, TypeInv
<1>3. PullTypeOK' /\ StoreOK'
  <2>1. FileOK' /\ PullTypeOK'
    BY <1>2 DEF TypeInv, StoreOK, PullTypeOK, FileOK
  <2>2. requests' \in 0..MaxRequests
    BY <1>2, ReconciliationAssumption DEF TypeInv, StoreOK
  <2> QED BY <1>2, <2>1, <2>2 DEF TypeInv, StoreOK
<1>4. \A u \in Threads \ {t} : LocalOK(u)'
  BY <1>1, <1>2, OthersStay DEF At, Grown, LockMoves
<1>5. LocalOK(t)'
  <2>1. /\ req'[t].kind = "denied" /\ req'[t].permit = None /\ req'[t].met = FALSE
        /\ req'[t].draft = Draft(None, None, None, clock')
    BY <1>1 DEF Asked
  <2>2. /\ req'[t].draft.object = None /\ req'[t].draft.permit = None
        /\ req'[t].draft.state = None /\ req'[t].draft # None
    <3>1. Draft(None, None, None, clock') \in Drafts
      BY <1>2, DraftTypes
    <3> QED BY <2>1, <3>1, NoneApart DEF Draft
  <2>3. pc'[t] = "lock" /\ ledgerLock'[Host[t]] # t
    BY <1>1, <1>2 DEF At, TypeInv, LocalOK
  <2>4. Describes(req[t].draft)'
    BY <2>2 DEF Describes
  <2> QED BY <2>1, <2>2, <2>3, <2>4 DEF LocalOK, Drafted, Numbered, Kinds
<1> QED BY <1>1, <1>3, <1>4, <1>5 DEF TypeInv

LEMMA ObserveTypes ==
    ASSUME TypeInv, NEW t \in Threads, Observe(t)
    PROVE  TypeInv'
<1>1. UNCHANGED <<head, merge, puts, pushes, lines, ended, rows, ledgerLock, clock, objects,
                  moved, acknowledged, faults, requests>>
  BY DEF Observe, pullVars, auditVars
<1>2. PullTypeOK' /\ StoreOK'
  BY <1>1 DEF TypeInv, PullTypeOK, StoreOK, FileOK
<1>3. ThreadOK' /\ pc[t] = "observe" /\ LocalOK(t)
  BY ObserveEffects DEF TypeInv
<1>4. CASE Leaves(t)
  BY <1>1, <1>2, <1>3, <1>4, LeavesTypes DEF TypeInv, Grown
<1>5. ASSUME NEW attestation \in Attested,
             At(t, "observe", RoundAfter(Len(req[t].attestations) + 1)),
             req'[t].attestations = Append(req[t].attestations, attestation),
             Same(t), req'[t].met = req[t].met, req'[t].draft = req[t].draft
      PROVE  TypeInv'
  <2>1. \A u \in Threads \ {t} : LocalOK(u)'
    BY <1>1, <1>5, OthersStay DEF At, Grown, LockMoves
  <2>2. pc'[t] = "observe" => Len(req'[t].attestations) < Len(Sources)
    <3>1. req[t].attestations \in Seq(Attested) /\ Len(Sources) \in Nat
      BY LocalTypes, ReconciliationAssumption DEF TypeInv
    <3>2. Len(req'[t].attestations) = Len(req[t].attestations) + 1
          /\ Len(req[t].attestations) \in Nat
      BY <1>5, <3>1
    <3>3. Len(req[t].attestations) < Len(Sources)
      BY <1>3 DEF LocalOK
    <3> QED BY <1>5, <3>1, <3>2, <3>3 DEF At, RoundAfter
  <2>3. pc'[t] \in {"observe", "conclude"}
    BY <1>5, RoundSteps DEF At
  <2>4. LocalOK(t)'
    BY <1>1, <1>3, <1>5, <2>2, <2>3 DEF LocalOK, Same, Drafted, Numbered
  <2> QED BY <1>2, <1>3, <2>1, <2>4 DEF TypeInv
<1> QED BY <1>4, <1>5, ObserveEffects DEF TypeInv

\* An object is stored and its event drafted.
LEMMA StoreTypes ==
    ASSUME TypeInv, NEW t \in Threads, NEW object \in Objects, NEW met \in BOOLEAN,
           Store(t, object, met), pc[t] \in {"store", "conclude"},
           object.permit = req[t].permit, met => pc[t] = "conclude",
           UNCHANGED <<pullVars, lines, ended, rows, ledgerLock, moved, acknowledged, requests>>
    PROVE  TypeInv'
<1> DEFINE i == Len(objects) + 1
<1>1. /\ ThreadOK' /\ objects' \in Seq(Objects) /\ At(t, pc[t], "lock") /\ Same(t)
      /\ req'[t].met = met /\ req'[t].attestations = <<>>
      /\ req'[t].draft = Draft(i, object.permit, object.state, clock')
      /\ i \in Nat /\ i \in DOMAIN objects' /\ objects'[i] = object /\ Grown
      /\ DOMAIN objects \subseteq DOMAIN objects'
  BY StoreEffects DEF TypeInv, Grown
<1>2. UNCHANGED <<head, merge, puts, pushes, lines, ended, ledgerLock, moved,
                  acknowledged, faults, requests>> /\ clock' \in 0..MaxClock
  BY TimestampTypes DEF pullVars, Store, TypeInv
<1>3. PullTypeOK' /\ StoreOK'
  <2>1. PullTypeOK' /\ FileOK'
    BY <1>2 DEF TypeInv, PullTypeOK, StoreOK, FileOK
  <2> QED BY <1>1, <1>2, <2>1 DEF TypeInv, StoreOK
<1>4. \A u \in Threads \ {t} : LocalOK(u)'
  BY <1>1, <1>2, OthersStay DEF At, LockMoves
<1>5. /\ req'[t].draft.object = i /\ req'[t].draft.permit = object.permit
      /\ req'[t].draft.state = object.state /\ i # None /\ req'[t].draft # None
  <2>1. object.permit \in PermitIds /\ object.state \in States
    BY DEF Objects
  <2>2. Draft(i, object.permit, object.state, clock') \in Drafts
    BY <1>1, <1>2, <2>1, DraftTypes
  <2> QED BY <1>1, <2>2, NoneApart DEF Draft
<1>6. Describes(req[t].draft)'
  BY <1>1, <1>5 DEF Describes
<1>7. LocalOK(t)'
  <2>1. LocalOK(t) /\ ledgerLock'[Host[t]] # t /\ pc'[t] = "lock"
    BY <1>1, <1>2 DEF TypeInv, LocalOK, At
  <2>2. req'[t].kind \in Kinds /\ req'[t].kind # "denied" /\ req'[t].permit # None
        /\ req'[t].permit = object.permit /\ (met => req'[t].kind = "reconcile")
    BY <1>1, <2>1 DEF LocalOK, Same
  <2> QED BY <1>1, <1>5, <1>6, <2>1, <2>2 DEF LocalOK, Drafted, Numbered
<1> QED BY <1>1, <1>3, <1>4, <1>7 DEF TypeInv

LEMMA StoreFailsTypes ==
    ASSUME TypeInv, NEW t \in Threads, StoreFails(t), pc[t] \in {"store", "conclude"},
           UNCHANGED <<pullVars, lines, ended, rows, ledgerLock, moved, acknowledged, requests>>
    PROVE  TypeInv' /\ Leaves(t) /\ UNCHANGED objects /\ faults' = faults + 1
<1>1. UNCHANGED <<head, merge, puts, pushes, lines, ended, ledgerLock, clock, moved,
                  acknowledged, requests, objects>> /\ faults' = faults + 1 /\ faults < MaxFaults
  BY DEF pullVars, StoreFails, Fault
<1>2. PullTypeOK' /\ StoreOK'
  BY <1>1, ReconciliationAssumption DEF TypeInv, PullTypeOK, StoreOK, FileOK
<1>3. ThreadOK' /\ Leaves(t)
  BY EndEffects DEF TypeInv, StoreFails
<1> QED BY <1>1, <1>2, <1>3, LeavesTypes DEF TypeInv, Grown

\* What the two requests store.
LEMMA StoredTypes ==
    ASSUME TypeInv, NEW t \in Threads
    PROVE  /\ pc[t] = "store" => /\ Permit(req[t].permit) \in Objects
                                 /\ Execution(req[t].permit, req[t].receipt) \in Objects
           /\ \A state \in States : pc[t] = "conclude" =>
                 ReconciliationOf(req[t].permit, state) \in Objects
<1>1. pc[t] \in {"store", "conclude"} => req[t].permit \in PermitIds
  <2>1. LocalOK(t) /\ req[t].permit \in PermitIds \union {None}
    BY LocalTypes DEF TypeInv
  <2> QED BY <2>1 DEF LocalOK
<1>2. req[t].receipt \in Receipts /\ NoClaim \in Receipts
  BY LocalTypes DEF TypeInv, Receipts
<1>3. acknowledged \in SUBSET Nat
  BY DEF TypeInv, StoreOK
<1> QED BY <1>1, <1>2, <1>3 DEF Permit, Execution, ReconciliationOf, Object, Objects, States

LEMMA StorePermitTypes ==
    ASSUME TypeInv, NEW t \in Threads, StorePermit(t)
    PROVE  TypeInv'
<1>1. pc[t] = "store"
      /\ UNCHANGED <<pullVars, lines, ended, rows, ledgerLock, moved, acknowledged, requests>>
  BY DEF StorePermit
<1>2. CASE Store(t, Permit(req[t].permit), FALSE)
  <2>1. Permit(req[t].permit) \in Objects /\ Permit(req[t].permit).permit = req[t].permit
    BY <1>1, StoredTypes DEF Permit, Object
  <2> QED BY <1>1, <1>2, <2>1, StoreTypes
<1>3. CASE StoreFails(t)
  BY <1>1, <1>3, StoreFailsTypes
<1> QED BY <1>2, <1>3 DEF StorePermit

LEMMA StoreExecutionTypes ==
    ASSUME TypeInv, NEW t \in Threads, StoreExecution(t)
    PROVE  TypeInv'
<1>1. pc[t] = "store"
      /\ UNCHANGED <<pullVars, lines, ended, rows, ledgerLock, moved, acknowledged, requests>>
  BY DEF StoreExecution
<1>2. CASE Store(t, Execution(req[t].permit, req[t].receipt), FALSE)
  <2>1. Execution(req[t].permit, req[t].receipt) \in Objects
        /\ Execution(req[t].permit, req[t].receipt).permit = req[t].permit
    BY <1>1, StoredTypes DEF Execution, Object
  <2> QED BY <1>1, <1>2, <2>1, StoreTypes
<1>3. CASE StoreFails(t)
  BY <1>1, <1>3, StoreFailsTypes
<1> QED BY <1>2, <1>3 DEF StoreExecution

LEMMA ConcludeTypes ==
    ASSUME TypeInv, NEW t \in Threads, Conclude(t)
    PROVE  TypeInv'
<1>1. pc[t] = "conclude"
      /\ UNCHANGED <<pullVars, lines, ended, rows, ledgerLock, moved, acknowledged, requests>>
  BY DEF Conclude
<1>2. ASSUME NEW met \in BOOLEAN, NEW state \in States,
             Store(t, ReconciliationOf(req[t].permit, state), met)
      PROVE  TypeInv'
  <2>1. ReconciliationOf(req[t].permit, state) \in Objects
        /\ ReconciliationOf(req[t].permit, state).permit = req[t].permit
    BY <1>1, StoredTypes DEF ReconciliationOf, Object
  <2> QED BY <1>1, <1>2, <2>1, StoreTypes
<1>3. CASE StoreFails(t)
  BY <1>1, <1>3, StoreFailsTypes
<1>4. QuorumMet(req[t].attestations) \in BOOLEAN
  BY DEF QuorumMet
<1> QED BY <1>2, <1>3, <1>4 DEF Conclude, States

LEMMA LockTypes ==
    ASSUME TypeInv, NEW t \in Threads, Lock(t)
    PROVE  TypeInv'
<1>1. UNCHANGED <<head, merge, puts, pushes, lines, ended, clock, objects, moved,
                  acknowledged, faults, requests>>
  BY DEF Lock, pullVars
<1>2. ThreadOK' /\ pc[t] = "lock"
  BY LockEffects DEF TypeInv
<1>3. FileOK' /\ PullTypeOK'
  BY <1>1 DEF TypeInv, StoreOK, PullTypeOK, FileOK
<1>4. CASE Leaves(t) /\ UNCHANGED ledgerLock
  <2>1. StoreOK'
    BY <1>1, <1>3, <1>4 DEF TypeInv, StoreOK
  <2> QED BY <1>1, <1>2, <1>3, <1>4, <2>1, LeavesTypes DEF TypeInv, Grown
<1>5. CASE /\ Readable(lines) /\ Acquire(t) /\ At(t, "lock", "write") /\ Same(t)
           /\ req'[t].attestations = req[t].attestations
           /\ req'[t].met = req[t].met /\ req'[t].draft = req[t].draft
           /\ req'[t].event = NextEvent(Records(lines), req[t].draft)
  <2>1. /\ ledgerLock[Host[t]] = None /\ ledgerLock' = [ledgerLock EXCEPT ![Host[t]] = t]
        /\ LockMoves(t)
    BY <1>5 DEF Acquire, LockMoves
  <2>2. StoreOK' /\ ledgerLock'[Host[t]] = t
    BY <1>1, <1>3, <2>1, AuditAssumption DEF TypeInv, StoreOK
  <2>3. \A u \in Threads \ {t} : LocalOK(u)'
    BY <1>1, <1>5, <2>1, OthersStay DEF At, Grown
  <2>4. /\ req'[t].event = Hashed("entry", req'[t].event.sequence, req[t].draft,
                                  req'[t].event.previous)
        /\ req'[t].event.sequence \in Nat \ {0}
    <3>1. Len(Records(lines)) \in Nat
      BY <1>5, ReadableWritten DEF TypeInv, StoreOK
    <3> QED BY <1>5, <3>1 DEF NextEvent, Hashed
  <2>5. LocalOK(t)'
    <3>1. LocalOK(t) /\ pc'[t] = "write"
      BY <1>5 DEF TypeInv, At
    <3>2. Describes(req[t].draft)'
      BY <1>1, <1>2, <1>5, <3>1 DEF LocalOK, Describes, Drafted
    <3> QED BY <1>2, <1>5, <2>2, <2>4, <3>1, <3>2 DEF LocalOK, Same, Drafted, Numbered
  <2> QED BY <1>2, <1>3, <2>2, <2>3, <2>5 DEF TypeInv
<1> QED BY <1>4, <1>5, LockEffects DEF TypeInv

\* A request goes on to the next step of _audit, with what it has.
LEMMA GoesOn ==
    ASSUME TypeInv, NEW t \in Threads, At(t, pc[t], pc'[t]), UNCHANGED <<req, objects>>,
           pc[t] \in {"write", "insert"}, pc'[t] \in {"insert", "advance"},
           pc'[t] = "advance" => req[t].met,
           Release(t) \/ (UNCHANGED ledgerLock /\ pc[t] # "write")
    PROVE  \A u \in Threads : LocalOK(u)'
<1>1. LockMoves(t) /\ ledgerLock'[Host[t]] # t
  BY ReleaseMoves DEF LockMoves, TypeInv, LocalOK
<1>2. LocalOK(t)
  BY DEF TypeInv
<1>3. Describes(req[t].draft)'
  BY <1>2 DEF LocalOK, Describes, Drafted
<1>4. LocalOK(t)'
  BY <1>1, <1>2, <1>3 DEF LocalOK, Drafted, Numbered
<1> QED BY <1>1, <1>4, OthersStay DEF At, Grown

LEMMA WriteTypes ==
    ASSUME TypeInv, NEW t \in Threads, Write(t)
    PROVE  TypeInv'
<1>1. /\ UNCHANGED <<head, merge, puts, pushes, rows, clock, objects, moved, acknowledged, requests>>
      /\ Release(t) /\ pc[t] = "write"
  BY DEF Write, pullVars
<1>2. PullTypeOK' /\ FileOK
  BY <1>1 DEF TypeInv, StoreOK, PullTypeOK
<1>3. ledgerLock' \in [Processes -> Threads \union {None}]
  BY <1>1, ReleaseMoves
<1>4. CASE WriteLine(req[t].event) /\ Goto(t, "write", "insert") /\ UNCHANGED <<req, faults>>
  <2>1. FileOK'
    BY <1>2, <1>4, PutEffects DEF WriteLine
  <2>2. ThreadOK' /\ At(t, "write", "insert")
    BY <1>4, GotoEffects DEF TypeInv, AllSteps, Steps
  <2>3. StoreOK'
    BY <1>1, <1>3, <1>4, <2>1 DEF TypeInv, StoreOK
  <2>4. \A u \in Threads : LocalOK(u)'
    BY <1>1, <1>4, <2>2, GoesOn DEF At
  <2> QED BY <1>2, <2>2, <2>3, <2>4 DEF TypeInv
<1>5. CASE WriteFails(req[t].event) /\ Fault /\ End(t)
  <2>1. FileOK'
    BY <1>2, <1>5, WriteFailsEffects
  <2>2. ThreadOK' /\ Leaves(t)
    BY <1>5, EndEffects DEF TypeInv
  <2>3. faults' \in 0..MaxFaults
    BY <1>5, ReconciliationAssumption DEF Fault, TypeInv, StoreOK
  <2>4. StoreOK'
    BY <1>1, <1>3, <2>1, <2>3 DEF TypeInv, StoreOK
  <2>5. \A u \in Threads : LocalOK(u)'
    BY <1>1, <2>2, LeavesTypes DEF Grown
  <2> QED BY <1>2, <2>2, <2>4, <2>5 DEF TypeInv
<1> QED BY <1>4, <1>5 DEF Write

\* The object of a request that is not denied is one that is stored.
LEMMA DraftedObject ==
    ASSUME TypeInv, NEW t \in Threads, pc[t] \in Drafted, req[t].kind # "denied"
    PROVE  req[t].draft.object \in DOMAIN objects
<1>1. LocalOK(t)
  BY DEF TypeInv
<1> QED BY <1>1 DEF LocalOK, Describes

LEMMA AcknowledgeTypes ==
    ASSUME TypeInv, NEW t \in Threads, pc[t] \in {"insert", "advance"}, req[t].kind # "denied",
           Acknowledge(t), UNCHANGED <<pullVars, lines, ended, ledgerLock, clock, objects,
                                       requests>>,
           moved' \subseteq moved \union {req[t].draft.object}, faults' \in 0..MaxFaults
    PROVE  TypeInv'
<1>1. ThreadOK' /\ Leaves(t)
  BY EndEffects DEF TypeInv, Acknowledge
<1>2. req[t].draft.object \in DOMAIN objects
  BY DraftedObject DEF Drafted
<1>3. UNCHANGED <<head, merge, puts, pushes, lines, ended, ledgerLock, clock, objects, requests>>
  BY DEF pullVars
<1>4. PullTypeOK' /\ FileOK'
  BY <1>3 DEF TypeInv, PullTypeOK, StoreOK, FileOK
<1>5. StoreOK'
  BY <1>2, <1>3, <1>4 DEF TypeInv, StoreOK, Acknowledge
<1>6. \A u \in Threads : LocalOK(u)'
  BY <1>1, <1>3, LeavesTypes DEF Grown
<1> QED BY <1>1, <1>4, <1>5, <1>6 DEF TypeInv

LEMMA RaiseTypes ==
    ASSUME TypeInv, NEW t \in Threads, pc[t] # "write", Raise(t),
           UNCHANGED <<pullVars, lines, ended, ledgerLock, clock, objects, moved, requests>>,
           faults' \in 0..MaxFaults
    PROVE  TypeInv'
<1>1. ThreadOK' /\ Leaves(t) /\ UNCHANGED acknowledged
  BY EndEffects DEF TypeInv, Raise
<1>2. UNCHANGED <<head, merge, puts, pushes, lines, ended, ledgerLock, clock, objects, moved,
                  requests>>
  BY DEF pullVars
<1>3. PullTypeOK' /\ FileOK'
  BY <1>2 DEF TypeInv, PullTypeOK, StoreOK, FileOK
<1>4. StoreOK'
  BY <1>1, <1>2, <1>3 DEF TypeInv, StoreOK
<1>5. \A u \in Threads : LocalOK(u)'
  BY <1>1, <1>2, LeavesTypes DEF Grown
<1> QED BY <1>1, <1>3, <1>4, <1>5 DEF TypeInv

LEMMA InsertTypes ==
    ASSUME TypeInv, NEW t \in Threads, Insert(t)
    PROVE  TypeInv'
<1>1. /\ UNCHANGED <<pullVars, lines, ended, ledgerLock, clock, objects, moved, requests>>
      /\ pc[t] = "insert"
  BY DEF Insert
<1>2. faults' \in 0..MaxFaults
  BY ReconciliationAssumption DEF Insert, Fault, TypeInv, StoreOK
<1>3. CASE req[t].met /\ Goto(t, "insert", "advance") /\ UNCHANGED <<req, acknowledged>>
  <2>1. UNCHANGED <<head, merge, puts, pushes, lines, ended, ledgerLock, clock, objects, moved,
                    requests>>
    BY <1>1 DEF pullVars
  <2>2. PullTypeOK' /\ FileOK'
    BY <2>1 DEF TypeInv, PullTypeOK, StoreOK, FileOK
  <2>3. StoreOK'
    BY <1>2, <1>3, <2>1, <2>2 DEF TypeInv, StoreOK
  <2>4. ThreadOK' /\ At(t, "insert", "advance")
    BY <1>3, GotoEffects DEF TypeInv, AllSteps, Steps
  <2>5. \A u \in Threads : LocalOK(u)'
    BY <1>3, <2>1, <2>4, GoesOn DEF At
  <2> QED BY <2>2, <2>3, <2>4, <2>5 DEF TypeInv
<1>4. CASE req[t].kind # "denied" /\ Acknowledge(t)
  BY <1>1, <1>2, <1>4, AcknowledgeTypes
<1>5. CASE Raise(t)
  BY <1>1, <1>2, <1>5, RaiseTypes
<1> QED BY <1>3, <1>4, <1>5 DEF Insert

LEMMA AdvanceTypes ==
    ASSUME TypeInv, NEW t \in Threads, Advance(t)
    PROVE  TypeInv'
<1>1. /\ UNCHANGED <<pullVars, lines, ended, ledgerLock, clock, objects, requests>>
      /\ pc[t] = "advance"
  BY DEF Advance, auditVars
<1>2. faults' \in 0..MaxFaults
  BY ReconciliationAssumption DEF Advance, Fault, TypeInv, StoreOK
<1>3. req[t].kind # "denied"
  <2>1. LocalOK(t)
    BY DEF TypeInv
  <2> QED BY <1>1, <2>1 DEF LocalOK
<1>4. CASE moved' = moved \union {req[t].draft.object} /\ Acknowledge(t)
  BY <1>1, <1>2, <1>3, <1>4, AcknowledgeTypes
<1>5. CASE Raise(t) /\ UNCHANGED moved
  BY <1>1, <1>2, <1>5, RaiseTypes
<1> QED BY <1>4, <1>5 DEF Advance

LEMMA CrashTypes ==
    ASSUME TypeInv, NEW h \in Processes, Crash(h)
    PROVE  TypeInv'
<1> DEFINE lost == {t \in Threads : Host[t] = h /\ pc[t] # "idle"}
<1>1. /\ UNCHANGED <<head, merge, puts, pushes, clock, objects, moved, acknowledged, requests>>
      /\ pc' = [t \in Threads |-> IF t \in lost THEN "idle" ELSE pc[t]]
      /\ req' = [t \in Threads |-> IF t \in lost THEN Idle ELSE req[t]]
      /\ ledgerLock' = [ledgerLock EXCEPT ![h] = None]
      /\ Fault
  BY DEF Crash, pullVars
<1>2. PullTypeOK' /\ FileOK'
  <2>1. FileOK
    BY DEF TypeInv, StoreOK
  <2>2. ASSUME UNCHANGED <<lines, ended>> PROVE FileOK'
    BY <2>1, <2>2 DEF FileOK
  <2>3. ASSUME NEW t \in Threads, WriteFails(req[t].event) PROVE FileOK'
    BY <2>1, <2>3, WriteFailsEffects
  <2>4. FileOK'
    BY <2>2, <2>3 DEF Crash
  <2> QED BY <1>1, <2>4 DEF TypeInv, PullTypeOK
<1>3. faults' \in 0..MaxFaults
  BY <1>1, ReconciliationAssumption DEF Fault, TypeInv, StoreOK
<1>4. StoreOK'
  BY <1>1, <1>2, <1>3 DEF TypeInv, StoreOK
<1>5. ThreadOK'
  <2>1. PICK S : None \in S /\ req \in [Threads -> Requests(S)]
    BY DEF TypeInv, ThreadOK
  <2>2. Idle \in Requests(S)
    BY <2>1 DEF Idle, Requests, Receipts
  <2>3. req' \in [Threads -> Requests(S)]
    BY <1>1, <2>1, <2>2
  <2>4. pc' \in [Threads -> AllSteps]
    BY <1>1 DEF TypeInv, ThreadOK, AllSteps
  <2> QED BY <2>1, <2>3, <2>4 DEF ThreadOK
<1>6. ASSUME NEW t \in Threads PROVE LocalOK(t)'
  <2>1. ledgerLock \in [Processes -> Threads \union {None}] /\ Host[t] \in Processes /\ None # t
    BY AuditAssumption DEF TypeInv, StoreOK
  <2>2. CASE t \in lost
    <3>1. pc'[t] = "idle" /\ req'[t] = Idle /\ ledgerLock'[Host[t]] # t
      BY <1>1, <2>1, <2>2
    <3> QED BY <3>1 DEF LocalOK, Idle, Drafted, Numbered
  <2>3. CASE t \notin lost
    <3>1. pc'[t] = pc[t] /\ req'[t] = req[t] /\ (Host[t] # h \/ pc[t] = "idle") /\ LocalOK(t)
      BY <1>1, <2>3 DEF TypeInv
    <3>2. ledgerLock'[Host[t]] = t <=> pc[t] = "write"
      BY <1>1, <2>1, <3>1 DEF LocalOK
    <3>3. Describes(req[t].draft)' <=> Describes(req[t].draft)
      BY <1>1, <3>1 DEF Describes
    <3> QED BY <3>1, <3>2, <3>3 DEF LocalOK
  <2> QED BY <2>2, <2>3
<1> QED BY <1>2, <1>4, <1>5, <1>6 DEF TypeInv

\* Nothing a request has changes.
LEMMA NobodyMoves ==
    ASSUME TypeInv, UNCHANGED <<objects, pc, req, ledgerLock>>
    PROVE  ThreadOK' /\ \A t \in Threads : LocalOK(t)'
<1>1. ThreadOK'
  BY DEF TypeInv, ThreadOK
<1>2. ASSUME NEW t \in Threads PROVE LocalOK(t)'
  <2>1. LocalOK(t)
    BY DEF TypeInv
  <2> QED BY <2>1 DEF LocalOK, Describes
<1> QED BY <1>1, <1>2

LEMMA ProviderTypes == TypeInv /\ Provider => TypeInv'
<1> SUFFICES ASSUME TypeInv, Provider PROVE TypeInv'
  OBVIOUS
<1>1. UNCHANGED <<lines, ended, rows, ledgerLock, clock, objects, moved, acknowledged, pc, req,
                  requests, faults>>
  BY DEF Provider, auditVars, requestVars
<1>2. PullTypeOK'
  <2>1. PullTypeOK /\ Foreign \in Commits /\ PermitIds \subseteq Commits /\ MaxPushes \in Nat
    BY PullAssumption DEF TypeInv, Commits
  <2>2. ASSUME NEW h \in Heads, Push(h) PROVE PullTypeOK'
    BY <2>1, <2>2 DEF PullTypeOK, Push
  <2>3. CASE ForeignMerge
    BY <2>1, <2>3 DEF PullTypeOK, ForeignMerge, Merges
  <2>4. ASSUME NEW p \in PermitIds, DecidePut(p, Expected[p]) PROVE PullTypeOK'
    BY <2>1, <2>4 DEF PullTypeOK, DecidePut, Merges
  <2> QED BY <2>2, <2>3, <2>4 DEF Provider, Others
<1>3. StoreOK'
  <2>1. FileOK'
    BY <1>1 DEF TypeInv, StoreOK, FileOK
  <2> QED BY <1>1, <2>1 DEF TypeInv, StoreOK
<1> QED BY <1>1, <1>2, <1>3, NobodyMoves DEF TypeInv

LEMMA TypeInit == Init => TypeInv
<1> SUFFICES ASSUME Init PROVE TypeInv
  OBVIOUS
<1>1. PullTypeOK
  BY PullAssumption DEF Init, PullInit, PullTypeOK
<1>2. FileOK
  <2>1. lines \in Seq(Seq({}) \ {<<>>})
    BY DEF Init, AuditInit
  <2> QED BY <2>1 DEF Init, AuditInit, FileOK
<1>3. StoreOK
  <2>1. objects \in Seq(Objects)
    BY DEF Init
  <2> QED BY <1>2, <2>1, AuditAssumption, ReconciliationAssumption DEF Init, AuditInit, StoreOK
<1>4. ThreadOK
  <2>1. Idle \in Requests({None})
    BY DEF Idle, Requests, Receipts
  <2>2. req \in [Threads -> Requests({None})] /\ pc \in [Threads -> AllSteps]
    BY <2>1 DEF Init, AllSteps
  <2> QED BY <2>2 DEF ThreadOK
<1>5. ASSUME NEW t \in Threads PROVE LocalOK(t)
  <2>1. ledgerLock[Host[t]] # t
    BY AuditAssumption DEF Init, AuditInit
  <2> QED BY <2>1 DEF Init, LocalOK, Idle, Drafted, Numbered
<1> QED BY <1>1, <1>3, <1>4, <1>5 DEF TypeInv

LEMMA TypeStep == TypeInv /\ [Next]_vars => TypeInv'
<1> SUFFICES ASSUME TypeInv, [Next]_vars PROVE TypeInv'
  OBVIOUS
<1>1. ASSUME NEW t \in Threads, NEW p \in PermitIds, NEW receipt \in Receipts,
             BeginMint(t, p) \/ BeginExecute(t, p, receipt)
      PROVE  TypeInv'
  BY <1>1, BeginMintTypes, BeginExecuteTypes
<1>2. ASSUME NEW t \in Threads, Step(t) PROVE TypeInv'
  BY <1>2, StorePermitTypes, StoreExecutionTypes, ObserveTypes, ConcludeTypes, LockTypes,
     WriteTypes, InsertTypes, AdvanceTypes DEF Step
<1>3. CASE UNCHANGED vars
  <2>1. UNCHANGED <<head, merge, puts, pushes, lines, ended, ledgerLock, clock, objects, moved,
                    acknowledged, pc, req, requests, faults>>
    BY <1>3 DEF vars, pullVars, auditVars, requestVars
  <2>2. FileOK' /\ PullTypeOK'
    BY <2>1 DEF TypeInv, StoreOK, FileOK, PullTypeOK
  <2>3. StoreOK'
    BY <2>1, <2>2 DEF TypeInv, StoreOK
  <2> QED BY <2>1, <2>2, <2>3, NobodyMoves DEF TypeInv
<1>4. NoClaim \in Receipts
  BY DEF Receipts
<1> QED BY <1>1, <1>2, <1>3, <1>4, BeginReconcileTypes, BeginDeniedTypes, CrashTypes,
          ProviderTypes DEF Next

LEMMA TypeInvariant == Spec => []TypeInv
  BY TypeInit, TypeStep, PTL DEF Spec

\* The type invariant, with each thread between the two steps of the ledger exactly
\* while it has the lock of its process (_audit, with tenant.ledger_lock).
THEOREM TypeCorrect == Spec => []TypeOK
<1>1. TypeInv => TypeOK
  <2> SUFFICES ASSUME TypeInv PROVE TypeOK
    OBVIOUS
  <2>1. pc \in [Threads -> {"idle"} \union Steps]
    BY DEF TypeInv, ThreadOK, AllSteps
  <2>2. ASSUME NEW t \in Threads
        PROVE  /\ pc[t] = "idle" <=> req[t].kind = None
               /\ pc[t] \in {"lock", "write", "insert", "advance"} <=> req[t].draft # None
               /\ ledgerLock[Host[t]] = t <=> pc[t] = "write"
    BY NoneApart DEF TypeInv, LocalOK, Idle, Drafted
  <2> QED BY <2>1, <2>2 DEF TypeInv, StoreOK, TypeOK
<1> QED BY <1>1, TypeInvariant, PTL

-----------------------------------------------------------------------------
(* What a step does to the audit trail *)

\* A request stays where it is, or has nothing drafted after the step.  One that
\* reconciles did so before, or begins with an execution that is stored.
Stays(u) == pc'[u] = pc[u] /\ req'[u] = req[u]
Stops(u) ==
    /\ pc'[u] \notin Drafted
    /\ req'[u].kind = "reconcile" =>
          \/ req[u].kind = "reconcile" /\ Same(u)
          \/ \E i \in DOMAIN objects : /\ objects[i].type = "execution"
                                       /\ req'[u].permit = objects[i].permit
                                       /\ req'[u].receipt = objects[i].receipt

Quiet ==
    /\ UNCHANGED <<lines, ended, rows, objects, acknowledged, moved>>
    /\ \A u \in Threads : Stays(u) \/ Stops(u)
    /\ \/ faults' = faults /\ \A u \in Threads : pc[u] = "insert" =>
                                 Stays(u) \/ ~Insertable(req[u].event)
       \/ faults' = faults + 1
Denies(t) ==
    /\ UNCHANGED <<lines, ended, rows, objects, acknowledged, moved, faults>>
    /\ At(t, "idle", "lock") /\ req'[t].kind = "denied"
    /\ req'[t].draft = Draft(None, None, None, clock')
Keeps(t, object) ==
    /\ UNCHANGED <<lines, ended, rows, acknowledged, moved, faults>>
    /\ At(t, pc[t], "lock") /\ pc[t] \in {"store", "conclude"} /\ Same(t)
    /\ object \in Objects /\ object.permit = req[t].permit /\ object.after = acknowledged
    /\ DOMAIN objects' = DOMAIN objects \union {Len(objects) + 1} /\ Grown
    /\ objects'[Len(objects) + 1] = object /\ Len(objects) + 1 \notin DOMAIN objects
    /\ req'[t].draft = Draft(Len(objects) + 1, object.permit, object.state, clock')
Numbers(t) ==
    /\ UNCHANGED <<lines, ended, rows, objects, acknowledged, moved, faults>>
    /\ At(t, "lock", "write") /\ Same(t) /\ Readable(lines) /\ ledgerLock[Host[t]] = None
    /\ req'[t].draft = req[t].draft
    /\ req'[t].event = NextEvent(Records(lines), req[t].draft)
Appends(t) ==
    /\ UNCHANGED <<req, rows, objects, acknowledged, moved, faults>>
    /\ At(t, "write", "insert") /\ Put(req[t].event, TRUE)
Loses(t) ==
    /\ UNCHANGED <<rows, objects, acknowledged, moved>> /\ faults' = faults + 1
    /\ \A u \in Threads : Stays(u) \/ Stops(u)
    /\ pc[t] = "write" /\ Stops(t) /\ WriteFails(req[t].event)
Copies(t) ==
    /\ UNCHANGED <<lines, ended, objects, moved, faults>>
    /\ pc[t] = "insert" /\ InsertRow(req[t].event)
    /\ \/ At(t, "insert", "advance") /\ UNCHANGED <<req, acknowledged>>
       \/ /\ Leaves(t) /\ req[t].kind # "denied"
          /\ acknowledged' = acknowledged \union {req[t].draft.object}
       \/ Leaves(t) /\ req[t].kind = "denied" /\ UNCHANGED acknowledged
Advances(t) ==
    /\ UNCHANGED <<lines, ended, rows, objects, faults>>
    /\ pc[t] = "advance" /\ Leaves(t) /\ req[t].kind # "denied"
    /\ acknowledged' = acknowledged \union {req[t].draft.object}
    /\ moved' = moved \union {req[t].draft.object}

Moves(t) ==
    \/ Denies(t) \/ (\E object \in Objects : Keeps(t, object)) \/ Numbers(t) \/ Appends(t)
    \/ Loses(t) \/ Copies(t) \/ Advances(t)

LEMMA LeavesStops == \A t \in Threads : Leaves(t) => Stops(t) /\ \A u \in Threads \ {t} : Stays(u)
  BY NoneApart DEF Leaves, Stops, Stays, Fixed, Idle, Drafted, Kinds

LEMMA BeginMoves ==
    ASSUME TypeInv, NEW t \in Threads, NEW kind \in Kinds, NEW p \in PermitIds,
           NEW receipt \in Receipts, NEW first, Begin(t, kind, p, receipt, first),
           \/ kind \in {"mint", "execute"} /\ first = "store"
           \/ /\ kind = "reconcile" /\ first = RoundAfter(0)
              /\ \E i \in DOMAIN objects : /\ objects[i].type = "execution"
                                           /\ p = objects[i].permit
                                           /\ receipt = objects[i].receipt
    PROVE  Quiet /\ clock' = clock
<1>1. first \in Steps /\ first \notin Drafted
  BY RoundSteps DEF Steps, Drafted
<1>2. At(t, "idle", first) /\ req'[t] = Asked(kind, p, receipt, None)
  BY <1>1, BeginEffects DEF TypeInv
<1>3. UNCHANGED <<lines, ended, rows, clock, objects, moved, acknowledged, faults>>
  BY DEF Begin, auditVars
<1>4. Stops(t) /\ pc[t] = "idle" /\ \A u \in Threads \ {t} : Stays(u)
  BY <1>1, <1>2 DEF Stops, Stays, At, Fixed, Asked
<1> QED BY <1>3, <1>4 DEF Quiet

LEMMA ObserveMoves ==
    ASSUME TypeInv, NEW t \in Threads, Observe(t)
    PROVE  Quiet /\ clock' = clock
<1>1. UNCHANGED <<lines, ended, rows, clock, objects, moved, acknowledged, faults>>
  BY DEF Observe, auditVars
<1>2. Stops(t) /\ pc[t] = "observe" /\ \A u \in Threads \ {t} : Stays(u)
  <2>1. pc[t] = "observe" /\ LocalOK(t)
    BY ObserveEffects DEF TypeInv
  <2>2. CASE Leaves(t)
    BY <2>1, <2>2, LeavesStops
  <2>3. CASE At(t, "observe", RoundAfter(Len(req[t].attestations) + 1)) /\ Same(t)
    BY <2>1, <2>3, RoundSteps DEF At, Fixed, Stays, Stops, Same, LocalOK, Drafted
  <2> QED BY <2>1, <2>2, <2>3, ObserveEffects DEF TypeInv
<1> QED BY <1>1, <1>2 DEF Quiet

LEMMA StoreMoves ==
    ASSUME TypeInv, NEW t \in Threads, NEW object \in Objects, NEW met \in BOOLEAN,
           Store(t, object, met), pc[t] \in {"store", "conclude"},
           object.permit = req[t].permit, object.after = acknowledged,
           UNCHANGED <<pullVars, lines, ended, rows, ledgerLock, moved, acknowledged, requests>>
    PROVE  Keeps(t, object) /\ clock <= clock'
<1>0. clock <= clock'
  BY TimestampTypes DEF Store, TypeInv
<1>1. UNCHANGED <<lines, ended, rows, acknowledged, moved, faults>>
  BY DEF Store
<1>2. /\ At(t, pc[t], "lock") /\ Same(t) /\ Len(objects) \in Nat
      /\ DOMAIN objects = 1..Len(objects)
      /\ DOMAIN objects' = DOMAIN objects \union {Len(objects) + 1} /\ Grown
      /\ objects'[Len(objects) + 1] = object
      /\ req'[t].draft = Draft(Len(objects) + 1, object.permit, object.state, clock')
  BY StoreEffects DEF TypeInv, Grown
<1>3. Len(objects) + 1 \notin DOMAIN objects
  BY <1>2
<1> QED BY <1>0, <1>1, <1>2, <1>3 DEF Keeps

LEMMA StoreFailsMoves ==
    ASSUME TypeInv, NEW t \in Threads, StoreFails(t), pc[t] \in {"store", "conclude"},
           UNCHANGED <<pullVars, lines, ended, rows, ledgerLock, moved, acknowledged, requests>>
    PROVE  Quiet /\ clock' = clock
<1>1. UNCHANGED <<lines, ended, rows, clock, objects, moved, acknowledged>> /\ faults' = faults + 1
  BY DEF StoreFails, Fault
<1>2. Leaves(t)
  BY StoreFailsTypes
<1> QED BY <1>1, <1>2, LeavesStops DEF Quiet

LEMMA StepMoves ==
    ASSUME TypeInv, NEW t \in Threads, Step(t)
    PROVE  clock <= clock' /\ (Quiet \/ Moves(t))
<1>0. clock' = clock => clock <= clock'
  BY DEF TypeInv, StoreOK
<1>1. CASE StorePermit(t) \/ StoreExecution(t)
  <2>1. pc[t] = "store"
        /\ UNCHANGED <<pullVars, lines, ended, rows, ledgerLock, moved, acknowledged, requests>>
    BY <1>1 DEF StorePermit, StoreExecution
  <2>2. ASSUME NEW object \in {Permit(req[t].permit), Execution(req[t].permit, req[t].receipt)},
               Store(t, object, FALSE)
        PROVE  clock <= clock' /\ Moves(t)
    <3>1. object \in Objects /\ object.permit = req[t].permit /\ object.after = acknowledged
      <4>1. CASE object = Permit(req[t].permit)
        BY <2>1, <4>1, StoredTypes DEF Permit, Object
      <4>2. CASE object = Execution(req[t].permit, req[t].receipt)
        BY <2>1, <4>2, StoredTypes DEF Execution, Object
      <4> QED BY <2>2, <4>1, <4>2
    <3> QED BY <2>1, <2>2, <3>1, StoreMoves DEF Moves
  <2>3. CASE StoreFails(t)
    BY <1>0, <2>1, <2>3, StoreFailsMoves
  <2> QED BY <1>1, <2>2, <2>3 DEF StorePermit, StoreExecution
<1>2. CASE Conclude(t)
  <2>1. pc[t] = "conclude"
        /\ UNCHANGED <<pullVars, lines, ended, rows, ledgerLock, moved, acknowledged, requests>>
    BY <1>2 DEF Conclude
  <2>2. ASSUME NEW met \in BOOLEAN, NEW state \in {"RECONCILED", "RECONCILIATION_FAILED"},
               Store(t, ReconciliationOf(req[t].permit, state), met)
        PROVE  clock <= clock' /\ Moves(t)
    <3> DEFINE object == ReconciliationOf(req[t].permit, state)
    <3>1. object \in Objects /\ object.permit = req[t].permit /\ object.after = acknowledged
      BY <2>1, StoredTypes DEF ReconciliationOf, Object, States
    <3> HIDE DEF object
    <3>2. Store(t, object, met)
      BY <2>2 DEF object
    <3> QED BY <2>1, <3>1, <3>2, StoreMoves DEF Moves
  <2>3. CASE StoreFails(t)
    BY <1>0, <2>1, <2>3, StoreFailsMoves
  <2>4. QuorumMet(req[t].attestations) \in BOOLEAN
    BY DEF QuorumMet
  <2> QED BY <1>2, <2>2, <2>3, <2>4 DEF Conclude
<1>3. CASE Observe(t)
  BY <1>0, <1>3, ObserveMoves
<1>4. CASE Lock(t)
  <2>1. UNCHANGED <<lines, ended, rows, clock, objects, moved, acknowledged, faults>>
    BY <1>4 DEF Lock
  <2>2. pc[t] = "lock" /\ (Leaves(t) \/ Numbers(t))
    BY <1>4, <2>1, LockEffects DEF TypeInv, Numbers, Acquire
  <2>3. Leaves(t) => Quiet
    BY <2>1, <2>2, LeavesStops DEF Quiet
  <2> QED BY <1>0, <2>1, <2>2, <2>3 DEF Moves
<1>5. CASE Write(t)
  <2>1. UNCHANGED <<rows, clock, objects, moved, acknowledged>> /\ pc[t] = "write"
    BY <1>5 DEF Write
  <2>2. CASE WriteLine(req[t].event) /\ Goto(t, "write", "insert") /\ UNCHANGED <<req, faults>>
    <3>1. At(t, "write", "insert")
      BY <2>2, GotoEffects DEF TypeInv, AllSteps, Steps
    <3> QED BY <1>0, <2>1, <2>2, <3>1 DEF WriteLine, Appends, Moves
  <2>3. CASE WriteFails(req[t].event) /\ Fault /\ End(t)
    <3>1. Leaves(t) /\ faults' = faults + 1
      BY <2>3, EndEffects DEF TypeInv, Fault
    <3> QED BY <1>0, <2>1, <2>3, <3>1, LeavesStops DEF Loses, Moves
  <2> QED BY <1>5, <2>2, <2>3 DEF Write
<1>6. CASE Insert(t)
  <2>1. UNCHANGED <<lines, ended, clock, objects, moved>> /\ pc[t] = "insert"
    BY <1>6 DEF Insert
  <2>2. Acknowledge(t) \/ Raise(t) => Leaves(t)
    BY EndEffects DEF TypeInv, Acknowledge, Raise
  <2>3. Goto(t, "insert", "advance") /\ UNCHANGED req => At(t, "insert", "advance")
    BY GotoEffects DEF TypeInv, AllSteps, Steps
  <2>4. CASE InsertRow(req[t].event) /\ UNCHANGED faults
             /\ \/ req[t].met /\ Goto(t, "insert", "advance") /\ UNCHANGED <<req, acknowledged>>
                \/ req[t].kind # "denied" /\ ~req[t].met /\ Acknowledge(t)
                \/ req[t].kind = "denied" /\ Raise(t)
    <3>1. Copies(t)
      BY <2>1, <2>2, <2>3, <2>4 DEF Copies, Acknowledge, Raise
    <3> QED BY <1>0, <2>1, <3>1 DEF Moves
  <2>5. CASE ~Insertable(req[t].event) /\ Raise(t) /\ UNCHANGED <<rows, faults>>
    BY <1>0, <2>1, <2>2, <2>5, LeavesStops DEF Raise, Quiet
  <2>6. CASE Fault /\ Raise(t) /\ UNCHANGED rows
    BY <1>0, <2>1, <2>2, <2>6, LeavesStops DEF Raise, Quiet, Fault
  <2> QED BY <1>6, <2>4, <2>5, <2>6 DEF Insert
<1>7. CASE Advance(t)
  <2>1. UNCHANGED <<lines, ended, rows, clock, objects>> /\ pc[t] = "advance"
    BY <1>7 DEF Advance, auditVars
  <2>2. Acknowledge(t) \/ Raise(t) => Leaves(t)
    BY EndEffects DEF TypeInv, Acknowledge, Raise
  <2>3. req[t].kind # "denied"
    <3>1. LocalOK(t)
      BY DEF TypeInv
    <3> QED BY <2>1, <3>1 DEF LocalOK
  <2>4. CASE moved' = moved \union {req[t].draft.object} /\ Acknowledge(t) /\ UNCHANGED faults
    BY <1>0, <2>1, <2>2, <2>3, <2>4 DEF Advances, Moves, Acknowledge
  <2>5. CASE Fault /\ Raise(t) /\ UNCHANGED moved
    BY <1>0, <2>1, <2>2, <2>5, LeavesStops DEF Raise, Quiet, Fault
  <2> QED BY <1>7, <2>4, <2>5 DEF Advance
<1> QED BY <1>1, <1>2, <1>3, <1>4, <1>5, <1>6, <1>7 DEF Step

LEMMA CrashMoves ==
    ASSUME TypeInv, NEW h \in Processes, Crash(h)
    PROVE  clock' = clock /\ (Quiet \/ \E t \in Threads : Loses(t))
<1> DEFINE lost == {t \in Threads : Host[t] = h /\ pc[t] # "idle"}
<1>1. /\ UNCHANGED <<rows, clock, objects, moved, acknowledged>> /\ faults' = faults + 1
      /\ pc' = [t \in Threads |-> IF t \in lost THEN "idle" ELSE pc[t]]
      /\ req' = [t \in Threads |-> IF t \in lost THEN Idle ELSE req[t]]
  BY DEF Crash, Fault
<1>2. \A u \in Threads : (u \in lost => Stops(u)) /\ (u \notin lost => Stays(u))
  BY <1>1, NoneApart DEF Stops, Stays, Idle, Drafted, Kinds
<1>3. CASE UNCHANGED <<lines, ended>>
  BY <1>1, <1>2, <1>3 DEF Quiet
<1>4. ASSUME NEW t \in lost, pc[t] = "write", WriteFails(req[t].event) PROVE Loses(t)
  BY <1>1, <1>2, <1>4 DEF Loses
<1> QED BY <1>1, <1>3, <1>4 DEF Crash

\* Every step is one of these.
LEMMA NextMoves ==
    ASSUME TypeInv, [Next]_vars
    PROVE  clock <= clock' /\ (Quiet \/ \E t \in Threads : Moves(t))
<1> USE DEF Quiet, Stays
<1>0. clock \in Int
  BY DEF TypeInv, StoreOK
<1>1. ASSUME NEW t \in Threads, NEW p \in PermitIds, NEW receipt \in Receipts,
             BeginMint(t, p) \/ BeginExecute(t, p, receipt)
      PROVE  Quiet /\ clock' = clock
  <2>1. {"mint", "execute"} \subseteq Kinds /\ NoClaim \in Receipts
    BY DEF Kinds, Receipts
  <2> QED BY <1>1, <2>1, BeginMoves DEF BeginMint, BeginExecute
<1>2. ASSUME NEW t \in Threads, NEW i \in DOMAIN objects, BeginReconcile(t, i)
      PROVE  Quiet /\ clock' = clock
  <2>1. objects[i].permit \in PermitIds /\ objects[i].receipt \in Receipts
    BY ObjectTypes DEF Objects
  <2>2. "reconcile" \in Kinds
    BY DEF Kinds
  <2> QED BY <1>2, <2>1, <2>2, BeginMoves DEF BeginReconcile
<1>3. ASSUME NEW t \in Threads, BeginDenied(t)
      PROVE  Denies(t) /\ clock <= clock'
  <2>1. UNCHANGED <<lines, ended, rows, objects, moved, acknowledged, faults>> /\ clock <= clock'
    BY <1>3, TimestampTypes DEF BeginDenied, TypeInv
  <2>2. At(t, "idle", "lock") /\ req'[t].kind = "denied"
        /\ req'[t].draft = Draft(None, None, None, clock')
    BY <1>3, DeniedEffects DEF TypeInv, Asked
  <2> QED BY <2>1, <2>2 DEF Denies
<1>4. ASSUME NEW t \in Threads, Step(t)
      PROVE  clock <= clock' /\ (Quiet \/ Moves(t))
  BY <1>4, StepMoves
<1>5. ASSUME NEW h \in Processes, Crash(h)
      PROVE  clock' = clock /\ (Quiet \/ \E t \in Threads : Moves(t))
  BY <1>5, CrashMoves DEF Moves
<1>6. ASSUME Provider \/ UNCHANGED vars
      PROVE  Quiet /\ clock' = clock
  BY <1>6 DEF Provider, vars, auditVars, requestVars
<1>7. (clock' = clock => clock <= clock') /\ NoClaim \in Receipts
  BY <1>0 DEF Receipts
<1> QED BY <1>1, <1>2, <1>3, <1>4, <1>5, <1>6, <1>7 DEF Next, Moves

-----------------------------------------------------------------------------
(* The rows are copies of what is in the file *)

\* MarkersApart does not ask too much: there are such constants.
LEMMA MarkersCanBeApart ==
    ASSUME Torn = <<>>, None = <<>>
    PROVE  MarkersApart
<1> SUFFICES ASSUME NEW sequence, NEW body, NEW previous
             PROVE  /\ Hashed("entry", sequence, body, previous) # Torn
                    /\ Hashed("entry", sequence, body, previous).hash # None
  BY DEF MarkersApart
<1>1. /\ "format" \in DOMAIN Hashed("entry", sequence, body, previous)
      /\ "body" \in DOMAIN Hashed("entry", sequence, body, previous).hash
  BY DEF Hashed
<1>2. DOMAIN <<>> = {}
  OBVIOUS
<1> QED BY <1>1, <1>2

IsEvent(e) ==
    /\ e = Hashed("entry", e.sequence, e.body, e.previous)
    /\ e.sequence \in Nat \ {0} /\ e.body \in Drafts

TrailInv ==
    /\ \A e \in Written : IsEvent(e) /\ Describes(e.body)
    /\ rows \subseteq Written /\ IsFiniteSet(rows)
    /\ \A a, b \in rows : a.sequence = b.sequence => a = b
    /\ \A t \in Threads : pc[t] \in {"insert", "advance"} => req[t].event \in Written
    /\ \A t \in Threads : pc[t] = "advance" => req[t].event \in rows

\* The event a request has is one, and says what was drafted.
LEMMA EventOfRequest ==
    ASSUME TypeInv, NEW t \in Threads, pc[t] \in Numbered
    PROVE  /\ IsEvent(req[t].event) /\ Describes(req[t].event.body)
           /\ req[t].event.body = req[t].draft
           /\ MarkersApart => req[t].event # Torn /\ req[t].event.hash # None
<1>1. LocalOK(t) /\ pc[t] \in Drafted
  BY DEF TypeInv, Numbered, Drafted
<1>2. req[t].draft \in Drafts
  BY <1>1, LocalTypes DEF TypeInv, LocalOK
<1> DEFINE event == req[t].event
<1>3. event = Hashed("entry", event.sequence, req[t].draft, event.previous)
      /\ event.sequence \in Nat \ {0}
  BY <1>1 DEF LocalOK
<1>4. event.body = req[t].draft
  BY <1>3 DEF Hashed
<1>5. MarkersApart => event # Torn /\ event.hash # None
  BY <1>3 DEF MarkersApart
<1> HIDE DEF event
<1> QED BY <1>1, <1>2, <1>3, <1>4, <1>5 DEF LocalOK, IsEvent, event

LEMMA DescribesOn == ASSUME Grown, NEW draft, Describes(draft) PROVE Describes(draft)'
  BY DEF Grown, Describes

\* No step takes an event out of the file; only one that appends puts one in.
LEMMA WrittenEffects ==
    ASSUME TypeInv, [Next]_vars
    PROVE  /\ Grown
           /\ \/ Written' = Written /\ UNCHANGED <<lines, ended>>
              \/ \E t \in Threads :
                    /\ pc[t] = "write" /\ Written \subseteq Written'
                    /\ Written' \subseteq Written \union {req[t].event}
                    /\ \/ Loses(t)
                       \/ Appends(t) /\ (MarkersApart => Written' = Written \union {req[t].event})
<1>1. Quiet \/ \E t \in Threads : Moves(t)
  BY NextMoves
<1>2. Grown
  BY <1>1 DEF Quiet, Moves, Denies, Keeps, Numbers, Appends, Loses, Copies, Advances, Grown
<1>3. UNCHANGED lines => Written' = Written
  BY DEF Written
<1>4. ASSUME NEW t \in Threads, Appends(t)
      PROVE  /\ pc[t] = "write" /\ Written \subseteq Written'
             /\ Written' \subseteq Written \union {req[t].event}
             /\ MarkersApart => Written' = Written \union {req[t].event}
  <2>1. pc[t] = "write" /\ Put(req[t].event, TRUE)
    BY <1>4 DEF Appends, At
  <2>2. Written' = Written \union ({req[t].event} \ {Torn})
    BY <2>1, PutEffects DEF TypeInv, StoreOK
  <2>3. MarkersApart => req[t].event # Torn
    BY <2>1, EventOfRequest DEF Numbered
  <2> QED BY <2>1, <2>2, <2>3
<1>5. ASSUME NEW t \in Threads, Loses(t)
      PROVE  /\ pc[t] = "write" /\ Written \subseteq Written'
             /\ Written' \subseteq Written \union {req[t].event}
  BY <1>5, WriteFailsEffects DEF TypeInv, StoreOK, Loses
<1>6. ASSUME NEW t \in Threads, ~Appends(t), ~Loses(t), Moves(t)
      PROVE  UNCHANGED <<lines, ended>>
  BY <1>6 DEF Moves, Denies, Keeps, Numbers, Copies, Advances
<1>7. Quiet => UNCHANGED <<lines, ended>>
  BY DEF Quiet
<1> QED BY <1>1, <1>2, <1>3, <1>4, <1>5, <1>6, <1>7

LEMMA TrailInit == Init => TrailInv
<1> SUFFICES ASSUME Init PROVE TrailInv
  OBVIOUS
<1>1. Written = {} /\ rows = {}
  BY DEF Init, AuditInit, Written
<1>2. \A t \in Threads : pc[t] = "idle"
  BY DEF Init
<1> QED BY <1>1, <1>2, FS_EmptySet DEF TrailInv

LEMMA TrailStep ==
    ASSUME MarkersApart, TypeInv, TypeInv', TrailInv, [Next]_vars
    PROVE  TrailInv'
<1>1. ASSUME NEW e \in Written' PROVE IsEvent(e) /\ Describes(e.body)'
  <2>1. e \in Written \/ \E t \in Threads : pc[t] = "write" /\ e = req[t].event
    BY WrittenEffects
  <2>2. IsEvent(e) /\ Describes(e.body)
    BY <2>1, EventOfRequest DEF TrailInv, Numbered
  <2> QED BY <2>2, WrittenEffects, DescribesOn
<1>2. Written \subseteq Written'
  BY WrittenEffects
<1>3. \/ UNCHANGED rows
      \/ \E t \in Threads : Copies(t)
  BY NextMoves DEF Quiet, Moves, Denies, Keeps, Numbers, Appends, Loses, Advances
<1>4. rows' \subseteq Written' /\ IsFiniteSet(rows') /\ rows \subseteq rows'
      /\ \A a, b \in rows' : a.sequence = b.sequence => a = b
  <2>1. ASSUME NEW t \in Threads, Copies(t)
        PROVE  rows' \subseteq Written' /\ IsFiniteSet(rows') /\ rows \subseteq rows'
               /\ \A a, b \in rows' : a.sequence = b.sequence => a = b
    <3>1. rows' = rows \union {req[t].event} /\ pc[t] = "insert"
          /\ \A row \in rows : row.sequence # req[t].event.sequence
      BY <2>1 DEF Copies, InsertRow, Insertable
    <3>2. req[t].event \in Written
      BY <3>1 DEF TrailInv
    <3>3. IsFiniteSet(rows')
      BY <3>1, FS_AddElement DEF TrailInv
    <3> QED BY <1>2, <3>1, <3>2, <3>3 DEF TrailInv
  <2> QED BY <1>2, <1>3, <2>1 DEF TrailInv
<1>5. ASSUME NEW u \in Threads, pc'[u] \in {"insert", "advance"}
      PROVE  /\ req'[u].event \in Written'
             /\ pc'[u] = "advance" => req'[u].event \in rows'
  <2>1. CASE Stays(u)
    BY <1>2, <1>4, <1>5, <2>1 DEF Stays, TrailInv
  <2>2. CASE ~Stays(u)
    <3>1. ~Stops(u) /\ ~Leaves(u)
      BY <1>5, LeavesStops DEF Stops, Drafted
    <3>2. PICK t \in Threads : Moves(t)
      BY <2>2, <3>1, NextMoves DEF Quiet
    <3>3. u = t
      BY <2>2, <3>1, <3>2 DEF Moves, Denies, Keeps, Numbers, Appends, Loses, Copies, Advances,
                              At, Leaves, Fixed, Stays
    <3>4. CASE Appends(t)
      <4>1. pc'[t] = "insert" /\ req'[t] = req[t] /\ pc[t] = "write"
        BY <3>4 DEF Appends, At
      <4>2. ~Copies(t) /\ ~Loses(t) /\ UNCHANGED req
        BY <3>4, <4>1, <3>1, <3>3 DEF Copies, Loses, Appends
      <4>3. Put(req[t].event, TRUE) /\ req[t].event # Torn /\ FileOK
        BY <3>4, <4>1, EventOfRequest DEF Appends, Numbered, TypeInv, StoreOK
      <4>4. Written' = Written \union ({req[t].event} \ {Torn})
        BY <4>3, PutEffects
      <4> QED BY <3>3, <4>1, <4>3, <4>4
    <3>5. CASE Copies(t)
      <4>1. pc'[t] = "advance" /\ req'[t] = req[t] /\ pc[t] = "insert"
            /\ rows' = rows \union {req[t].event}
        BY <3>1, <3>3, <3>5 DEF Copies, At, InsertRow
      <4> QED BY <1>4, <3>3, <4>1
    <3>6. ~Denies(t) /\ (\A object \in Objects : ~Keeps(t, object)) /\ ~Numbers(t) /\ ~Loses(t)
          /\ ~Advances(t)
      BY <1>5, <3>1, <3>3 DEF Denies, Keeps, Numbers, Loses, Advances, At
    <3> QED BY <3>2, <3>4, <3>5, <3>6 DEF Moves
  <2> QED BY <2>1, <2>2
<1>6. (\A e \in Written : IsEvent(e) /\ Describes(e.body))'
  BY <1>1 DEF IsEvent
<1>7. (\A t \in Threads : pc[t] \in {"insert", "advance"} => req[t].event \in Written)'
  BY <1>5
<1>8. (\A t \in Threads : pc[t] = "advance" => req[t].event \in rows)'
  BY <1>5
<1> QED BY <1>4, <1>6, <1>7, <1>8 DEF TrailInv

LEMMA TrailInvariant ==
    ASSUME MarkersApart
    PROVE  Spec => [](TypeInv /\ TrailInv)
<1>1. Init => TypeInv /\ TrailInv
  BY TypeInit, TrailInit
<1>2. (TypeInv /\ TrailInv) /\ [Next]_vars => (TypeInv /\ TrailInv)'
  BY TypeStep, TrailStep
<1> QED BY <1>1, <1>2, PTL DEF Spec

-----------------------------------------------------------------------------
(* An object has one event *)

Drafting(t, i) == pc[t] \in Drafted /\ req[t].draft.object = i
Recorded(i) == \E row \in rows : row.body.object = i

OnceInv ==
    /\ \A i \in DOMAIN objects : \A t, u \in Threads : Drafting(t, i) /\ Drafting(u, i) => t = u
    /\ \A i \in DOMAIN objects : \A a, b \in Written :
          a.body.object = i /\ b.body.object = i => a = b
    /\ \A t \in Threads : pc[t] \in {"lock", "write"} =>
          \A e \in Written : e.body.object # None => e.body.object # req[t].draft.object
    /\ \A i \in acknowledged \union moved : Recorded(i)

\* Who is not where it was is the one that moves.
LEMMA MoverMoves ==
    ASSUME TypeInv, [Next]_vars, NEW u \in Threads, ~Stays(u), pc'[u] \in Drafted
    PROVE  \/ Denies(u) \/ (\E object \in Objects : Keeps(u, object)) \/ Numbers(u) \/ Appends(u)
           \/ Copies(u) /\ At(u, "insert", "advance") /\ UNCHANGED req
<1>1. ~Stops(u) /\ ~Leaves(u)
  BY LeavesStops DEF Stops
<1>2. PICK t \in Threads : Moves(t)
  BY <1>1, NextMoves DEF Quiet
<1>3. u = t
  BY <1>1, <1>2 DEF Moves, Denies, Keeps, Numbers, Appends, Loses, Copies, Advances, At, Leaves,
                    Fixed, Stays
<1> QED BY <1>1, <1>2, <1>3 DEF Moves, Loses, Copies, Advances

\* An object is drafted by who did so before, or by who has just stored it.
LEMMA DraftingWas ==
    ASSUME TypeInv, [Next]_vars, NEW u \in Threads, NEW i \in DOMAIN objects', Drafting(u, i)'
    PROVE  \/ /\ Drafting(u, i) /\ req'[u].draft = req[u].draft /\ i \in DOMAIN objects
              /\ pc'[u] \in {"lock", "write"} => pc[u] \in {"lock", "write"}
           \/ \E object \in Objects : /\ Keeps(u, object) /\ i = Len(objects) + 1
                                      /\ i \notin DOMAIN objects
<1>0. i # None
  <2>1. i \in Nat
    BY TypeStep DEF TypeInv, StoreOK
  <2> QED BY <2>1, NoneApart
<1>1. Drafting(u, i) => i \in DOMAIN objects
  <2>1. LocalOK(u)
    BY DEF TypeInv
  <2> QED BY <1>0, <2>1 DEF Drafting, LocalOK, Describes
<1>2. CASE Stays(u)
  BY <1>1, <1>2 DEF Stays, Drafting
<1>3. CASE Denies(u)
  <2>1. req'[u].draft.object = None
    BY <1>3 DEF Denies, Draft
  <2> QED BY <1>0, <2>1 DEF Drafting
<1>4. ASSUME NEW object \in Objects, Keeps(u, object)
      PROVE  i = Len(objects) + 1 /\ i \notin DOMAIN objects
  BY <1>4 DEF Keeps, Draft, Drafting
<1>5. CASE Numbers(u)
  BY <1>1, <1>5 DEF Numbers, At, Drafting, Drafted
<1>6. CASE Appends(u)
  BY <1>1, <1>6 DEF Appends, At, Drafting, Drafted
<1>7. CASE At(u, "insert", "advance") /\ UNCHANGED req
  BY <1>1, <1>7 DEF At, Drafting, Drafted
<1> QED BY <1>2, <1>3, <1>4, <1>5, <1>6, <1>7, MoverMoves DEF Drafting

LEMMA OnceInit == Init => OnceInv
<1> SUFFICES ASSUME Init PROVE OnceInv
  OBVIOUS
<1>1. Written = {} /\ objects = <<>> /\ acknowledged \union moved = {}
  BY DEF Init, AuditInit, Written
<1>2. \A t \in Threads : pc[t] = "idle"
  BY DEF Init
<1> QED BY <1>1, <1>2 DEF OnceInv

LEMMA OnceStep ==
    ASSUME MarkersApart, TypeInv, TypeInv', TrailInv, TrailInv', OnceInv, [Next]_vars
    PROVE  OnceInv'
<1>1. ASSUME NEW i \in DOMAIN objects', NEW t \in Threads, NEW u \in Threads,
             Drafting(t, i)', Drafting(u, i)'
      PROVE  t = u
  <2>1. CASE \E object \in Objects : Keeps(t, object)
    <3>1. ~Drafting(t, i) /\ (t # u => ~\E object \in Objects : Keeps(u, object))
      BY <2>1 DEF Keeps, Drafting, Drafted, At, Fixed
    <3> QED BY <1>1, <3>1, DraftingWas
  <2>2. CASE \E object \in Objects : Keeps(u, object)
    <3>1. ~Drafting(u, i) /\ (t # u => ~\E object \in Objects : Keeps(t, object))
      BY <2>2 DEF Keeps, Drafting, Drafted, At, Fixed
    <3> QED BY <1>1, <3>1, DraftingWas
  <2>3. CASE Drafting(t, i) /\ Drafting(u, i) /\ i \in DOMAIN objects
    BY <2>3 DEF OnceInv
  <2> QED BY <1>1, <2>1, <2>2, <2>3, DraftingWas
<1>2. ASSUME NEW i \in DOMAIN objects', NEW a \in Written', NEW b \in Written',
             a.body.object = i, b.body.object = i
      PROVE  a = b
  <2>1. i # None
    BY TypeStep, NoneApart DEF TypeInv, StoreOK
  <2>2. \A e \in Written : e.body.object = i => i \in DOMAIN objects
    BY <2>1 DEF TrailInv, Describes
  <2>3. ASSUME NEW t \in Threads, pc[t] = "write", NEW e \in Written, e.body.object = i
        PROVE  req[t].event.body.object # i
    BY <2>1, <2>3, EventOfRequest DEF OnceInv, Numbered
  <2> QED BY <1>2, <2>2, <2>3, WrittenEffects DEF OnceInv
<1>3. ASSUME NEW u \in Threads, pc'[u] \in {"lock", "write"},
             NEW e \in Written', e.body.object # None, e.body.object = req'[u].draft.object
      PROVE  FALSE
  <2> DEFINE i == e.body.object
  <2>1. i \in DOMAIN objects' /\ Drafting(u, i)'
    BY <1>3 DEF TrailInv, Describes, Drafting, Drafted
  <2>2. CASE \E object \in Objects : Keeps(u, object) /\ i \notin DOMAIN objects
    <3>1. e \in Written
      BY <2>2 DEF Keeps, Written
    <3> QED BY <1>3, <2>2, <3>1 DEF TrailInv, Describes
  <2>3. CASE Drafting(u, i) /\ req'[u].draft = req[u].draft /\ i \in DOMAIN objects
             /\ pc[u] \in {"lock", "write"}
    <3>1. e \notin Written
      BY <1>3, <2>3 DEF OnceInv
    <3>2. PICK t \in Threads : pc[t] = "write" /\ e = req[t].event /\ (Loses(t) \/ Appends(t))
      BY <3>1, WrittenEffects
    <3>3. Drafting(t, i)
      BY <3>2, EventOfRequest DEF Drafting, Drafted, Numbered
    <3>4. t = u
      BY <2>3, <3>3 DEF OnceInv
    <3> QED BY <1>3, <3>2, <3>4 DEF Loses, Appends, Stops, Drafted, At
  <2> QED BY <1>3, <2>1, <2>2, <2>3, DraftingWas
<1>4. ASSUME NEW i \in (acknowledged \union moved)' PROVE Recorded(i)'
  <2>1. rows \subseteq rows'
    BY NextMoves DEF Quiet, Moves, Denies, Keeps, Numbers, Appends, Loses, Copies, Advances, InsertRow
  <2>2. CASE i \in acknowledged \union moved
    BY <2>1, <2>2 DEF OnceInv, Recorded
  <2>3. CASE i \notin acknowledged \union moved
    <3>1. PICK t \in Threads : (Copies(t) \/ Advances(t)) /\ i = req[t].draft.object
      BY <2>3, NextMoves DEF Quiet, Moves, Denies, Keeps, Numbers, Appends, Loses, Copies, Advances
    <3>2. pc[t] \in {"insert", "advance"} /\ req[t].event \in rows'
      BY <2>1, <3>1 DEF Copies, Advances, InsertRow, TrailInv
    <3>3. req[t].event.body.object = i
      BY <3>1, <3>2, EventOfRequest DEF Numbered
    <3> QED BY <3>2, <3>3 DEF Recorded
  <2> QED BY <2>2, <2>3
<1>5. (\A i \in DOMAIN objects : \A t, u \in Threads : Drafting(t, i) /\ Drafting(u, i) => t = u)'
  BY <1>1
<1>6. (\A i \in DOMAIN objects : \A a, b \in Written :
          a.body.object = i /\ b.body.object = i => a = b)'
  BY <1>2
<1>7. (\A t \in Threads : pc[t] \in {"lock", "write"} =>
          \A e \in Written : e.body.object # None => e.body.object # req[t].draft.object)'
  BY <1>3
<1>8. (\A i \in acknowledged \union moved : Recorded(i))'
  BY <1>4
<1> QED BY <1>5, <1>6, <1>7, <1>8 DEF OnceInv

\* What a client was told succeeded, and what moved the trust checkpoint on, is
\* stored and has exactly one event, in both stores, of its permit and state: for
\* any server processes that append to the same file and table.
THEOREM AcknowledgedAudited ==
    ASSUME MarkersApart
    PROVE  Spec => []AcknowledgedIsAudited
<1> DEFINE Inv == TypeInv /\ TrailInv /\ OnceInv
<1>1. Init => Inv
  BY TypeInit, TrailInit, OnceInit
<1>2. Inv /\ [Next]_vars => Inv'
  BY TypeStep, TrailStep, OnceStep
<1>3. Inv => AcknowledgedIsAudited
  <2> SUFFICES ASSUME Inv, NEW i \in acknowledged \union moved
               PROVE  LET events == {row \in rows : row.body.object = i}
                      IN /\ Cardinality(events) = 1 /\ events \subseteq Written
                         /\ \A event \in events : /\ event.body.permit = objects[i].permit
                                                  /\ event.body.state = objects[i].state
    BY DEF AcknowledgedIsAudited
  <2> DEFINE events == {row \in rows : row.body.object = i}
  <2>1. i \in DOMAIN objects /\ i # None
    BY ObjectTypes DEF TypeInv, StoreOK
  <2>2. PICK event \in rows : event.body.object = i
    BY DEF OnceInv, Recorded
  <2>3. events = {event} /\ events \subseteq Written
    BY <2>1, <2>2 DEF OnceInv, TrailInv
  <2>4. Cardinality(events) = 1
    BY <2>3, FS_Singleton
  <2>5. \A e \in events : e.body.permit = objects[i].permit /\ e.body.state = objects[i].state
    BY <2>1, <2>3 DEF TrailInv, Describes
  <2> QED BY <2>3, <2>4, <2>5
<1> QED BY <1>1, <1>2, <1>3, PTL DEF Spec

-----------------------------------------------------------------------------
(* The life-cycle report *)

Reported(p) == {row \in rows : row.body.permit = p /\ row.body.state # None}
Place(p, event) == Cardinality({e \in Reported(p) : Earlier(e, event)}) + 1

\* The events of a report have different places, one for each state of it.
LEMMA ReportPlaces ==
    ASSUME TrailInv, NEW p
    PROVE  LET n == Cardinality(Reported(p))
           IN /\ n \in Nat /\ (n = 0 <=> Reported(p) = {})
              /\ ReportedStates(p) =
                    [i \in 1..n |-> (CHOOSE e \in Reported(p) : Place(p, e) = i).body.state]
              /\ \A i \in 1..n : \E e \in Reported(p) : Place(p, e) = i
              /\ \A e \in Reported(p) : Place(p, e) \in 1..n
              /\ \A a, b \in Reported(p) : Place(p, a) = Place(p, b) => a = b
<1> DEFINE events == Reported(p)
           n == Cardinality(events)
           Before(e) == {d \in events : Earlier(d, e)}
           place == [e \in events |-> Place(p, e)]
<1>1. /\ IsFiniteSet(events) /\ n \in Nat /\ (n = 0 <=> events = {})
      /\ \A a, b \in events : a.sequence = b.sequence => a = b
      /\ \A e \in events : e.sequence \in Nat /\ e.body.observed_at \in Nat
  <2>1. IsFiniteSet(events)
    BY FS_Subset DEF TrailInv, Reported
  <2>2. \A e \in events : e.sequence \in Nat /\ e.body.observed_at \in Nat
    BY AuditAssumption DEF TrailInv, IsEvent, Drafts, Reported
  <2> QED BY <2>1, <2>2, FS_CardinalityType, FS_EmptySet DEF TrailInv, Reported
<1> HIDE DEF events
<1>0. \A e \in events : Printed(e.body.observed_at) \in Nat
  BY <1>1, AuditAssumption DEF Printed
<1>2. /\ \A a, b \in events : a = b \/ Earlier(a, b) \/ Earlier(b, a)
      /\ \A a \in events : ~Earlier(a, a)
      /\ \A a, b, c \in events : Earlier(a, b) /\ Earlier(b, c) => Earlier(a, c)
  <2>1. ASSUME NEW a \in events, NEW b \in events PROVE a = b \/ Earlier(a, b) \/ Earlier(b, a)
    BY <1>0, <1>1 DEF Earlier
  <2>2. ASSUME NEW a \in events PROVE ~Earlier(a, a)
    BY <1>0, <1>1 DEF Earlier
  <2>3. ASSUME NEW a \in events, NEW b \in events, NEW c \in events,
               Earlier(a, b), Earlier(b, c)
        PROVE  Earlier(a, c)
    BY <1>0, <1>1, <2>3 DEF Earlier
  <2> QED BY <2>1, <2>2, <2>3
<1>3. ASSUME NEW e \in events PROVE Cardinality(Before(e)) \in 0..(n - 1) /\ IsFiniteSet(Before(e))
  <2>1. Before(e) \subseteq events \ {e}
    BY <1>2
  <2>2. IsFiniteSet(events \ {e}) /\ Cardinality(events \ {e}) = n - 1
    BY <1>1, FS_RemoveElement
  <2>3. IsFiniteSet(Before(e)) /\ Cardinality(Before(e)) <= n - 1
    BY <2>1, <2>2, FS_Subset
  <2>4. Cardinality(Before(e)) \in Nat
    BY <2>3, FS_CardinalityType
  <2> QED BY <1>1, <2>3, <2>4
<1>4. \A e \in events : Place(p, e) = Cardinality(Before(e)) + 1 /\ Place(p, e) \in 1..n
  <2>1. \A e \in events : Place(p, e) = Cardinality(Before(e)) + 1
    BY DEF Place, events
  <2> QED BY <1>1, <1>3, <2>1
<1>5. ASSUME NEW a \in events, NEW b \in events, Earlier(a, b)
      PROVE  Place(p, a) # Place(p, b)
  <2>1. Before(a) \subseteq Before(b) /\ a \in Before(b) /\ a \notin Before(a)
    BY <1>2, <1>5
  <2>2. Before(b) # Before(a)
    BY <2>1
  <2> HIDE DEF Before
  <2>3. Cardinality(Before(a)) # Cardinality(Before(b))
    BY <1>3, <2>1, <2>2, FS_Subset
  <2> QED BY <1>3, <1>4, <2>3
<1>6. \A a, b \in events : Place(p, a) = Place(p, b) => a = b
  BY <1>2, <1>5
<1>7. \A i \in 1..n : \E e \in events : Place(p, e) = i
  <2>1. place \in [events -> 1..n]
    BY <1>4
  <2>2. place \in Injection(events, 1..n)
    BY <1>6, <2>1 DEF Injection, IsInjective
  <2>3. IsFiniteSet(1..n) /\ Cardinality(1..n) = n
    BY <1>1, FS_Interval
  <2>4. place \in Surjection(events, 1..n)
    BY <2>2, <2>3, FS_Injection
  <2> QED BY <2>4 DEF Surjection
<1>8. ReportedStates(p) = [i \in 1..n |-> (CHOOSE e \in events : Place(p, e) = i).body.state]
  BY DEF ReportedStates, Reported, Place, events
<1> QED BY <1>1, <1>4, <1>6, <1>7, <1>8 DEF events

-----------------------------------------------------------------------------
(* Events come after what was acknowledged before their object was stored *)

Precedes(c, i, time) == c.body.object = i /\ c.body.observed_at <= time

OrderInv ==
    /\ Readable(lines) => \A e \in Written : e.sequence <= Len(lines)
    /\ \A t \in Threads : pc[t] = "write" => req[t].event.sequence <= Len(lines) + 1
    /\ \A e \in Written : e.body.observed_at <= clock
    /\ \A t \in Threads : pc[t] \in Drafted => req[t].draft.observed_at <= clock
    /\ \A t \in Threads : pc[t] \in Drafted /\ req[t].draft.object # None =>
          \A i \in objects[req[t].draft.object].after :
             \E c \in rows : /\ Precedes(c, i, req[t].draft.observed_at)
                             /\ pc[t] \in Numbered => c.sequence < req[t].event.sequence
    /\ \A e \in Written : e.body.object # None =>
          \A i \in objects[e.body.object].after :
             \E c \in rows : Precedes(c, i, e.body.observed_at) /\ c.sequence < e.sequence

LEMMA OrderInit == Init => OrderInv
<1> SUFFICES ASSUME Init PROVE OrderInv
  OBVIOUS
<1>1. Written = {} /\ \A t \in Threads : pc[t] = "idle"
  BY DEF Init, AuditInit, Written
<1> QED BY <1>1 DEF OrderInv, Drafted

\* Numbers in the file: none is beyond its length, as long as it can be read.
LEMMA OrderNumbers ==
    ASSUME TypeInv, TypeInv', TrailInv', OrderInv, [Next]_vars
    PROVE  /\ (Readable(lines) => \A e \in Written : e.sequence <= Len(lines))'
           /\ (\A t \in Threads : pc[t] = "write" => req[t].event.sequence <= Len(lines) + 1)'
<1>1. FileOK /\ \A t \in Threads : pc[t] = "write" => req[t].event.sequence \in Nat
  BY EventOfRequest DEF TypeInv, StoreOK, Numbered, IsEvent
<1>2. /\ Len(lines) \in Nat /\ Len(lines') \in Nat /\ Len(lines) <= Len(lines')
      /\ Readable(lines)' => \/ UNCHANGED lines
                             \/ Readable(lines) /\ Len(lines') = Len(lines) + 1
  <2>1. CASE UNCHANGED lines
    BY <1>1, <2>1 DEF FileOK
  <2>2. ASSUME NEW t \in Threads, Loses(t) \/ Appends(t)
        PROVE  /\ Len(lines) \in Nat /\ Len(lines') \in Nat /\ Len(lines) <= Len(lines')
               /\ Readable(lines)' => \/ UNCHANGED lines
                                      \/ Readable(lines) /\ Len(lines') = Len(lines) + 1
    BY <1>1, <2>2, PutEffects, WriteFailsEffects DEF Loses, Appends
  <2> QED BY <2>1, <2>2, WrittenEffects
<1>3. ASSUME Readable(lines)', NEW e \in Written' PROVE e.sequence <= Len(lines')
  <2>0. e.sequence \in Nat
    BY DEF TrailInv, IsEvent
  <2>1. CASE UNCHANGED lines
    BY <1>3, <2>1 DEF OrderInv, Written
  <2>2. CASE Readable(lines) /\ Len(lines') = Len(lines) + 1
    <3>1. e \in Written \/ \E t \in Threads : pc[t] = "write" /\ e = req[t].event
      BY WrittenEffects
    <3>2. CASE e \in Written
      <4>1. e.sequence <= Len(lines)
        BY <2>2, <3>2 DEF OrderInv
      <4> QED BY <1>2, <2>0, <2>2, <4>1
    <3>3. CASE \E t \in Threads : pc[t] = "write" /\ e = req[t].event
      <4>1. e.sequence <= Len(lines) + 1
        BY <3>3 DEF OrderInv
      <4> QED BY <2>2, <4>1
    <3> QED BY <3>1, <3>2, <3>3
  <2> QED BY <1>2, <1>3, <2>1, <2>2
<1>4. ASSUME NEW u \in Threads, pc'[u] = "write"
      PROVE  req'[u].event.sequence <= Len(lines') + 1
  <2>1. CASE Stays(u)
    <3>1. pc[u] = "write" /\ req'[u] = req[u]
      BY <1>4, <2>1 DEF Stays
    <3>2. req[u].event.sequence <= Len(lines) + 1
      BY <3>1 DEF OrderInv
    <3> QED BY <1>1, <1>2, <3>1, <3>2
  <2>2. CASE Numbers(u)
    <3>1. /\ req'[u].event = NextEvent(Records(lines), req[u].draft)
          /\ Len(Records(lines)) = Len(lines) /\ UNCHANGED lines
      BY <1>1, <2>2, ReadableWritten DEF Numbers
    <3>2. req'[u].event.sequence = Len(lines') + 1
      BY <3>1 DEF NextEvent, Hashed
    <3> QED BY <1>2, <3>2
  <2> QED BY <1>4, <2>1, <2>2, MoverMoves DEF Drafted, Denies, Keeps, Appends, At
<1> QED BY <1>3, <1>4

\* Times: what is written or drafted is dated before the present.
LEMMA OrderTimes ==
    ASSUME TypeInv, TypeInv', TrailInv', OrderInv, [Next]_vars
    PROVE  /\ (\A e \in Written : e.body.observed_at <= clock)'
           /\ (\A t \in Threads : pc[t] \in Drafted => req[t].draft.observed_at <= clock)'
<1>1. clock \in Nat /\ clock' \in Nat /\ clock <= clock'
  BY NextMoves, AuditAssumption DEF TypeInv, StoreOK
<1>2. ASSUME NEW u \in Threads, pc'[u] \in Drafted
      PROVE  req'[u].draft.observed_at <= clock' /\ req'[u].draft.observed_at \in Nat
  <2>0. req'[u].draft.observed_at \in Nat
    <3>1. LocalOK(u)' /\ req'[u].draft \in Drafts \union {None}
      BY LocalTypes DEF TypeInv, ThreadOK, Requests
    <3>2. req'[u].draft \in Drafts
      BY <1>2, <3>1 DEF LocalOK
    <3> QED BY <3>2, AuditAssumption DEF Drafts
  <2>1. CASE pc[u] \in Drafted /\ req'[u].draft = req[u].draft
    <3>1. req[u].draft.observed_at <= clock
      BY <2>1 DEF OrderInv
    <3> QED BY <1>1, <2>0, <2>1, <3>1
  <2>2. CASE Denies(u) \/ \E object \in Objects : Keeps(u, object)
    <3>1. Denies(u) => req'[u].draft.observed_at = clock'
      BY DEF Denies, Draft
    <3>2. \A object \in Objects : Keeps(u, object) => req'[u].draft.observed_at = clock'
      BY DEF Keeps, Draft
    <3> QED BY <1>1, <2>0, <2>2, <3>1, <3>2
  <2>3. \/ pc[u] \in Drafted /\ req'[u].draft = req[u].draft
        \/ Denies(u) \/ \E object \in Objects : Keeps(u, object)
    BY <1>2, MoverMoves DEF Stays, Numbers, Appends, At, Drafted
  <2> QED BY <2>1, <2>2, <2>3
<1>3. ASSUME NEW e \in Written' PROVE e.body.observed_at <= clock'
  <2>0. e.body.observed_at \in Nat
    BY AuditAssumption DEF TrailInv, IsEvent, Drafts
  <2>1. e.body.observed_at <= clock
    <3>1. ASSUME NEW t \in Threads, pc[t] = "write" PROVE req[t].event.body.observed_at <= clock
      BY <3>1, EventOfRequest DEF OrderInv, Numbered, Drafted
    <3> QED BY <3>1, WrittenEffects DEF OrderInv
  <2> QED BY <1>1, <2>0, <2>1
<1> QED BY <1>2, <1>3

\* What is drafted is later than what was acknowledged when it was stored.
LEMMA OrderDrafts ==
    ASSUME TypeInv, TypeInv', TrailInv, TrailInv', OnceInv, OrderInv, [Next]_vars
    PROVE  (\A t \in Threads : pc[t] \in Drafted /\ req[t].draft.object # None =>
              \A i \in objects[req[t].draft.object].after :
                 \E c \in rows : /\ Precedes(c, i, req[t].draft.observed_at)
                                 /\ pc[t] \in Numbered => c.sequence < req[t].event.sequence)'
<1>1. rows \subseteq rows' /\ rows \subseteq Written
  BY NextMoves DEF Quiet, Moves, Denies, Keeps, Numbers, Appends, Loses, Copies, Advances,
                   InsertRow, TrailInv
<1>2. ASSUME NEW u \in Threads, pc'[u] \in Drafted, NEW d, d = req'[u].draft.object, d # None,
             NEW i \in objects'[d].after
      PROVE  \E c \in rows' : /\ Precedes(c, i, req'[u].draft.observed_at)
                              /\ pc'[u] \in Numbered => c.sequence < req'[u].event.sequence
  <2>1. CASE pc[u] \in Drafted /\ req'[u].draft = req[u].draft
    <3>1. d \in DOMAIN objects /\ objects'[d] = objects[d]
      <4>1. LocalOK(u) /\ Grown
        BY WrittenEffects DEF TypeInv
      <4> QED BY <1>2, <2>1, <4>1 DEF LocalOK, Describes, Grown
    <3>2. PICK c \in rows : /\ Precedes(c, i, req[u].draft.observed_at)
                            /\ pc[u] \in Numbered => c.sequence < req[u].event.sequence
      BY <1>2, <2>1, <3>1 DEF OrderInv
    <3>3. CASE Numbers(u)
      <4>1. c.sequence <= Len(lines) /\ c.sequence \in Nat
        BY <1>1, <3>3 DEF OrderInv, Numbers, TrailInv, IsEvent
      <4>2. req'[u].event = NextEvent(Records(lines), req[u].draft)
            /\ Len(Records(lines)) = Len(lines) /\ Len(lines) \in Nat
        BY <3>3, ReadableWritten DEF Numbers, TypeInv, StoreOK
      <4>3. req'[u].event.sequence = Len(lines) + 1
        BY <4>2 DEF NextEvent, Hashed
      <4>4. c.sequence < req'[u].event.sequence
        BY <4>1, <4>2, <4>3
      <4> QED BY <1>1, <2>1, <3>2, <4>4
    <3>4. CASE pc'[u] \in Numbered => pc[u] \in Numbered /\ req'[u].event = req[u].event
      BY <1>1, <2>1, <3>2, <3>4
    <3>5. Numbers(u) \/ (pc'[u] \in Numbered => pc[u] \in Numbered /\ req'[u].event = req[u].event)
      <4>1. ~Denies(u) /\ \A object \in Objects : ~Keeps(u, object)
        BY <2>1 DEF Denies, Keeps, At, Drafted
      <4> QED BY <1>2, <4>1, MoverMoves DEF Stays, Appends, At, Numbered
    <3> QED BY <3>3, <3>4, <3>5
  <2>2. ~Denies(u)
    <3> SUFFICES ASSUME Denies(u) PROVE FALSE
      OBVIOUS
    <3>1. req'[u].draft.object = None
      BY DEF Denies, Draft
    <3> QED BY <1>2, <3>1
  <2>3. ASSUME NEW object \in Objects, Keeps(u, object)
        PROVE  \E c \in rows' : /\ Precedes(c, i, req'[u].draft.observed_at)
                                /\ pc'[u] \in Numbered => c.sequence < req'[u].event.sequence
    <3>1. req'[u].draft.object = Len(objects) + 1 /\ req'[u].draft.observed_at = clock'
      BY <2>3 DEF Keeps, Draft
    <3>2. objects'[d] = object /\ object.after = acknowledged /\ pc'[u] \notin Numbered
      BY <1>2, <2>3, <3>1 DEF Keeps, At, Numbered
    <3>3. PICK c \in rows : c.body.object = i
      BY <1>2, <3>2 DEF OnceInv, Recorded
    <3>4. c.body.observed_at <= clock'
      <4>1. c.body.observed_at <= clock /\ c.body.observed_at \in Nat
        BY <1>1, AuditAssumption DEF OrderInv, TrailInv, IsEvent, Drafts
      <4>2. clock \in Nat /\ clock' \in Nat /\ clock <= clock'
        BY NextMoves, AuditAssumption DEF TypeInv, StoreOK
      <4> QED BY <4>1, <4>2
    <3> QED BY <1>1, <3>1, <3>2, <3>3, <3>4 DEF Precedes
  <2>4. \/ pc[u] \in Drafted /\ req'[u].draft = req[u].draft
        \/ Denies(u) \/ \E object \in Objects : Keeps(u, object)
    BY <1>2, MoverMoves DEF Stays, Numbers, Appends, At, Drafted
  <2> QED BY <2>1, <2>2, <2>3, <2>4
<1> QED BY <1>2 DEF Precedes

LEMMA OrderStep ==
    ASSUME TypeInv, TypeInv', TrailInv, TrailInv', OnceInv, OrderInv, [Next]_vars
    PROVE  OrderInv'
<1>1. rows \subseteq rows'
  BY NextMoves DEF Quiet, Moves, Denies, Keeps, Numbers, Appends, Loses, Copies, Advances, InsertRow
<1>2. ASSUME NEW e \in Written', e.body.object # None, NEW i \in objects'[e.body.object].after
      PROVE  \E c \in rows' : Precedes(c, i, e.body.observed_at) /\ c.sequence < e.sequence
  <2>1. CASE e \in Written
    <3>1. objects'[e.body.object] = objects[e.body.object]
      BY <1>2, <2>1, WrittenEffects DEF TrailInv, Describes, Grown
    <3> QED BY <1>1, <1>2, <2>1, <3>1 DEF OrderInv
  <2>2. ASSUME NEW t \in Threads, pc[t] = "write", e = req[t].event
        PROVE  \E c \in rows : Precedes(c, i, e.body.observed_at) /\ c.sequence < e.sequence
    <3>1. e.body = req[t].draft /\ pc[t] \in Drafted /\ pc[t] \in Numbered /\ Describes(e.body)
      BY <2>2, EventOfRequest DEF Numbered, Drafted
    <3>2. objects'[e.body.object] = objects[e.body.object]
      BY <1>2, <3>1, WrittenEffects DEF Describes, Grown
    <3> QED BY <1>2, <2>2, <3>1, <3>2 DEF OrderInv
  <2> QED BY <1>1, <2>1, <2>2, WrittenEffects
<1>3. (\A e \in Written : e.body.object # None =>
          \A i \in objects[e.body.object].after :
             \E c \in rows : Precedes(c, i, e.body.observed_at) /\ c.sequence < e.sequence)'
  BY <1>2 DEF Precedes
<1> QED BY <1>3, OrderNumbers, OrderTimes, OrderDrafts DEF OrderInv, Precedes

\* The life-cycle report keeps the order that clients saw: what was stored when a
\* request was already answered is reported after it, but for an event dated on a whole
\* second, which goes behind the later ones of that second.  This holds although events
\* are dated before they wait for the lock, and any server processes append to one file.
THEOREM ReportsFollowAnswers ==
    ASSUME MarkersApart
    PROVE  Spec => []ReportFollowsAnswers
<1> DEFINE Inv == TypeInv /\ TrailInv /\ OnceInv /\ OrderInv
<1>1. Init => Inv
  BY TypeInit, TrailInit, OnceInit, OrderInit
<1>2. Inv /\ [Next]_vars => Inv'
  BY TypeStep, TrailStep, OnceStep, OrderStep
<1>3. Inv => ReportFollowsAnswers
  <2> SUFFICES ASSUME Inv, NEW a \in rows, NEW b \in rows,
                      a.body.object # None, b.body.object # None,
                      a.body.object \in objects[b.body.object].after
               PROVE  \/ Earlier(a, b)
                      \/ /\ Whole(a.body.observed_at)
                         /\ a.body.observed_at < b.body.observed_at
                         /\ b.body.observed_at < a.body.observed_at + SecondTicks
    BY DEF ReportFollowsAnswers
  <2>1. a \in Written /\ b \in Written
    BY DEF TrailInv
  <2>2. PICK c \in rows : /\ Precedes(c, a.body.object, b.body.observed_at)
                          /\ c.sequence < b.sequence
    BY <2>1 DEF OrderInv
  <2>3. c = a
    <3>1. a.body.object \in DOMAIN objects /\ c \in Written
      BY <2>1 DEF TrailInv, Describes
    <3> QED BY <2>1, <2>2, <3>1 DEF OnceInv, Precedes
  <2>4. a.body.observed_at <= b.body.observed_at /\ a.sequence < b.sequence
    BY <2>2, <2>3 DEF Precedes
  <2>5. a.body.observed_at \in Nat /\ b.body.observed_at \in Nat /\ SecondTicks \in Nat \ {0}
    BY <2>1, AuditAssumption DEF TrailInv, IsEvent, Drafts
  <2>6. CASE Whole(a.body.observed_at) /\ ~Whole(b.body.observed_at)
    <3>1. a.body.observed_at # b.body.observed_at
      BY <2>6
    <3> QED BY <2>4, <2>5, <2>6, <3>1 DEF Earlier, Printed
  <2>7. CASE ~Whole(a.body.observed_at) \/ Whole(b.body.observed_at)
    BY <2>4, <2>5, <2>7 DEF Earlier, Printed
  <2> QED BY <2>6, <2>7
<1> QED BY <1>1, <1>2, <1>3, PTL DEF Spec

-----------------------------------------------------------------------------
(* What a quorum agrees on *)

\* At most one statement qualifies for a quorum that is met: the statement that
\* QuorumStatement names is the one the quorum is met for.
LEMMA StatementIsTheQuorums ==
    ASSUME NEW attestations, QuorumMet(attestations)
    PROVE  /\ QuorumStatement(attestations) \in Statements
           /\ QuorumMetFor(attestations, QuorumStatement(attestations))
    BY DEF QuorumMet, QuorumStatement

\* A quorum is witnessed: with fewer faulty signers than the threshold one of the
\* signers that agreed is not faulty, and did state it.
THEOREM QuorumsWitnessed ==
    ASSUME NEW attestations
    PROVE  Witnessed(attestations)
<1> SUFFICES ASSUME QuorumMet(attestations),
                    NEW faulty \in SUBSET Signers, Cardinality(faulty) < Threshold
             PROVE  \E s \in Signers \ faulty :
                        QuorumStatement(attestations) \in Stated(attestations, s)
    BY DEF Witnessed
<1> DEFINE st == QuorumStatement(attestations)
           group == Group(attestations, st)
<1>1. Cardinality(group) >= Threshold
    BY StatementIsTheQuorums DEF QuorumMetFor, Qualifies
<1>2. group \subseteq Signers
    BY DEF Group
<1>3. ~(group \subseteq faulty)
    <2> SUFFICES ASSUME group \subseteq faulty PROVE FALSE
        OBVIOUS
    <2>1. IsFiniteSet(faulty)
        BY QuorumAssumption, FS_Subset
    <2>2. Cardinality(group) <= Cardinality(faulty) /\ IsFiniteSet(group)
        BY <2>1, FS_Subset
    <2>3. Cardinality(group) \in Nat /\ Cardinality(faulty) \in Nat /\ Threshold \in Int
        BY <2>1, <2>2, FS_CardinalityType, QuorumAssumption
    <2> QED
        BY <1>1, <2>2, <2>3
<1>4. PICK s \in group : s \notin faulty
    BY <1>3
<1>5. Stated(attestations, s) = {st}
    BY <1>4 DEF Group
<1> QED
    BY <1>2, <1>4, <1>5

\* The rounds of Reconciliation are no others: with any number of observers, however
\* many of them lie, the statement a round agrees on has a witness.
THEOREM RoundsAreWitnessed == Spec => []QuorumsAreWitnessed
<1>1. QuorumsAreWitnessed
    BY QuorumsWitnessed DEF QuorumsAreWitnessed
<1> QED
    BY <1>1, PTL

-----------------------------------------------------------------------------
(* What is reported reconciled is so *)

TrueOf(statement) ==
    statement.merged => /\ merge # NoMerge
                        /\ statement.head = merge.head /\ statement.sha = merge.sha
Held(p) ==
    /\ merge # NoMerge /\ merge.head = Expected[p]
    /\ \E i \in DOMAIN objects : /\ objects[i].type = "execution" /\ objects[i].permit = p
                                 /\ objects[i].receipt.remote_operation_id = merge.sha

TruthInv ==
    /\ merge # NoMerge => merge.head = head
    /\ \A t \in Threads : \A k \in DOMAIN req[t].attestations :
          LET a == req[t].attestations[k]
          IN a.valid /\ a.signer \notin Faulty => TrueOf(a.statement)
    /\ \A t \in Threads : req[t].kind = "reconcile" =>
          \E i \in DOMAIN objects : /\ objects[i].type = "execution"
                                    /\ objects[i].permit = req[t].permit
                                    /\ objects[i].receipt = req[t].receipt
    /\ \A i \in DOMAIN objects : objects[i].state = "RECONCILED" => Held(objects[i].permit)

FewFaulty == Cardinality(Faulty) < Threshold

\* A pull request that is merged stays so, at the head it was merged at.
LEMMA MergeIsFinal ==
    ASSUME [Next]_vars
    PROVE  /\ merge # NoMerge => merge' = merge /\ head' = head
           /\ (merge # NoMerge => merge.head = head) => (merge' # NoMerge => merge'.head = head')
<1>1. CASE UNCHANGED <<head, merge>>
  BY <1>1
<1>2. CASE Provider
  BY <1>2 DEF Provider, Others, Push, ForeignMerge, DecidePut
<1>3. UNCHANGED <<head, merge>> \/ Provider
  BY DEF Next, BeginMint, BeginExecute, SendPut, BeginReconcile, BeginDenied, Step, StorePermit,
         StoreExecution, Observe, Conclude, Lock, Write, Insert, Advance, Crash, vars,
         pullVars
<1> QED BY <1>1, <1>2, <1>3

\* The answers of a round: only Observe adds one, and of an honest source it is what
\* that source sees at the time.
LEMMA RoundsGrow ==
    ASSUME TypeInv, [Next]_vars, NEW u \in Threads
    PROVE  \/ req'[u].attestations \in {req[u].attestations, <<>>}
           \/ /\ UNCHANGED pullVars /\ req[u].attestations \in Seq(Attested)
              /\ \E attestation \in Attested :
                    /\ attestation.valid /\ attestation.signer \notin Faulty =>
                          attestation.statement = Statement
                    /\ req'[u].attestations = Append(req[u].attestations, attestation)
<1>1. \A t \in Threads : Leaves(t) => req'[u].attestations \in {req[u].attestations, <<>>}
  BY DEF Leaves, Fixed, Idle
<1>2. ASSUME NEW t \in Threads, NEW kind \in Kinds, NEW p \in PermitIds,
             NEW receipt \in Receipts, NEW first \in Steps, Begin(t, kind, p, receipt, first)
      PROVE  req'[u].attestations \in {req[u].attestations, <<>>}
  <2>1. At(t, "idle", first) /\ req'[t] = Asked(kind, p, receipt, None)
    BY <1>2, BeginEffects DEF TypeInv
  <2> QED BY <2>1 DEF At, Fixed, Asked
<1>3. ASSUME NEW t \in Threads, BeginDenied(t)
      PROVE  req'[u].attestations \in {req[u].attestations, <<>>}
  BY <1>3, DeniedEffects DEF At, Fixed, Asked, TypeInv
<1>4. ASSUME NEW t \in Threads, Observe(t)
      PROVE  \/ req'[u].attestations \in {req[u].attestations, <<>>}
             \/ /\ UNCHANGED pullVars /\ req[u].attestations \in Seq(Attested)
                /\ \E attestation \in Attested :
                      /\ attestation.valid /\ attestation.signer \notin Faulty =>
                            attestation.statement = Statement
                      /\ req'[u].attestations = Append(req[u].attestations, attestation)
  <2>1. UNCHANGED pullVars
    BY <1>4 DEF Observe
  <2>2. req[u].attestations \in Seq(Attested)
    BY LocalTypes DEF TypeInv
  <2>3. CASE u # t
    BY <1>1, <1>4, <2>3, ObserveEffects DEF TypeInv, At, Fixed
  <2>4. CASE u = t
    BY <1>1, <1>4, <2>1, <2>2, <2>4, ObserveEffects DEF TypeInv
  <2> QED BY <2>3, <2>4
<1>5. ASSUME NEW t \in Threads, StorePermit(t) \/ StoreExecution(t) \/ Conclude(t) \/ Lock(t)
                                \/ Write(t) \/ Insert(t) \/ Advance(t)
      PROVE  req'[u].attestations \in {req[u].attestations, <<>>}
  <2>1. pc[t] # "observe" /\ pc[t] # "idle"
    BY <1>5 DEF StorePermit, StoreExecution, Conclude, Lock, Write, Insert, Advance, Goto
  <2>2. ThreadOK /\ \A v \in Threads : End(v) => Leaves(v)
    BY EndEffects DEF TypeInv
  <2>3. CASE u # t
    BY <1>1, <1>5, <2>2, <2>3 DEF StorePermit, StoreExecution, Conclude, Lock, Write, Insert,
          Advance, Store, StoreFails, Acknowledge, Raise, ThreadOK, Leaves, Fixed
  <2>4. CASE u = t
    <3>1. CASE Lock(t)
      BY <1>1, <2>2, <2>4, <3>1, LockEffects
    <3>2. CASE Write(t) \/ Insert(t) \/ Advance(t)
      BY <1>1, <2>2, <3>2 DEF Write, Insert, Advance, Acknowledge, Raise
    <3>3. ASSUME NEW object, NEW met, Store(t, object, met)
          PROVE  req'[u].attestations = <<>>
      BY <2>2, <2>4, <3>3 DEF Store, ThreadOK, Requests
    <3>4. CASE StorePermit(t) \/ StoreExecution(t) \/ Conclude(t)
      BY <1>1, <2>2, <3>3, <3>4 DEF StorePermit, StoreExecution, Conclude, StoreFails
    <3> QED BY <1>5, <3>1, <3>2, <3>4
  <2> QED BY <2>3, <2>4
<1>6. ASSUME NEW h \in Processes, Crash(h)
      PROVE  req'[u].attestations \in {req[u].attestations, <<>>}
  BY <1>6 DEF Crash, Idle
<1>7. CASE Provider \/ UNCHANGED vars
  BY <1>7 DEF Provider, vars, requestVars
<1>8. ASSUME NEW t \in Threads, NEW i \in DOMAIN objects, BeginReconcile(t, i)
      PROVE  req'[u].attestations \in {req[u].attestations, <<>>}
  BY <1>2, <1>8, ObjectTypes, RoundSteps DEF BeginReconcile, Objects, Kinds, Steps
<1>9. ASSUME NEW t \in Threads, NEW p \in PermitIds, NEW receipt \in Receipts,
             BeginMint(t, p) \/ BeginExecute(t, p, receipt)
      PROVE  req'[u].attestations \in {req[u].attestations, <<>>}
  BY <1>2, <1>9 DEF BeginMint, BeginExecute, Kinds, Steps, Receipts
<1>10. NoClaim \in Receipts
  BY DEF Receipts
<1> QED BY <1>3, <1>4, <1>5, <1>6, <1>7, <1>8, <1>9, <1>10 DEF Next, Step

\* A result RECONCILED is stored only on a quorum that confirms it.
LEMMA ReconciledIsConfirmed ==
    ASSUME TypeInv, [Next]_vars, NEW i \in DOMAIN objects', i \notin DOMAIN objects,
           objects'[i].state = "RECONCILED"
    PROVE  /\ UNCHANGED pullVars
           /\ \E t \in Threads :
                 /\ req[t].kind = "reconcile" /\ objects'[i].permit = req[t].permit
                 /\ QuorumMet(req[t].attestations)
                 /\ Confirms(req[t].permit, req[t].receipt, QuorumStatement(req[t].attestations))
<1>1. PICK t \in Threads : StorePermit(t) \/ StoreExecution(t) \/ Conclude(t)
  BY DEF Next, BeginMint, BeginExecute, BeginReconcile, BeginDenied, Begin, Step, Observe, Lock,
         Write, Insert, Advance, Crash, Provider, vars
<1>2. ASSUME NEW object \in Objects, NEW met \in BOOLEAN, Store(t, object, met)
      PROVE  objects'[i] = object
  BY <1>2, StoreEffects DEF TypeInv
<1>3. ~StoreFails(t)
  BY DEF StoreFails
<1>4. ~StorePermit(t) /\ ~StoreExecution(t)
  <2> SUFFICES ASSUME StorePermit(t) \/ StoreExecution(t) PROVE FALSE
    OBVIOUS
  <2>1. PICK object \in {Permit(req[t].permit), Execution(req[t].permit, req[t].receipt)} :
            object \in Objects /\ object.state # "RECONCILED" /\ Store(t, object, FALSE)
    BY <1>3, StoredTypes DEF StorePermit, StoreExecution, Permit, Execution, Object
  <2>2. Store(t, object, FALSE)
    BY <2>1
  <2>3. objects'[i] = object
    BY <1>2, <2>1, <2>2
  <2> QED BY <2>1, <2>3
<1>5. pc[t] = "conclude" /\ UNCHANGED pullVars /\ req[t].kind = "reconcile"
  BY <1>1, <1>4 DEF Conclude, TypeInv, LocalOK
<1> DEFINE met == QuorumMet(req[t].attestations)
           confirmed == met /\ Confirms(req[t].permit, req[t].receipt,
                                        QuorumStatement(req[t].attestations))
           state == IF confirmed THEN "RECONCILED" ELSE "RECONCILIATION_FAILED"
           object == ReconciliationOf(req[t].permit, state)
<1>6. Store(t, object, met)
  BY <1>1, <1>3, <1>4 DEF Conclude
<1>7. object \in Objects /\ met \in BOOLEAN
  BY <1>5, StoredTypes DEF States, QuorumMet
<1>8. objects'[i] = object
  BY <1>2, <1>6, <1>7
<1>9. object.permit = req[t].permit /\ object.state = state
  BY DEF ReconciliationOf, Object
<1>10. confirmed
  BY <1>8, <1>9
<1> QED BY <1>5, <1>8, <1>9, <1>10

LEMMA TruthInit == Init => TruthInv
<1> SUFFICES ASSUME Init PROVE TruthInv
  OBVIOUS
<1>1. objects = <<>> /\ merge = NoMerge
  BY DEF Init, PullInit
<1>2. \A t \in Threads : req[t] = Idle /\ None # "reconcile"
  BY NoneApart DEF Init, Kinds
<1> QED BY <1>1, <1>2 DEF TruthInv, Idle

LEMMA TruthStep ==
    ASSUME FewFaulty, TypeInv, TypeInv', TruthInv, [Next]_vars
    PROVE  TruthInv'
<1>0. Grown /\ (merge # NoMerge => merge' = merge /\ head' = head)
  BY WrittenEffects, MergeIsFinal
<1>1. ASSUME NEW statement, TrueOf(statement) PROVE TrueOf(statement)'
  BY <1>0, <1>1 DEF TrueOf
<1>2. ASSUME NEW p, Held(p) PROVE Held(p)'
  BY <1>0, <1>2 DEF Held, Grown
<1>3. ASSUME NEW u \in Threads, NEW k \in DOMAIN req'[u].attestations,
             NEW a, a = req'[u].attestations[k], a.valid, a.signer \notin Faulty
      PROVE  TrueOf(a.statement)'
  <2>1. ASSUME req'[u].attestations \in {req[u].attestations, <<>>} PROVE TrueOf(a.statement)
    BY <1>3, <2>1 DEF TruthInv
  <2>2. ASSUME req[u].attestations \in Seq(Attested), NEW attestation \in Attested,
               attestation.valid /\ attestation.signer \notin Faulty =>
                   attestation.statement = Statement,
               req'[u].attestations = Append(req[u].attestations, attestation)
        PROVE  TrueOf(a.statement)
    <3>1. CASE k \in DOMAIN req[u].attestations
      <4>1. req'[u].attestations[k] = req[u].attestations[k]
        BY <2>2, <3>1
      <4> QED BY <1>3, <3>1, <4>1 DEF TruthInv
    <3>2. CASE k \notin DOMAIN req[u].attestations
      <4>1. req'[u].attestations[k] = attestation
        BY <2>2, <3>2
      <4>2. TrueOf(Statement)
        BY DEF TrueOf, Statement, TruthInv
      <4> QED BY <1>3, <2>2, <4>1, <4>2
    <3> QED BY <3>1, <3>2
  <2> QED BY <1>1, <2>1, <2>2, RoundsGrow
<1>4. ASSUME NEW u \in Threads, req'[u].kind = "reconcile"
      PROVE  \E i \in DOMAIN objects' : /\ objects'[i].type = "execution"
                                        /\ objects'[i].permit = req'[u].permit
                                        /\ objects'[i].receipt = req'[u].receipt
  <2>1. CASE req[u].kind = "reconcile" /\ Same(u)
    BY <1>0, <2>1 DEF TruthInv, Same, Grown
  <2>2. ASSUME NEW i \in DOMAIN objects, objects[i].type = "execution",
               req'[u].permit = objects[i].permit, req'[u].receipt = objects[i].receipt
        PROVE  \E j \in DOMAIN objects' : /\ objects'[j].type = "execution"
                                          /\ objects'[j].permit = req'[u].permit
                                          /\ objects'[j].receipt = req'[u].receipt
    BY <1>0, <2>2 DEF Grown
  <2>3. Stays(u) => req[u].kind = "reconcile" /\ Same(u)
    BY <1>4 DEF Stays, Same
  <2>4. CASE ~Stays(u) /\ ~Stops(u)
    <3>1. PICK t \in Threads : Moves(t)
      BY <2>4, NextMoves DEF Quiet
    <3>2. u = t /\ ~Leaves(u)
      BY <2>4, <3>1, LeavesStops DEF Moves, Denies, Keeps, Numbers, Appends, Loses, Copies,
                                     Advances, At, Leaves, Fixed, Stays
    <3>3. req[u].kind = "reconcile" /\ Same(u)
      BY <1>4, <2>4, <3>1, <3>2 DEF Moves, Denies, Keeps, Numbers, Appends, Loses, Copies,
                                    Advances, Same
    <3> QED BY <2>1, <3>3
  <2> QED BY <1>4, <2>1, <2>2, <2>3, <2>4 DEF Stops
<1>5. ASSUME NEW i \in DOMAIN objects', objects'[i].state = "RECONCILED",
             NEW p, p = objects'[i].permit
      PROVE  Held(p)'
  <2>1. CASE i \in DOMAIN objects
    <3>1. Held(p)
      BY <1>0, <1>5, <2>1 DEF TruthInv, Grown
    <3> QED BY <1>2, <3>1
  <2>2. CASE i \notin DOMAIN objects
    <3>1. PICK t \in Threads :
              /\ req[t].kind = "reconcile" /\ objects'[i].permit = req[t].permit
              /\ QuorumMet(req[t].attestations)
              /\ Confirms(req[t].permit, req[t].receipt, QuorumStatement(req[t].attestations))
      BY <1>5, <2>2, ReconciledIsConfirmed
    <3> DEFINE statement == QuorumStatement(req[t].attestations)
    <3>2. PICK s \in Signers \ Faulty : statement \in Stated(req[t].attestations, s)
      BY <3>1, QuorumsWitnessed, ReconciliationAssumption DEF Witnessed, FewFaulty
    <3>3. TrueOf(statement)
      <4>1. PICK k \in DOMAIN req[t].attestations :
                /\ req[t].attestations[k].valid /\ req[t].attestations[k].signer = s
                /\ statement = req[t].attestations[k].statement
        BY <3>2 DEF Stated
      <4> QED BY <4>1 DEF TruthInv
    <3>4. /\ merge # NoMerge /\ merge.head = Expected[req[t].permit]
          /\ req[t].receipt.remote_operation_id = merge.sha
      BY <3>1, <3>3 DEF Confirms, TrueOf
    <3>5. Held(p)
      BY <1>5, <3>1, <3>4 DEF Held, TruthInv
    <3> QED BY <1>2, <3>5
  <2> QED BY <2>1, <2>2
<1>6. (\A t \in Threads : \A k \in DOMAIN req[t].attestations :
          LET a == req[t].attestations[k]
          IN a.valid /\ a.signer \notin Faulty => TrueOf(a.statement))'
  BY <1>3
<1>7. (\A t \in Threads : req[t].kind = "reconcile" =>
          \E i \in DOMAIN objects : /\ objects[i].type = "execution"
                                    /\ objects[i].permit = req[t].permit
                                    /\ objects[i].receipt = req[t].receipt)'
  BY <1>4
<1>8. (\A i \in DOMAIN objects : objects[i].state = "RECONCILED" => Held(objects[i].permit))'
  BY <1>5
<1>9. (merge # NoMerge => merge.head = head)'
  BY MergeIsFinal DEF TruthInv
<1> QED BY <1>6, <1>7, <1>8, <1>9 DEF TruthInv

\* With fewer faulty observers than the threshold, a permit is reported RECONCILED
\* only if its pull request is merged at the approved head, by the commit that the
\* executor's receipt names: whatever that receipt claims, whatever the faulty ones
\* attest to, and whatever changes in the middle of a round.
THEOREM ReconciledIsTrue ==
    ASSUME MarkersApart, FewFaulty
    PROVE  Spec => []ReportedReconciledIsTrue
<1> DEFINE Inv == TypeInv /\ TrailInv /\ TruthInv
<1>1. Init => Inv
  BY TypeInit, TrailInit, TruthInit
<1>2. Inv /\ [Next]_vars => Inv'
  BY TypeStep, TrailStep, TruthStep
<1>3. Inv => ReportedReconciledIsTrue
  <2> SUFFICES ASSUME Inv, NEW p \in PermitIds, "RECONCILED" \in Range(ReportedStates(p))
               PROVE  Held(p)
    BY DEF ReportedReconciledIsTrue, Held
  <2>1. PICK e \in Reported(p) : e.body.state = "RECONCILED"
    <3>1. PICK i \in 1..Cardinality(Reported(p)) : ReportedStates(p)[i] = "RECONCILED"
      BY ReportPlaces DEF Range
    <3>2. ReportedStates(p)[i] = (CHOOSE e \in Reported(p) : Place(p, e) = i).body.state
      BY ReportPlaces
    <3>3. \E e \in Reported(p) : Place(p, e) = i
      BY ReportPlaces
    <3> QED BY <3>1, <3>2, <3>3
  <2>2. e.body.permit = p /\ Describes(e.body)
    BY DEF Reported, TrailInv
  <2>3. e.body.object \in DOMAIN objects /\ objects[e.body.object].state = "RECONCILED"
        /\ objects[e.body.object].permit = p
    BY <2>1, <2>2, NoneApart DEF Describes, States
  <2> QED BY <2>3 DEF TruthInv
<1> QED BY <1>1, <1>2, <1>3, PTL DEF Spec

-----------------------------------------------------------------------------
(* One server: the file is a chain *)

\* One process serves the tenant: its ledger lock is the only one.
OneServer == \A t, u \in Threads : Host[t] = Host[u]

ChainInv ==
    /\ \A t \in Threads : pc[t] = "write" =>
          Readable(lines) /\ req[t].event = NextEvent(Records(lines), req[t].draft)
    /\ Readable(lines) => \A i \in DOMAIN lines :
          /\ lines[i][1].sequence = i
          /\ lines[i][1].previous = IF i = 1 THEN Genesis ELSE lines[i - 1][1].hash
    /\ \A event \in Written :
          \/ event.sequence = 1 /\ event.previous = Genesis
          \/ \E before \in Written : /\ event.sequence = before.sequence + 1
                                     /\ event.previous = before.hash
    /\ \A a, b \in Written : a.sequence = b.sequence => a = b
    /\ faults = 0 => Readable(lines) /\ ended

LEMMA OneWrites ==
    ASSUME OneServer, TypeInv, NEW t \in Threads, NEW u \in Threads,
           pc[t] = "write", pc[u] = "write"
    PROVE  t = u
<1>1. ledgerLock[Host[t]] = t /\ ledgerLock[Host[u]] = u
  BY DEF TypeInv, LocalOK
<1> QED BY <1>1 DEF OneServer

\* The event about to be written is the next link.
LEMMA NextLink ==
    ASSUME TypeInv, ChainInv, NEW t \in Threads, pc[t] = "write"
    PROVE  /\ Readable(lines) /\ Len(lines) \in Nat /\ DOMAIN lines = 1..Len(lines)
           /\ Written = {lines[i][1] : i \in DOMAIN lines}
           /\ req[t].event.sequence = Len(lines) + 1
           /\ req[t].event.previous =
                 IF Len(lines) = 0 THEN Genesis ELSE lines[Len(lines)][1].hash
<1>1. Readable(lines) /\ req[t].event = NextEvent(Records(lines), req[t].draft)
  BY DEF ChainInv
<1>2. /\ Written = {lines[i][1] : i \in DOMAIN lines}
      /\ Len(lines) \in Nat /\ DOMAIN lines = 1..Len(lines)
      /\ Records(lines) \in Seq(Written) /\ Len(Records(lines)) = Len(lines)
      /\ \A i \in DOMAIN lines : Records(lines)[i] = lines[i][1]
  BY <1>1, ReadableWritten DEF TypeInv, StoreOK
<1>3. Records(lines) = <<>> <=> Len(lines) = 0
  BY <1>2
<1>4. Len(lines) # 0 => Last(Records(lines)) = lines[Len(lines)][1]
  BY <1>2 DEF Last
<1> QED BY <1>1, <1>2, <1>3, <1>4 DEF NextEvent, Hashed

LEMMA ChainInit == Init => ChainInv
<1> SUFFICES ASSUME Init PROVE ChainInv
  OBVIOUS
<1>1. Written = {} /\ lines = <<>> /\ ended = TRUE
  BY DEF Init, AuditInit, Written
<1>2. \A t \in Threads : pc[t] = "idle"
  BY DEF Init
<1>3. Readable(lines)
  BY <1>1 DEF Readable
<1> QED BY <1>1, <1>2, <1>3 DEF ChainInv

\* The file when a line is written, or only begun.
LEMMA ChainWrites ==
    ASSUME MarkersApart, TypeInv, TypeInv', TrailInv, ChainInv, [Next]_vars,
           NEW t \in Threads, pc[t] = "write", Loses(t) \/ Appends(t)
    PROVE  /\ (Readable(lines) => \A i \in DOMAIN lines :
                  /\ lines[i][1].sequence = i
                  /\ lines[i][1].previous = IF i = 1 THEN Genesis ELSE lines[i - 1][1].hash)'
           /\ (\A event \in Written :
                  \/ event.sequence = 1 /\ event.previous = Genesis
                  \/ \E before \in Written : /\ event.sequence = before.sequence + 1
                                             /\ event.previous = before.hash)'
           /\ (\A a, b \in Written : a.sequence = b.sequence => a = b)'
           /\ (faults = 0 => Readable(lines) /\ ended)'
<1> DEFINE event == req[t].event
           n == Len(lines)
<1>1. /\ Readable(lines) /\ n \in Nat /\ DOMAIN lines = 1..n
      /\ Written = {lines[i][1] : i \in DOMAIN lines} /\ event.sequence = n + 1
      /\ event.previous = IF n = 0 THEN Genesis ELSE lines[n][1].hash
  BY NextLink
<1>2. \A i \in 1..n : lines[i][1].sequence = i
  BY <1>1 DEF ChainInv
<1>3. FileOK /\ event # Torn
  BY EventOfRequest DEF Numbered, TypeInv, StoreOK
<1>4. /\ Written \subseteq Written' /\ Written' \subseteq Written \union {event}
      /\ Readable(lines)' => UNCHANGED lines \/ lines' = Append(lines, <<event>>)
  <2>1. CASE Appends(t)
    <3>1. Put(event, TRUE)
      BY <2>1 DEF Appends
    <3> QED BY <1>3, <3>1, PutEffects
  <2>2. CASE Loses(t)
    <3>1. WriteFails(event)
      BY <2>2 DEF Loses
    <3> QED BY <1>3, <3>1, WriteFailsEffects
  <2> QED BY <2>1, <2>2
<1> HIDE DEF event
<1>5. ASSUME Readable(lines)', NEW i \in DOMAIN lines'
      PROVE  /\ lines'[i][1].sequence = i
             /\ lines'[i][1].previous = IF i = 1 THEN Genesis ELSE lines'[i - 1][1].hash
  <2>1. CASE UNCHANGED lines
    BY <1>1, <1>5, <2>1 DEF ChainInv
  <2>2. CASE lines' = Append(lines, <<event>>)
    <3>1. PICK S : lines \in Seq(Seq(S) \ {<<>>})
      BY <1>3 DEF FileOK
    <3>2. DOMAIN lines' = 1..(n + 1) /\ lines'[n + 1] = <<event>>
          /\ \A j \in 1..n : lines'[j] = lines[j]
      BY <1>1, <2>2, <3>1
    <3>3. lines'[n + 1][1] = event
      BY <3>2
    <3>4. CASE i \in 1..n
      <4>1. i = 1 \/ i - 1 \in 1..n
        BY <1>1, <3>4
      <4>2. /\ lines[i][1].sequence = i
            /\ lines[i][1].previous = IF i = 1 THEN Genesis ELSE lines[i - 1][1].hash
        BY <1>1, <3>4 DEF ChainInv
      <4> QED BY <3>2, <3>4, <4>1, <4>2
    <3>5. CASE i = n + 1
      <4>1. n = 0 \/ n \in 1..n
        BY <1>1
      <4>2. (i = 1 <=> n = 0) /\ i - 1 = n
        BY <1>1, <3>5
      <4> QED BY <1>1, <3>2, <3>3, <3>5, <4>1, <4>2
    <3>6. i \in 1..n \/ i = n + 1
      BY <1>1, <3>2
    <3> QED BY <3>4, <3>5, <3>6
  <2> QED BY <1>4, <1>5, <2>1, <2>2
<1>6. ASSUME NEW e \in Written'
      PROVE  \/ e.sequence = 1 /\ e.previous = Genesis
             \/ \E before \in Written' : /\ e.sequence = before.sequence + 1
                                         /\ e.previous = before.hash
  <2>1. CASE e \in Written
    BY <1>4, <2>1 DEF ChainInv
  <2>2. CASE e = event
    <3>1. CASE n = 0
      BY <1>1, <2>2, <3>1
    <3>2. CASE n # 0
      <4>1. n \in 1..n
        BY <1>1, <3>2
      <4>2. lines[n][1] \in Written /\ lines[n][1].sequence = n
        BY <1>1, <1>2, <4>1
      <4> QED BY <1>1, <1>4, <2>2, <3>2, <4>2
    <3> QED BY <3>1, <3>2
  <2> QED BY <1>4, <2>1, <2>2
<1>7. ASSUME NEW a \in Written', NEW b \in Written', a.sequence = b.sequence PROVE a = b
  <2>1. \A e \in Written : e.sequence # event.sequence
    BY <1>1, <1>2
  <2> QED BY <1>4, <1>7, <2>1 DEF ChainInv
<1>8. ASSUME faults' = 0 PROVE Readable(lines)' /\ ended'
  <2>1. faults \in Nat
    BY ReconciliationAssumption DEF TypeInv, StoreOK
  <2>2. ~Loses(t)
    BY <1>8, <2>1 DEF Loses
  <2>3. Put(event, TRUE) /\ faults = 0
    BY <1>8, <2>2 DEF Appends, event
  <2>4. Readable(lines) /\ ended
    BY <2>3 DEF ChainInv
  <2> QED BY <1>3, <2>3, <2>4, PutEffects DEF Put
<1>9. (\A e \in Written :
          \/ e.sequence = 1 /\ e.previous = Genesis
          \/ \E before \in Written : /\ e.sequence = before.sequence + 1
                                     /\ e.previous = before.hash)'
  BY <1>6
<1>10. (\A a, b \in Written : a.sequence = b.sequence => a = b)'
  BY <1>7
<1>11. (Readable(lines) => \A i \in DOMAIN lines :
          /\ lines[i][1].sequence = i
          /\ lines[i][1].previous = IF i = 1 THEN Genesis ELSE lines[i - 1][1].hash)'
  BY <1>5
<1> QED BY <1>8, <1>9, <1>10, <1>11

LEMMA ChainStep ==
    ASSUME MarkersApart, OneServer, TypeInv, TypeInv', TrailInv, ChainInv, [Next]_vars
    PROVE  ChainInv'
<1>1. ASSUME NEW u \in Threads, pc'[u] = "write"
      PROVE  Readable(lines)' /\ req'[u].event = NextEvent(Records(lines'), req'[u].draft)
  <2>1. CASE Stays(u)
    <3>1. pc[u] = "write" /\ req'[u] = req[u]
      BY <1>1, <2>1 DEF Stays
    <3>2. \A t \in Threads : pc[t] = "write" => ~Loses(t) /\ ~Appends(t)
      BY <1>1, <3>1, OneWrites DEF Loses, Stops, Appends, At, Drafted
    <3>3. UNCHANGED lines
      BY <3>2, WrittenEffects
    <3> QED BY <3>1, <3>3 DEF ChainInv
  <2>2. CASE Numbers(u)
    BY <2>2 DEF Numbers
  <2> QED BY <1>1, <2>1, <2>2, MoverMoves DEF Drafted, Denies, Keeps, Appends, At
<1>2. CASE Written' = Written /\ UNCHANGED <<lines, ended>>
  <2>1. faults' = 0 => faults = 0
    <3>1. faults \in Nat
      BY ReconciliationAssumption DEF TypeInv, StoreOK
    <3>2. faults' = faults \/ faults' = faults + 1
      BY NextMoves DEF Quiet, Moves, Denies, Keeps, Numbers, Appends, Loses, Copies, Advances
    <3> QED BY <3>1, <3>2
  <2> QED BY <1>1, <1>2, <2>1 DEF ChainInv
<1>3. ASSUME NEW t \in Threads, pc[t] = "write", Loses(t) \/ Appends(t) PROVE ChainInv'
  <2>1. (\A u \in Threads : pc[u] = "write" =>
          Readable(lines) /\ req[u].event = NextEvent(Records(lines), req[u].draft))'
    BY <1>1
  <2> QED BY <1>3, <2>1, ChainWrites DEF ChainInv
<1> QED BY <1>2, <1>3, WrittenEffects

\* With one server, whatever requests are audited at once and whatever writes fail,
\* the events that were written whole are one chain, numbered without gap; and as
\* long as nothing failed verify_ledger accepts the file.
THEOREM LedgerAlwaysVerifies ==
    ASSUME MarkersApart, OneServer
    PROVE  Spec => []LedgerVerifies
<1> DEFINE Inv == TypeInv /\ TrailInv /\ ChainInv
<1>1. Init => Inv
  BY TypeInit, TrailInit, ChainInit
<1>2. Inv /\ [Next]_vars => Inv'
  BY TypeStep, TrailStep, ChainStep
<1>3. Inv => LedgerVerifies
  <2> SUFFICES ASSUME Inv, faults = 0 PROVE VerifyLedger(lines).valid
    BY DEF LedgerVerifies, ChainInv
  <2> DEFINE records == Records(lines)
  <2>1. Readable(lines)
    BY DEF ChainInv
  <2>2. /\ Len(lines) \in Nat /\ DOMAIN lines = 1..Len(lines)
        /\ Written = {lines[i][1] : i \in DOMAIN lines}
        /\ records \in Seq(Written) /\ Len(records) = Len(lines)
        /\ \A i \in DOMAIN lines : records[i] = lines[i][1]
    BY <2>1, ReadableWritten DEF TypeInv, StoreOK
  <2>3. DOMAIN records = 1..Len(lines)
    BY <2>2
  <2> HIDE DEF records
  <2>4. \A i \in 1..Len(lines) : IsEvent(records[i]) /\ records[i].hash # None
    <3>1. ASSUME NEW i \in 1..Len(lines) PROVE IsEvent(records[i])
      BY <2>2 DEF TrailInv
    <3> QED BY <3>1 DEF IsEvent, MarkersApart
  <2>5. ASSUME NEW i \in 1..Len(lines)
        PROVE  PreviousHash(records, i - 1, Genesis) =
                   IF i = 1 THEN Genesis ELSE records[i - 1].hash
    <3>1. {j \in 1..(i - 1) : records[j].hash # None} = 1..(i - 1)
      BY <2>2, <2>4
    <3>2. CASE i = 1
      <4>1. 1..(i - 1) = {}
        BY <3>2
      <4> QED BY <3>1, <3>2, <4>1 DEF PreviousHash
    <3>3. CASE i # 1
      <4>1. i - 1 \in 1..(i - 1) /\ \A k \in 1..(i - 1) : i - 1 >= k
        BY <2>2, <3>3
      <4>2. \A x \in 1..(i - 1) : (\A k \in 1..(i - 1) : x >= k) => x = i - 1
        BY <2>2, <4>1
      <4>3. Max(1..(i - 1)) = i - 1
        BY <4>1, <4>2 DEF Max
      <4> QED BY <3>1, <3>3, <4>1, <4>3 DEF PreviousHash
    <3> QED BY <3>2, <3>3
  <2>6. ASSUME NEW i \in 1..Len(lines) PROVE LinkHolds(records, i)
    <3>1. records[i].format = "entry" /\ records[i].hash = Digest(records[i])
      <4>1. PICK sequence, body, previous :
                records[i] = Hashed("entry", sequence, body, previous)
        BY <2>4 DEF IsEvent
      <4>2. /\ records[i].format = "entry" /\ records[i].sequence = sequence
            /\ records[i].body = body /\ records[i].previous = previous
            /\ records[i].hash = [body |-> body, sequence |-> sequence, previous |-> previous]
        BY <4>1 DEF Hashed
      <4> QED BY <4>2 DEF Digest
    <3>2. records[i].previous = IF i = 1 THEN Genesis ELSE records[i - 1].hash
      <4>1. lines[i][1].previous = IF i = 1 THEN Genesis ELSE lines[i - 1][1].hash
        BY <2>1, <2>2 DEF ChainInv
      <4>2. records[i] = lines[i][1]
        BY <2>2
      <4>3. CASE i = 1
        BY <4>1, <4>2, <4>3
      <4>4. CASE i # 1
        <5>1. i - 1 \in 1..Len(lines)
          BY <2>2, <4>4
        <5>2. records[i - 1] = lines[i - 1][1]
          BY <2>2, <5>1
        <5> QED BY <4>1, <4>2, <4>4, <5>2
      <4> QED BY <4>3, <4>4
    <3> QED BY <2>5, <3>1, <3>2 DEF LinkHolds
  <2>7. VerifyLedger(lines).valid <=> \A i \in DOMAIN records : LinkHolds(records, i)
    BY <2>1 DEF VerifyLedger, records
  <2> QED BY <2>3, <2>6, <2>7
<1> QED BY <1>1, <1>2, <1>3, PTL DEF Spec

-----------------------------------------------------------------------------
(* One server: rows that are missing *)

Inserting == {req[t].event : t \in {u \in Threads : pc[u] = "insert"}}
Lost == (Written \ rows) \ Inserting

LossInv ==
    /\ \A t \in Threads : pc[t] = "insert" => req[t].event \notin rows
    /\ \A t, u \in Threads : pc[t] = "insert" /\ pc[u] = "insert" /\ req[t].event = req[u].event
                             => t = u
    /\ IsFiniteSet(Written)
    /\ Cardinality(Lost) <= faults * Cardinality(Threads)

LEMMA LossInit == Init => LossInv
<1> SUFFICES ASSUME Init PROVE LossInv
  OBVIOUS
<1>1. Written = {} /\ faults = 0 /\ \A t \in Threads : pc[t] = "idle"
  BY DEF Init, AuditInit, Written
<1>2. Lost = {}
  BY <1>1 DEF Lost
<1>3. Cardinality(Threads) \in Nat
  BY AuditAssumption, FS_CardinalityType
<1>4. Cardinality(Lost) <= faults * Cardinality(Threads)
  BY <1>1, <1>2, <1>3, FS_EmptySet
<1> QED BY <1>1, <1>4, FS_EmptySet DEF LossInv

\* Who begins to insert has just appended an event that was not there.
LEMMA InsertsWas ==
    ASSUME MarkersApart, TypeInv, TrailInv, ChainInv, [Next]_vars,
           NEW u \in Threads, pc'[u] = "insert"
    PROVE  /\ req'[u].event = req[u].event
           /\ \/ pc[u] = "insert"
              \/ /\ Appends(u) /\ req[u].event \notin Written
                 /\ Written' = Written \union {req[u].event}
<1>1. CASE Stays(u)
  BY <1>1 DEF Stays
<1>2. CASE Appends(u)
  <2>1. pc[u] = "write" /\ UNCHANGED req /\ Put(req[u].event, TRUE)
    BY <1>2 DEF Appends, At
  <2>2. req[u].event \notin Written
    <3>1. /\ Len(lines) \in Nat /\ DOMAIN lines = 1..Len(lines)
          /\ Written = {lines[i][1] : i \in DOMAIN lines} /\ Readable(lines)
          /\ req[u].event.sequence = Len(lines) + 1
      BY <2>1, NextLink
    <3>2. \A i \in 1..Len(lines) : lines[i][1].sequence = i
      BY <3>1 DEF ChainInv
    <3> QED BY <3>1, <3>2
  <2>3. Written' = Written \union {req[u].event}
    <3>1. req[u].event # Torn /\ FileOK
      BY <2>1, EventOfRequest DEF Numbered, TypeInv, StoreOK
    <3> QED BY <2>1, <3>1, PutEffects
  <2> QED BY <1>2, <2>1, <2>2, <2>3
<1> QED BY <1>1, <1>2, MoverMoves DEF Drafted, Denies, Keeps, Numbers, At

\* The request whose event is in the table, or nobody, has put it there.
LEMMA RowsGrow ==
    ASSUME TypeInv, [Next]_vars
    PROVE  \/ UNCHANGED rows
           \/ \E t \in Threads : Copies(t) /\ rows' = rows \union {req[t].event}
                                 /\ pc[t] = "insert" /\ pc'[t] # "insert"
  BY NextMoves DEF Quiet, Moves, Denies, Keeps, Numbers, Appends, Loses, Copies, Advances,
                   InsertRow, At, Leaves

\* A request that is inserting goes on unless it fails.
LEMMA LostGrows ==
    ASSUME MarkersApart, OneServer, TypeInv, TrailInv, ChainInv, LossInv, [Next]_vars
    PROVE  \/ faults' = faults /\ Lost' \subseteq Lost
           \/ faults' = faults + 1 /\ Lost' \subseteq Lost \union {req[t].event : t \in Threads}
<1>1. ASSUME NEW t \in Threads, pc[t] = "insert" PROVE Insertable(req[t].event)
  BY <1>1 DEF Insertable, LossInv, TrailInv, ChainInv
<1>2. rows \subseteq rows'
  BY RowsGrow
<1>3. Written' \subseteq Written \union {req[t].event : t \in Threads}
  BY WrittenEffects
<1>4. Lost' \subseteq Lost \union {req[t].event : t \in Threads}
  BY <1>2, <1>3 DEF Lost, Inserting
<1>5. CASE faults' = faults + 1
  BY <1>4, <1>5
<1>6. ASSUME faults' # faults + 1, NEW e \in Lost' PROVE e \in Lost /\ faults' = faults
  <2>0. faults \in Nat
    BY ReconciliationAssumption DEF TypeInv, StoreOK
  <2>1. faults' = faults /\ \A t \in Threads : ~Loses(t)
    BY <1>6, NextMoves DEF Quiet, Moves, Denies, Keeps, Numbers, Appends, Loses, Copies, Advances
  <2>2. e \in Written' /\ e \notin rows'
        /\ \A u \in Threads : pc'[u] = "insert" => e # req'[u].event
    BY DEF Lost, Inserting
  <2>3. e \in Written
    <3>1. ASSUME NEW t \in Threads, Appends(t) PROVE e # req[t].event
      BY <2>2, <3>1 DEF Appends, At
    <3> QED BY <2>1, <2>2, <3>1, WrittenEffects
  <2>4. ASSUME NEW u \in Threads, pc[u] = "insert" PROVE e # req[u].event
    <3>1. CASE Stays(u)
      BY <2>2, <2>4, <3>1 DEF Stays
    <3>2. CASE ~Stays(u)
      <4>1. ~Quiet
        BY <1>1, <1>6, <2>0, <2>1, <2>4, <3>2 DEF Quiet
      <4>2. PICK t \in Threads : Moves(t)
        BY <4>1, NextMoves
      <4>3. Copies(u)
        BY <2>1, <2>4, <3>2, <4>2 DEF Moves, Denies, Keeps, Numbers, Appends, Loses, Copies,
                                      Advances, At, Leaves, Fixed, Stays
      <4> QED BY <2>2, <4>3 DEF Copies, InsertRow
    <3> QED BY <3>1, <3>2
  <2> QED BY <1>2, <2>1, <2>2, <2>3, <2>4 DEF Lost, Inserting
<1>7. faults' # faults + 1 => faults' = faults
  BY NextMoves DEF Quiet, Moves, Denies, Keeps, Numbers, Appends, Loses, Copies, Advances
<1> QED BY <1>5, <1>6, <1>7

LEMMA LossStep ==
    ASSUME MarkersApart, OneServer, TypeInv, TypeInv', TrailInv, ChainInv, LossInv, [Next]_vars
    PROVE  LossInv'
<1>1. ASSUME NEW u \in Threads, pc'[u] = "insert" PROVE req'[u].event \notin rows'
  <2>1. req[u].event \notin rows
    BY <1>1, InsertsWas DEF LossInv, TrailInv
  <2>2. ASSUME NEW t \in Threads, pc[t] = "insert", pc'[t] # "insert", Copies(t)
        PROVE  req[t].event # req[u].event
    <3>1. pc[u] = "insert" /\ u # t
      BY <1>1, <2>2, InsertsWas DEF Appends, Copies, At, Leaves, Fixed
    <3> QED BY <2>2, <3>1 DEF LossInv
  <2> QED BY <1>1, <2>1, <2>2, RowsGrow, InsertsWas
<1>2. ASSUME NEW t \in Threads, NEW u \in Threads, pc'[t] = "insert", pc'[u] = "insert",
             req'[t].event = req'[u].event
      PROVE  t = u
  <2>1. CASE pc[t] = "insert" /\ pc[u] = "insert"
    BY <1>2, <2>1, InsertsWas DEF LossInv
  <2>2. CASE pc[t] # "insert" /\ pc[u] # "insert"
    BY <1>2, <2>2, InsertsWas DEF Appends, At, Fixed
  <2>3. \A v \in Threads : pc[v] = "insert" => req[v].event \in Written
    BY DEF TrailInv
  <2> QED BY <1>2, <2>1, <2>2, <2>3, InsertsWas
<1>3. IsFiniteSet(Written')
  <2>1. ASSUME NEW e PROVE IsFiniteSet(Written \union {e})
    BY FS_AddElement DEF LossInv
  <2>2. \/ Written' = Written
        \/ \E t \in Threads : Written' \subseteq Written \union {req[t].event}
    BY WrittenEffects
  <2> QED BY <2>1, <2>2, FS_Subset DEF LossInv
<1>4. Cardinality(Lost') <= faults' * Cardinality(Threads)
  <2> DEFINE n == Cardinality(Threads)
             events == {req[t].event : t \in Threads}
  <2>1. n \in Nat /\ faults \in Nat
    BY AuditAssumption, ReconciliationAssumption, FS_CardinalityType DEF TypeInv, StoreOK
  <2>2. IsFiniteSet(Lost) /\ Cardinality(Lost) \in Nat /\ Cardinality(Lost) <= faults * n
    <3>1. IsFiniteSet(Lost)
      BY FS_Subset DEF Lost, LossInv
    <3> QED BY <3>1, FS_CardinalityType DEF LossInv
  <2>3. CASE faults' = faults /\ Lost' \subseteq Lost
    <3>1. Cardinality(Lost') <= Cardinality(Lost) /\ IsFiniteSet(Lost')
      BY <2>2, <2>3, FS_Subset
    <3>2. Cardinality(Lost') \in Nat /\ faults * n \in Nat
      BY <2>1, <3>1, FS_CardinalityType
    <3> QED BY <2>2, <2>3, <3>1, <3>2
  <2>4. CASE faults' = faults + 1 /\ Lost' \subseteq Lost \union events
    <3>1. IsFiniteSet(events) /\ Cardinality(events) <= n
      <4> DEFINE f == [t \in Threads |-> req[t].event]
      <4>1. f \in Surjection(Threads, events)
        BY DEF Surjection
      <4> QED BY <4>1, AuditAssumption, FS_Surjection
    <3> HIDE DEF events
    <3>2. IsFiniteSet(Lost \cap events)
      BY <2>2, FS_Intersection
    <3>3. /\ IsFiniteSet(Lost \union events)
          /\ Cardinality(Lost \union events)
                 = Cardinality(Lost) + Cardinality(events) - Cardinality(Lost \cap events)
      BY <2>2, <3>1, FS_Union
    <3>4. Cardinality(Lost \cap events) \in Nat /\ Cardinality(events) \in Nat
          /\ Cardinality(Lost \union events) \in Nat
      BY <3>1, <3>2, <3>3, FS_CardinalityType
    <3>5. Cardinality(Lost \union events) <= Cardinality(Lost) + n
      BY <2>1, <2>2, <3>1, <3>3, <3>4
    <3>6. Cardinality(Lost') <= Cardinality(Lost \union events) /\ IsFiniteSet(Lost')
      BY <2>4, <3>3, FS_Subset
    <3>7. Cardinality(Lost') \in Nat
      BY <3>6, FS_CardinalityType
    <3>8. faults * n \in Nat /\ (faults + 1) * n = faults * n + n
      BY <2>1
    <3> DEFINE product == faults * n
    <3> HIDE DEF product
    <3>9. Cardinality(Lost') <= product + n
      BY <2>1, <2>2, <3>4, <3>5, <3>6, <3>7, <3>8 DEF product
    <3> QED BY <2>4, <3>8, <3>9 DEF product
  <2> QED BY <2>3, <2>4, LostGrows
<1>5. (\A t \in Threads : pc[t] = "insert" => req[t].event \notin rows)'
  BY <1>1
<1>6. (\A t, u \in Threads : pc[t] = "insert" /\ pc[u] = "insert" /\ req[t].event = req[u].event
                             => t = u)'
  BY <1>2
<1> QED BY <1>3, <1>4, <1>5, <1>6 DEF LossInv

\* With one server the two stores of the audit trail agree: a row is a copy of an
\* event in the file, and an event is without its row only if a request is about to
\* insert it or a failure came between the two, a crash for each request it ended.
THEOREM StoresAlwaysAgree ==
    ASSUME MarkersApart, OneServer
    PROVE  Spec => []StoresAgree
<1> DEFINE Inv == TypeInv /\ TrailInv /\ ChainInv /\ LossInv
<1>1. Init => Inv
  BY TypeInit, TrailInit, ChainInit, LossInit
<1>2. Inv /\ [Next]_vars => Inv'
  BY TypeStep, TrailStep, ChainStep, LossStep
<1>3. Inv => StoresAgree
  BY DEF StoresAgree, TrailInv, LossInv, Lost, Inserting
<1> QED BY <1>1, <1>2, <1>3, PTL DEF Spec
=============================================================================
