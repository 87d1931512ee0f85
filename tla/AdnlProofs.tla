----------------------------- MODULE AdnlProofs -----------------------------
(* The ADNL connection keeps its place in the stream, for every frame size,   *)
(* budget and number of calls; and it implements AdnlSession.                 *)
EXTENDS AdnlConnection, SequenceTheorems, TLAPS

InCall == pc \in {"write", "prefix", "body"}
Reading == pc \in {"prefix", "body"}

(* The bytes in flight to the client carry the last positions the server     *)
(* sealed, and nothing has moved before the session opens.                   *)
WireInOrder == /\ Len(toClient) <= stx
               /\ Aligned(toClient, stx - Len(toClient))
               /\ pc = "closed" => /\ rx = 0 /\ tx = 0 /\ stx = 0 /\ srx = 0
                                   /\ toClient = <<>> /\ toServer = <<>>
                                   /\ ~intact

(* Where each keystream stands relative to the wire, in every control state. *)
SendPlace == /\ intact \/ Reading => srx + Len(toServer) = tx
             /\ pc = "write" => srx + Len(toServer) + Len(pending) = tx
RecvPlace == /\ intact \/ pc = "write" => rx + Len(toClient) = stx
             /\ Reading => rx + Len(got) + Len(toClient) = stx /\ Aligned(got, rx)

(* The inductive invariant: Synchronized speaks only of states where the flag *)
(* is up; what a frame in motion owes each keystream carries it between them. *)
IndInv == /\ TypeOK /\ NoAwaitIntact /\ WireInOrder /\ SendPlace /\ RecvPlace
          /\ (InCall => query_id # 0)

----------------------------------------------------------------------------
(* Sealing gives a run of bytes at consecutive keystream positions. *)
LEMMA SealedBytes ==
  ASSUME NEW frm \in Frame, NEW at \in Nat
  PROVE  /\ Sealed(frm, at) \in Seq(Byte)
         /\ Len(Sealed(frm, at)) = PREFIX + frm.len
         /\ Aligned(Sealed(frm, at), at)
<1> DEFINE n == PREFIX + frm.len
<1>1. n \in Nat
  BY ConstantsAssumption DEF Frame
<1>2. \A i \in 1..n : [pos |-> at + i - 1, frm |-> frm] \in Byte
  BY <1>1 DEF Byte
<1>3. Sealed(frm, at) = [i \in 1..n |-> [pos |-> at + i - 1, frm |-> frm]]
  BY DEF Sealed
<1> HIDE DEF n
<1>4. Sealed(frm, at) \in [1..n -> Byte]
  BY <1>2, <1>3
<1>5. Sealed(frm, at) \in Seq(Byte) /\ Len(Sealed(frm, at)) = n
  BY <1>1, <1>4, SeqDef
<1>6. \A i \in 1..n : Sealed(frm, at)[i].pos = at + i - 1
  BY <1>3
<1> QED
  BY <1>5, <1>6 DEF Aligned, n

(* Both ends move by the same number of bytes. *)
LEMMA Shift ==
  ASSUME NEW k \in Nat, NEW a \in Nat, NEW b \in Nat, NEW p \in Nat, NEW f \in Nat,
         k + a = b
  PROVE  k + (a + p + f) = b + p + f
  OBVIOUS

(* The first byte in flight names a frame, and what is left past that frame. *)
LEMMA FirstByte ==
  ASSUME NEW s \in Seq(Byte), s # <<>>
  PROVE  /\ PREFIX + s[1].frm.len \in Nat
         /\ s[1].frm.id \in 0..MaxQueries
<1>1. s[1] \in Byte
  BY ElementOfSeq, EmptySeq, LenProperties
<1>2. s[1].frm.len \in Nat /\ s[1].frm.id \in 0..MaxQueries
  BY <1>1 DEF Byte, Frame
<1> QED BY <1>2, ConstantsAssumption

LEMMA Dropped ==
  ASSUME NEW s \in Seq(Byte), NEW n \in Nat
  PROVE  /\ SubSeq(s, n + 1, Len(s)) \in Seq(Byte)
         /\ n <= Len(s) => Len(SubSeq(s, n + 1, Len(s))) = Len(s) - n
         /\ Len(SubSeq(s, n + 1, Len(s))) <= Len(s)
<1>1. Len(s) \in Nat
  BY LenProperties
<1>2. \A i \in (n + 1)..Len(s) : s[i] \in Byte
  BY <1>1, ElementOfSeq
<1>3. /\ SubSeq(s, n + 1, Len(s)) \in Seq(Byte)
      /\ Len(SubSeq(s, n + 1, Len(s))) = IF n + 1 <= Len(s) THEN Len(s) - (n + 1) + 1 ELSE 0
  BY <1>1, <1>2, SubSeqProperties
<1> QED BY <1>1, <1>3

(* Taking the first byte off an aligned run leaves an aligned run. *)
LEMMA AlignedTail ==
  ASSUME NEW s \in Seq(Byte), s # <<>>, NEW at \in Nat, Aligned(s, at)
  PROVE  /\ Head(s) \in Byte /\ Head(s).pos = at
         /\ Tail(s) \in Seq(Byte) /\ Len(Tail(s)) = Len(s) - 1
         /\ Aligned(Tail(s), at + 1)
<1>1. /\ Len(s) \in Nat \ {0} /\ Head(s) = s[1] /\ Head(s) \in Byte
      /\ Tail(s) \in Seq(Byte) /\ Len(Tail(s)) = Len(s) - 1
      /\ \A i \in 1..Len(Tail(s)) : Tail(s)[i] = s[i + 1]
  BY HeadTailProperties, EmptySeq
<1>2. Head(s).pos = at
  BY <1>1 DEF Aligned
<1>3. \A i \in 1..Len(Tail(s)) : Tail(s)[i].pos = at + 1 + i - 1
  BY <1>1 DEF Aligned
<1> QED
  BY <1>1, <1>2, <1>3 DEF Aligned

(* One more byte in step extends an aligned run. *)
LEMMA AlignedAppend ==
  ASSUME NEW s \in Seq(Byte), NEW e \in Byte, NEW at \in Nat,
         Aligned(s, at), e.pos = at + Len(s)
  PROVE  /\ Append(s, e) \in Seq(Byte) /\ Len(Append(s, e)) = Len(s) + 1
         /\ Aligned(Append(s, e), at)
<1>1. /\ Append(s, e) \in Seq(Byte) /\ Len(Append(s, e)) = Len(s) + 1
      /\ \A i \in 1..Len(s) : Append(s, e)[i] = s[i]
      /\ Append(s, e)[Len(s) + 1] = e
  BY AppendProperties
<1>2. Len(s) \in Nat
  BY LenProperties
<1>3. ASSUME NEW i \in 1..Len(s) + 1 PROVE Append(s, e)[i].pos = at + i - 1
  <2>1. CASE i = Len(s) + 1
    BY <1>1, <1>2, <2>1
  <2>2. CASE i \in 1..Len(s)
    BY <1>1, <2>2 DEF Aligned
  <2> QED BY <1>2, <2>1, <2>2
<1> QED
  BY <1>1, <1>3 DEF Aligned

(* A frame sealed where the stream ends extends it in step. *)
LEMMA AlignedConcat ==
  ASSUME NEW s \in Seq(Byte), NEW t \in Seq(Byte), NEW at \in Nat,
         Aligned(s, at), Aligned(t, at + Len(s))
  PROVE  /\ s \o t \in Seq(Byte) /\ Len(s \o t) = Len(s) + Len(t)
         /\ Aligned(s \o t, at)
<1>1. /\ s \o t \in Seq(Byte) /\ Len(s \o t) = Len(s) + Len(t)
      /\ \A i \in 1..Len(s) + Len(t) :
           (s \o t)[i] = IF i <= Len(s) THEN s[i] ELSE t[i - Len(s)]
  BY ConcatProperties
<1>2. Len(s) \in Nat /\ Len(t) \in Nat
  BY LenProperties
<1>3. ASSUME NEW i \in 1..Len(s) + Len(t) PROVE (s \o t)[i].pos = at + i - 1
  <2>1. CASE i <= Len(s)
    BY <1>1, <1>2, <2>1 DEF Aligned
  <2>2. CASE ~(i <= Len(s))
    <3>1. i - Len(s) \in 1..Len(t) /\ (s \o t)[i] = t[i - Len(s)]
      BY <1>1, <1>2, <2>2
    <3>2. t[i - Len(s)].pos = at + Len(s) + (i - Len(s)) - 1
      BY <3>1 DEF Aligned
    <3> QED BY <1>2, <3>1, <3>2
  <2> QED BY <2>1, <2>2
<1> QED
  BY <1>1, <1>3 DEF Aligned

----------------------------------------------------------------------------
LEMMA InitInd == Init => IndInv
<1> SUFFICES ASSUME Init PROVE IndInv
  OBVIOUS
<1>1. <<>> \in Seq(Byte) /\ Len(<<>>) = 0
  BY EmptySeq
<1>b. intact \in BOOLEAN
  BY DEF Init
<1>2. TypeOK
  BY ConstantsAssumption, <1>1, <1>b DEF Init, TypeOK, Results
<1>3. WireInOrder
  BY <1>1 DEF Init, WireInOrder, Aligned
<1>4. NoAwaitIntact /\ SendPlace /\ RecvPlace /\ (InCall => query_id # 0)
  BY <1>1 DEF Init, NoAwaitIntact, SendPlace, RecvPlace, InCall, Reading
<1> QED
  BY <1>2, <1>3, <1>4 DEF IndInv

(* The flag is only ever set or left alone. *)
LEMMA FlagBoolean == intact \in BOOLEAN /\ [Next]_vars => intact' \in BOOLEAN
<1> SUFFICES ASSUME intact \in BOOLEAN, [Next]_vars PROVE intact' \in BOOLEAN
  OBVIOUS
<1>1. intact' = TRUE \/ intact' = FALSE \/ intact' = intact
  BY DEF vars, Next, ClientNext, Connect, ConnectFails, QueryNoRandomness,
         QueryDesynchronized, QueryTooLarge, Query, WriteSome, WriteLast, ReadSome,
         OpenLen, OpenBody, TransportFails, Cancel, ServerReads, ServerSends,
         StartRecv, Skip, client
<1> QED BY <1>1

(* One step of the connection, the server or the wire keeps every keystream  *)
(* in the place the invariant says.                                          *)
LEMMA NextInd == IndInv /\ [Next]_vars => IndInv'
<1> SUFFICES ASSUME IndInv, [Next]_vars PROVE IndInv'
  OBVIOUS
<1> DEFINE Asked == InCall => query_id # 0
<1>t. TypeOK
  BY DEF IndInv
<1>p. NoAwaitIntact /\ WireInOrder /\ SendPlace /\ RecvPlace /\ Asked
  BY DEF IndInv
<1>q. ASSUME TypeOK', NoAwaitIntact', WireInOrder', SendPlace', RecvPlace', Asked'
      PROVE  IndInv'
  BY <1>q DEF IndInv
<1> HIDE DEF Asked
<1>a. /\ Len(toClient) \in Nat /\ Len(toServer) \in Nat
      /\ Len(pending) \in Nat /\ Len(got) \in Nat
      /\ tx \in Nat /\ rx \in Nat /\ stx \in Nat /\ srx \in Nat /\ query_id \in Nat
  BY <1>t, LenProperties, ConstantsAssumption DEF TypeOK
<1>e. <<>> \in Seq(Byte) /\ Len(<<>>) = 0 /\ \A at : Aligned(<<>>, at)
  BY EmptySeq DEF Aligned
<1>b. intact' \in BOOLEAN
  BY <1>t, FlagBoolean DEF TypeOK
<1> USE DEF InCall, Reading, loop, server, wire
(* Steps that leave the keystreams and the wire alone: the invariant's parts *)
(* depend only on the control state and the flag.                            *)
<1>1. ASSUME UNCHANGED <<tx, rx, query_id, server, wire>>, TypeOK',
             \/ pc = "closed" /\ pc' \in {"closed", "idle"} /\ (pc' = "closed" => ~intact')
             \/ pc \in {"idle", "write", "prefix", "body"} /\ pc' = "idle" /\ intact' = intact
      PROVE  IndInv'
  <2>1. NoAwaitIntact' /\ Asked'
    BY <1>1 DEF NoAwaitIntact, Asked
  <2>2. WireInOrder'
    BY <1>1, <1>p DEF WireInOrder
  <2>3. SendPlace'
    BY <1>1, <1>p, <1>a, <1>e DEF SendPlace, WireInOrder, NoAwaitIntact
  <2>4. RecvPlace'
    BY <1>1, <1>p, <1>a, <1>e DEF RecvPlace, WireInOrder, NoAwaitIntact
  <2> QED BY <1>1, <1>q, <2>1, <2>2, <2>3, <2>4
<1>2. CASE Connect
  BY <1>1, <1>2, <1>t, <1>b DEF Connect, TypeOK
<1>3. CASE ConnectFails
  <2>1. TypeOK'
    BY <1>3, <1>t, <1>b DEF ConnectFails, TypeOK, Results
  <2> QED BY <1>1, <1>3, <1>p, <2>1 DEF ConnectFails, WireInOrder
<1>4. CASE QueryNoRandomness
  BY <1>1, <1>4, <1>t, <1>b, <1>e DEF QueryNoRandomness, Return, TypeOK, Results
<1>5. CASE QueryDesynchronized
  BY <1>1, <1>5, <1>t, <1>b, <1>e DEF QueryDesynchronized, Return, TypeOK, Results
<1>6. CASE TransportFails
  BY <1>1, <1>6, <1>t, <1>b, <1>e DEF TransportFails, Return, TypeOK, Results
<1>7. CASE Cancel
  BY <1>1, <1>7, <1>t, <1>b, <1>e DEF Cancel, Return, TypeOK, Results
<1>8. ASSUME NEW size \in Messages, QueryTooLarge(size) PROVE IndInv'
  BY <1>1, <1>8, <1>t, <1>b, <1>e DEF QueryTooLarge, Return, TypeOK, Results
<1>9. ASSUME NEW size \in Messages, Query(size) PROVE IndInv'
  <2> DEFINE frm == [kind |-> "query", id |-> query_id + 1, len |-> size + MIN_FRAME]
  <2>1. frm \in Frame /\ frm.len \in Nat
    BY <1>9, <1>t, ConstantsAssumption DEF Query, Frame, Kinds, TypeOK
  <2>2. pending' \in Seq(Byte) /\ Len(pending') = PREFIX + frm.len
    BY <1>9, <1>a, <2>1, SealedBytes DEF Query
  <2>3. /\ tx' = tx + PREFIX + frm.len /\ pc = "idle" /\ pc' = "write"
        /\ intact /\ ~intact' /\ query_id' = query_id + 1
        /\ rx' = rx /\ srx' = srx /\ stx' = stx
        /\ toServer' = toServer /\ toClient' = toClient
    BY <1>9 DEF Query
  <2> HIDE DEF frm
  <2>4. TypeOK'
    BY <1>9, <1>t, <1>b, <2>1, <2>2, <2>3, ConstantsAssumption DEF Query, TypeOK
  <2>5. SendPlace' /\ RecvPlace'
    <3>1. srx + Len(toServer) = tx /\ rx + Len(toClient) = stx
      BY <1>p, <2>3 DEF SendPlace, RecvPlace
    <3>2. tx' = tx + Len(pending')
      <4>1. /\ tx' = tx + PREFIX + frm.len /\ Len(pending') = PREFIX + frm.len
            /\ tx \in Nat /\ PREFIX \in Nat /\ frm.len \in Nat
        BY <1>a, <2>1, <2>2, <2>3, ConstantsAssumption
      <4> QED BY <4>1
    <3>3. srx' + Len(toServer') + Len(pending') = tx'
      BY <2>3, <3>1, <3>2
    <3> QED BY <2>3, <3>1, <3>3 DEF SendPlace, RecvPlace
  <2>6. WireInOrder' /\ NoAwaitIntact' /\ Asked'
    BY <1>p, <1>a, <2>3 DEF WireInOrder, NoAwaitIntact, Asked
  <2> QED BY <1>q, <2>4, <2>5, <2>6
<1>10. CASE WriteSome
  <2>1. Head(pending) \in Byte /\ Tail(pending) \in Seq(Byte)
        /\ Len(Tail(pending)) = Len(pending) - 1
    <3>1. pending \in Seq(Byte) /\ pending # <<>>
      BY <1>10, <1>t, <1>e DEF WriteSome, TypeOK
    <3> QED BY <3>1, HeadTailProperties
  <2>2. toServer' \in Seq(Byte) /\ Len(toServer') = Len(toServer) + 1
    BY <1>10, <1>t, <2>1, AppendProperties DEF WriteSome, TypeOK
  <2>3. TypeOK'
    BY <1>10, <1>t, <1>b, <2>1, <2>2 DEF WriteSome, TypeOK
  <2>4. SendPlace' /\ RecvPlace'
    <3>1. /\ pc = "write" /\ pc' = "write" /\ ~intact /\ intact' = intact
          /\ UNCHANGED <<rx, tx, srx, stx, toClient>> /\ pending' = Tail(pending)
      BY <1>10, <1>p DEF WriteSome, NoAwaitIntact
    <3>2. srx' + Len(toServer') + Len(pending') = tx'
      BY <1>p, <1>a, <2>1, <2>2, <3>1 DEF SendPlace
    <3> QED BY <1>p, <3>1, <3>2 DEF SendPlace, RecvPlace
  <2>5. WireInOrder' /\ NoAwaitIntact' /\ Asked'
    BY <1>10, <1>p DEF WriteSome, WireInOrder, NoAwaitIntact, Asked
  <2> QED BY <1>q, <2>3, <2>4, <2>5
<1>11. CASE WriteLast
  <2>1. Head(pending) \in Byte
    <3>1. Len(pending) = 1
      BY <1>11 DEF WriteLast
    <3>2. pending \in Seq(Byte)
      BY <1>t DEF TypeOK
    <3>3. pending # <<>>
      BY <1>e, <3>1
    <3> QED BY <3>2, <3>3, HeadTailProperties
  <2>2. toServer' \in Seq(Byte) /\ Len(toServer') = Len(toServer) + 1
    BY <1>11, <1>t, <2>1, AppendProperties DEF WriteLast, TypeOK
  <2>3. TypeOK'
    BY <1>11, <1>t, <1>b, <1>e, <2>2 DEF WriteLast, StartRecv, TypeOK
  <2>4. SendPlace' /\ RecvPlace'
    BY <1>11, <1>p, <1>a, <1>e, <2>2
       DEF WriteLast, StartRecv, SendPlace, RecvPlace
  <2>5. WireInOrder' /\ NoAwaitIntact' /\ Asked'
    BY <1>11, <1>p DEF WriteLast, StartRecv, WireInOrder, NoAwaitIntact, Asked
  <2> QED BY <1>q, <2>3, <2>4, <2>5
(* What one byte off the socket does to a read in progress. *)
<1>12. ASSUME Reading, toClient # <<>>
       PROVE  /\ Taken \in Seq(Byte) /\ Len(Taken) = Len(got) + 1
              /\ Aligned(Taken, rx) /\ Tail(toClient) \in Seq(Byte)
              /\ Len(Tail(toClient)) = Len(toClient) - 1
              /\ Len(toClient) - 1 <= stx
              /\ Aligned(Tail(toClient), stx - (Len(toClient) - 1))
              /\ rx + Len(Taken) + Len(Tail(toClient)) = stx
              /\ srx + Len(toServer) = tx /\ ~intact /\ query_id # 0
  <2>1. stx - Len(toClient) \in Nat /\ stx - Len(toClient) = rx + Len(got)
        /\ rx + Len(got) + Len(toClient) = stx
    BY <1>12, <1>a, <1>p DEF RecvPlace
  <2>2. got \in Seq(Byte) /\ toClient \in Seq(Byte)
    BY <1>t DEF TypeOK
  <2>3. /\ Head(toClient) \in Byte /\ Head(toClient).pos = rx + Len(got)
        /\ Tail(toClient) \in Seq(Byte) /\ Len(Tail(toClient)) = Len(toClient) - 1
        /\ Aligned(Tail(toClient), stx - Len(toClient) + 1)
    BY <1>12, <1>p, <2>1, <2>2, AlignedTail DEF WireInOrder
  <2>4. Taken \in Seq(Byte) /\ Len(Taken) = Len(got) + 1 /\ Aligned(Taken, rx)
    BY <1>12, <1>a, <1>p, <2>2, <2>3, AlignedAppend DEF Taken, RecvPlace
  <2>5. stx - Len(toClient) + 1 = stx - (Len(toClient) - 1)
    BY <1>a
  <2>6. srx + Len(toServer) = tx /\ ~intact /\ query_id # 0
    BY <1>12, <1>p DEF SendPlace, NoAwaitIntact, Asked
  <2>7. Len(toClient) - 1 <= stx /\ rx + Len(Taken) + Len(Tail(toClient)) = stx
    BY <1>a, <2>1, <2>3, <2>4
  <2> QED BY <2>3, <2>4, <2>5, <2>6, <2>7
<1>13. ASSUME Reading, toClient # <<>>, toClient' = Tail(toClient), TypeOK',
              pc' \in {"idle", "prefix", "body"}, query_id' = query_id,
              UNCHANGED <<tx, stx, srx, toServer>>,
              pc' \in {"prefix", "body"} => ~intact',
              intact' => rx' = rx + Len(Taken),
              Reading' => rx' + Len(got') = rx + Len(Taken) /\ Aligned(got', rx')
       PROVE  IndInv'
  <2>1. NoAwaitIntact' /\ Asked'
    BY <1>13, <1>12 DEF NoAwaitIntact, Asked
  <2>2. WireInOrder'
    BY <1>13, <1>12 DEF WireInOrder
  <2>3. SendPlace'
    BY <1>13, <1>12 DEF SendPlace
  <2>4. RecvPlace'
    BY <1>13, <1>12, <1>a DEF RecvPlace
  <2> QED BY <1>13, <1>q, <2>1, <2>2, <2>3, <2>4
<1>14. CASE ReadSome
  <2>1. /\ Reading /\ toClient # <<>> /\ got' = Taken /\ toClient' = Tail(toClient)
        /\ pc' = pc /\ rx' = rx /\ intact' = intact /\ query_id' = query_id
        /\ UNCHANGED <<tx, stx, srx, toServer>>
    BY <1>14 DEF ReadSome
  <2>2. TypeOK'
    BY <1>14, <1>12, <1>t, <1>b, <2>1 DEF ReadSome, TypeOK
  <2> QED BY <1>12, <1>13, <2>1, <2>2
<1>15. CASE OpenLen
  <2>1. /\ Reading /\ toClient # <<>> /\ toClient' = Tail(toClient)
        /\ rx' = rx + PREFIX /\ Len(got) + 1 = PREFIX
        /\ intact' = intact /\ query_id' = query_id
        /\ UNCHANGED <<tx, stx, srx, toServer>>
    BY <1>15 DEF OpenLen
  <2>2. got' = <<>> /\ pc' \in {"idle", "body"}
    BY <1>15 DEF OpenLen, Return
  <2>3. len' \in Nat /\ pending' \in Seq(Byte) /\ result' \in Results
    <3>1. len \in Nat /\ pending \in Seq(Byte) /\ result \in Results
      BY <1>t DEF TypeOK
    <3>2. len' \in Nat
      BY <1>15, <3>1, ConstantsAssumption DEF OpenLen
    <3>3. pending' \in Seq(Byte)
      BY <1>15, <1>e, <3>1 DEF OpenLen, Return
    <3>4. result' \in Results
      BY <1>15, <3>1 DEF OpenLen, Return, Results
    <3> QED BY <3>2, <3>3, <3>4
  <2>4. TypeOK'
    BY <1>15, <1>12, <1>t, <1>a, <1>b, <1>e, <2>1, <2>2, <2>3, ConstantsAssumption
       DEF OpenLen, TypeOK
  <2>5. rx' = rx + Len(Taken) /\ rx' + Len(got') = rx + Len(Taken) /\ Aligned(got', rx')
    <3>1. Len(Taken) = PREFIX /\ rx' = rx + PREFIX
      BY <1>12, <2>1
    <3>2. Len(got') = 0 /\ Aligned(got', rx')
      BY <1>e, <2>2
    <3> QED BY <1>a, <3>1, <3>2, ConstantsAssumption
  <2> QED BY <1>12, <1>13, <2>1, <2>2, <2>4, <2>5
<1>16. CASE OpenBody
  <2>1. /\ Reading /\ toClient # <<>> /\ toClient' = Tail(toClient)
        /\ rx' = rx + len /\ Len(got) + 1 = len /\ query_id' = query_id /\ len' = len
        /\ UNCHANGED <<tx, stx, srx, toServer, heard, sent>>
    BY <1>16 DEF OpenBody
  <2>2. /\ got' = <<>> /\ pc' \in {"idle", "prefix"}
        /\ pc' = "prefix" => ~intact'
    BY <1>16 DEF OpenBody, Skip, StartRecv, Return
  <2>3. pending' \in Seq(Byte) /\ result' \in Results
    BY <1>16, <1>t, <1>e DEF OpenBody, Skip, Return, TypeOK, Results
  <2>4. frames' \in 0..MAX_FRAMES_PER_QUERY /\ undecodable' \in 0..frames'
    <3>1. frames \in 0..MAX_FRAMES_PER_QUERY /\ undecodable \in 0..frames
      BY <1>t DEF TypeOK
    <3>2. CASE UNCHANGED <<frames, undecodable>>
      BY <3>1, <3>2
    <3>3. CASE /\ frames' = frames + 1 /\ frames + 1 <= MAX_FRAMES_PER_QUERY
               /\ undecodable' \in {undecodable, undecodable + 1}
      BY <3>1, <3>3, ConstantsAssumption
    <3>4. ASSUME NEW misread \in {undecodable, undecodable + 1}, Skip(misread)
          PROVE  /\ frames' = frames + 1 /\ frames + 1 <= MAX_FRAMES_PER_QUERY
                 /\ undecodable' \in {undecodable, undecodable + 1}
      BY <3>1, <3>4, ConstantsAssumption DEF Skip
    <3> QED BY <1>16, <3>2, <3>3, <3>4 DEF OpenBody
  <2>5. answer' \in 0..MaxQueries
    BY <1>16, <1>t DEF OpenBody, Skip, IsAnswer, TypeOK
  <2>6. TypeOK'
    BY <1>12, <1>t, <1>a, <1>b, <1>e, <2>1, <2>2, <2>3, <2>4, <2>5 DEF TypeOK
  <2>7. rx' = rx + Len(Taken) /\ rx' + Len(got') = rx + Len(Taken) /\ Aligned(got', rx')
    <3>1. Len(Taken) = len /\ rx' = rx + len
      BY <1>12, <2>1
    <3>2. Len(got') = 0 /\ Aligned(got', rx')
      BY <1>e, <2>2
    <3>3. len \in Nat
      BY <1>t DEF TypeOK
    <3> QED BY <1>a, <3>1, <3>2, <3>3
  <2> QED BY <1>12, <1>13, <2>1, <2>2, <2>6, <2>7
<1>17. CASE ServerReads
  <2> DEFINE n == PREFIX + toServer[1].frm.len
  <2>1. /\ toServer # <<>> /\ n <= Len(toServer) /\ srx' = srx + n
        /\ toServer' = SubSeq(toServer, n + 1, Len(toServer))
        /\ heard' = toServer[1].frm.id
        /\ UNCHANGED <<client, stx, sent, toClient>>
    BY <1>17 DEF ServerReads
  <2>2. toServer \in Seq(Byte)
    BY <1>t DEF TypeOK
  <2>3. n \in Nat /\ heard' \in 0..MaxQueries
    BY <2>1, <2>2, FirstByte
  <2> HIDE DEF n
  <2>4. toServer' \in Seq(Byte) /\ Len(toServer') = Len(toServer) - n
    BY <2>1, <2>2, <2>3, Dropped
  <2>5. TypeOK'
    BY <1>t, <2>1, <2>3, <2>4 DEF TypeOK, client
  <2>6. SendPlace' /\ RecvPlace'
    <3>1. srx' + Len(toServer') = srx + Len(toServer)
      <4>1. srx' = srx + n
        BY <2>1
      <4> QED BY <1>a, <2>3, <2>4, <4>1
    <3> QED BY <1>p, <2>1, <3>1 DEF SendPlace, RecvPlace, client
  <2>7. WireInOrder' /\ NoAwaitIntact' /\ Asked'
    <3>1. pc # "closed"
      BY <1>p, <2>1 DEF WireInOrder
    <3> QED BY <1>p, <2>1, <3>1 DEF WireInOrder, NoAwaitIntact, Asked, client
  <2> QED BY <1>q, <2>5, <2>6, <2>7
<1>18. ASSUME NEW frm \in ServerFrames, ServerSends(frm) PROVE IndInv'
  <2>1. frm \in Frame /\ frm.len \in Nat
    BY ConstantsAssumption DEF ServerFrames, Frame, Kinds
  <2>2. /\ Sealed(frm, stx) \in Seq(Byte) /\ Len(Sealed(frm, stx)) = PREFIX + frm.len
        /\ Aligned(Sealed(frm, stx), stx)
    BY <1>a, <2>1, SealedBytes
  <2>3. /\ pc # "closed" /\ toClient' = toClient \o Sealed(frm, stx)
        /\ stx' = stx + PREFIX + frm.len /\ sent' \in 0..MaxServerFrames
        /\ UNCHANGED <<client, srx, heard, toServer>>
    BY <1>18, <1>t, ConstantsAssumption DEF ServerSends, TypeOK
  <2>4. /\ toClient' \in Seq(Byte) /\ Len(toClient') = Len(toClient) + PREFIX + frm.len
        /\ Aligned(toClient', stx - Len(toClient))
    <3>1. stx - Len(toClient) \in Nat /\ stx = stx - Len(toClient) + Len(toClient)
      BY <1>a, <1>p DEF WireInOrder
    <3>2. toClient \in Seq(Byte) /\ Aligned(toClient, stx - Len(toClient))
      BY <1>t, <1>p DEF TypeOK, WireInOrder
    <3>3. /\ toClient' \in Seq(Byte) /\ Aligned(toClient', stx - Len(toClient))
          /\ Len(toClient') = Len(toClient) + Len(Sealed(frm, stx))
      BY <2>2, <2>3, <3>1, <3>2, AlignedConcat
    <3>4. Len(toClient') = Len(toClient) + (PREFIX + frm.len)
      BY <2>2, <3>3
    <3>5. PREFIX \in Nat /\ frm.len \in Nat /\ Len(toClient) \in Nat
      BY <1>a, <2>1, ConstantsAssumption
    <3>6. Len(toClient') = Len(toClient) + PREFIX + frm.len
      BY <3>4, <3>5
    <3> QED BY <3>3, <3>6
  <2>5. TypeOK'
    <3>1. stx' \in Nat
      <4>1. /\ stx \in Nat /\ PREFIX \in Nat /\ frm.len \in Nat
            /\ stx' = stx + PREFIX + frm.len
        BY <1>a, <2>1, <2>3, ConstantsAssumption
      <4> QED BY <4>1
    <3> QED BY <1>t, <2>3, <2>4, <3>1 DEF TypeOK, client
  <2>6. stx' - Len(toClient') = stx - Len(toClient) /\ Len(toClient') <= stx'
    <3>1. /\ stx' = stx + PREFIX + frm.len /\ Len(toClient) <= stx
          /\ Len(toClient') = Len(toClient) + PREFIX + frm.len
      BY <1>p, <2>3, <2>4 DEF WireInOrder
    <3>2. PREFIX \in Nat /\ frm.len \in Nat /\ stx \in Nat /\ Len(toClient) \in Nat
      BY <1>a, <2>1, ConstantsAssumption
    <3> QED BY <3>1, <3>2
  <2>7. WireInOrder' /\ NoAwaitIntact' /\ Asked'
    BY <1>p, <2>3, <2>4, <2>6 DEF WireInOrder, NoAwaitIntact, Asked, client
  <2>8. SendPlace' /\ RecvPlace'
    <3>1. \A k \in Nat : k + Len(toClient) = stx => k + Len(toClient') = stx'
      <4>1. /\ stx' = stx + PREFIX + frm.len
            /\ Len(toClient') = Len(toClient) + PREFIX + frm.len
        BY <2>3, <2>4
      <4>2. PREFIX \in Nat /\ frm.len \in Nat /\ stx \in Nat /\ Len(toClient) \in Nat
        BY <1>a, <2>1, ConstantsAssumption
      <4> SUFFICES ASSUME NEW k \in Nat, k + Len(toClient) = stx
                   PROVE  k + Len(toClient') = stx'
        OBVIOUS
      <4>3. k + (Len(toClient) + PREFIX + frm.len) = stx + PREFIX + frm.len
        BY <4>2, Shift
      <4> QED BY <4>1, <4>3
    <3>2. rx + Len(got) \in Nat
      BY <1>a
    <3>3. UNCHANGED <<pc, intact, tx, rx, pending, got, srx, toServer>>
      BY <2>3 DEF client
    <3>4. SendPlace'
      BY <1>p, <3>3 DEF SendPlace
    <3>5. RecvPlace'
      BY <1>p, <1>a, <3>1, <3>2, <3>3 DEF RecvPlace
    <3> QED BY <3>4, <3>5
  <2> QED BY <1>q, <2>5, <2>7, <2>8
<1>19. CASE UNCHANGED vars
  BY <1>19, <1>t, <1>p, <1>q DEF vars, client, TypeOK, NoAwaitIntact, WireInOrder,
     SendPlace, RecvPlace, Asked
<1> QED
  BY <1>2, <1>3, <1>4, <1>5, <1>6, <1>7, <1>8, <1>9, <1>10, <1>11, <1>14, <1>15, <1>16,
     <1>17, <1>18, <1>19 DEF Next, ClientNext

----------------------------------------------------------------------------
(* The inductive invariant holds in every reachable state. *)
THEOREM Inductive == Spec => []IndInv
  BY InitInd, NextInd, PTL DEF Spec

(* Every variable of the connection keeps its type: in particular the frame  *)
(* budget is never overrun and no more frames are undecodable than read.     *)
THEOREM TypeCorrect == Spec => []TypeOK
<1>1. IndInv => TypeOK
  BY DEF IndInv
<1> QED BY <1>1, Inductive, PTL

(* Whenever `intact` is up, both keystreams stand where the server stands.   *)
THEOREM KeepsItsPlace == Spec => []Synchronized
<1>1. IndInv => Synchronized
  BY DEF IndInv, SendPlace, RecvPlace, Synchronized
<1> QED BY <1>1, Inductive, PTL

(* A read in progress only ever meets bytes at its own keystream position,   *)
(* whatever calls were abandoned before it.                                  *)
THEOREM ReadsStayInStep == Spec => []ReadsInStep
<1>1. IndInv => ReadsInStep
  <2> SUFFICES ASSUME IndInv, Reading PROVE Aligned(got, rx) /\ Aligned(toClient, rx + Len(got))
    BY DEF ReadsInStep, Reading
  <2>1. Aligned(got, rx) /\ rx + Len(got) + Len(toClient) = stx
    BY DEF IndInv, RecvPlace
  <2>2. Aligned(toClient, stx - Len(toClient))
    BY DEF IndInv, WireInOrder
  <2>3. Len(got) \in Nat /\ Len(toClient) \in Nat /\ rx \in Nat
    BY LenProperties DEF IndInv, TypeOK
  <2>4. stx - Len(toClient) = rx + Len(got)
    BY <2>1, <2>3
  <2> QED BY <2>1, <2>2, <2>4
<1> QED BY <1>1, Inductive, PTL

(* No query awaits with the flag up, so a future dropped at any await leaves *)
(* a session that refuses every later query.                                 *)
THEOREM DroppedFutureLosesSession == Spec => []NoAwaitIntact
<1>1. IndInv => NoAwaitIntact
  BY DEF IndInv
<1> QED BY <1>1, Inductive, PTL

(* A lost session never shows an answer as its last result. *)
LostShowsNoAnswer == pc = "idle" /\ ~intact => result # "Ok"

(* The client's own steps out of a lost session are the two refusals. *)
LEMMA LostStep ==
  ASSUME pc = "idle", ~intact, Next
  PROVE  \/ QueryNoRandomness \/ QueryDesynchronized \/ ServerReads
         \/ \E frm \in ServerFrames : ServerSends(frm)
  BY DEF Next, ClientNext, Connect, ConnectFails, QueryTooLarge, Query, WriteSome,
         WriteLast, ReadSome, OpenLen, OpenBody, TransportFails, Cancel

LEMMA LostShowsNoAnswerInv == Spec => []LostShowsNoAnswer
<1>1. Init => LostShowsNoAnswer
  BY DEF Init, LostShowsNoAnswer
<1>2. ASSUME IndInv, LostShowsNoAnswer, [Next]_vars PROVE LostShowsNoAnswer'
  <2>1. CASE UNCHANGED vars
    BY <1>2, <2>1 DEF LostShowsNoAnswer, vars, client
  <2>2. CASE pc = "idle" /\ ~intact /\ Next
    BY <1>2, <2>2, LostStep DEF LostShowsNoAnswer, QueryNoRandomness, QueryDesynchronized,
       Return, ServerReads, ServerSends, client
  <2>3. CASE ~(pc = "idle" /\ ~intact) /\ Next
    <3> SUFFICES ASSUME pc' = "idle", ~intact' PROVE result' # "Ok"
      BY DEF LostShowsNoAnswer
    <3>1. InCall => ~intact
      BY <1>2 DEF IndInv, NoAwaitIntact, InCall
    <3> QED
      BY <2>3, <3>1 DEF Next, ClientNext, Connect, ConnectFails, QueryNoRandomness,
         QueryDesynchronized, QueryTooLarge, Query, WriteSome, WriteLast, StartRecv, ReadSome,
         OpenLen, OpenBody, Skip, TransportFails, Cancel, Return, ServerReads, ServerSends,
         client, InCall
  <2> QED BY <1>2, <2>1, <2>2, <2>3
<1> QED BY <1>1, <1>2, Inductive, PTL DEF Spec

(* A lost session is lost for good: no keystream advances, no byte is        *)
(* written or taken, and no answer is handed back.                           *)
THEOREM LostForGood == Spec => LostIsFinal
<1>1. ASSUME IndInv, LostShowsNoAnswer, [Next]_vars
      PROVE  [pc = "idle" /\ ~intact =>
                /\ pc' = "idle" /\ ~intact' /\ result' # "Ok"
                /\ UNCHANGED <<tx, rx, answer>>
                /\ Len(toServer') <= Len(toServer) /\ Len(toClient') >= Len(toClient)]_vars
  <2> SUFFICES ASSUME Next, pc = "idle", ~intact
               PROVE  /\ pc' = "idle" /\ ~intact' /\ result' # "Ok"
                      /\ UNCHANGED <<tx, rx, answer>>
                      /\ Len(toServer') <= Len(toServer)
                      /\ Len(toClient') >= Len(toClient)
    BY <1>1
  <2>1. /\ toServer \in Seq(Byte) /\ toClient \in Seq(Byte)
        /\ Len(toServer) \in Nat /\ Len(toClient) \in Nat
    BY <1>1, LenProperties DEF IndInv, TypeOK
  <2>2. /\ pc' = "idle" /\ ~intact' /\ result' # "Ok" /\ UNCHANGED <<tx, rx, answer>>
    <3>1. result # "Ok"
      BY <1>1 DEF LostShowsNoAnswer
    <3>2. CASE QueryNoRandomness \/ QueryDesynchronized
      BY <3>2 DEF QueryNoRandomness, QueryDesynchronized, Return
    <3>3. CASE UNCHANGED client
      BY <3>1, <3>3 DEF client
    <3> QED BY <3>2, <3>3, LostStep DEF ServerReads, ServerSends
  <2>3. CASE QueryNoRandomness \/ QueryDesynchronized
    BY <2>1, <2>2, <2>3 DEF QueryNoRandomness, QueryDesynchronized, wire
  <2>4. CASE ServerReads
    <3> DEFINE n == PREFIX + toServer[1].frm.len
    <3>1. /\ toServer # <<>> /\ toServer' = SubSeq(toServer, n + 1, Len(toServer))
          /\ toClient' = toClient
      BY <2>4 DEF ServerReads
    <3>2. n \in Nat
      BY <2>1, <3>1, FirstByte
    <3> HIDE DEF n
    <3>3. Len(toServer') <= Len(toServer)
      BY <2>1, <3>1, <3>2, Dropped
    <3>4. Len(toClient') >= Len(toClient)
      BY <2>1, <3>1
    <3> QED BY <2>2, <3>3, <3>4
  <2>5. ASSUME NEW frm \in ServerFrames, ServerSends(frm)
        PROVE  Len(toServer') <= Len(toServer) /\ Len(toClient') >= Len(toClient)
    <3>1. frm \in Frame /\ stx \in Nat
      BY <1>1, ConstantsAssumption DEF ServerFrames, Frame, Kinds, IndInv, TypeOK
    <3>2. Sealed(frm, stx) \in Seq(Byte)
      BY <3>1, SealedBytes
    <3>3. toServer' = toServer /\ toClient' = toClient \o Sealed(frm, stx)
      BY <2>5 DEF ServerSends
    <3>4. Len(toClient') = Len(toClient) + Len(Sealed(frm, stx)) /\ Len(Sealed(frm, stx)) \in Nat
      BY <2>1, <3>2, <3>3, ConcatProperties, LenProperties
    <3> QED BY <2>1, <3>3, <3>4
  <2> QED BY <2>2, <2>3, <2>4, <2>5, LostStep
<1> QED BY <1>1, Inductive, LostShowsNoAnswerInv, PTL DEF Spec, LostIsFinal

(* The connection implements AdnlSession: one call at a time, each answered  *)
(* with its own answer, failed, or ending the session.                       *)
THEOREM Refinement == Spec => ImplementsSession
<1>1. Init => Session!Init
  BY DEF Init, Session!Init
<1>2. ASSUME IndInv, [Next]_vars PROVE [Session!Next]_(Session!vars)
  <2> USE DEF Session!Next, Session!vars, Session!Open, Session!Start, Session!Answered,
              Session!Unanswered, Session!Lose
  <2>1. (InCall => query_id # 0 /\ ~intact) /\ query_id \in Nat
    BY <1>2, ConstantsAssumption DEF IndInv, NoAwaitIntact, InCall, TypeOK
  <2>s. ASSUME pc' = pc, intact' = intact, query_id' = query_id, answer' = answer
        PROVE  UNCHANGED Session!vars
    BY <2>s
  <2>2. CASE Connect
    BY <2>2 DEF Connect, loop
  <2>3. CASE ConnectFails \/ QueryNoRandomness \/ QueryDesynchronized
             \/ (\E size \in Messages : QueryTooLarge(size))
    <3>1. pc' = pc /\ intact' = intact /\ query_id' = query_id /\ answer' = answer
      BY <2>3 DEF ConnectFails, QueryNoRandomness, QueryDesynchronized, QueryTooLarge,
         Return, loop
    <3> QED BY <2>s, <3>1
  <2>4. ASSUME NEW size \in Messages, Query(size) PROVE Session!Start
    BY <2>1, <2>4 DEF Query
  <2>5. CASE WriteSome \/ WriteLast \/ ReadSome
    BY <2>5 DEF WriteSome, WriteLast, StartRecv, ReadSome, loop
  <2>6. CASE OpenLen
    <3>1. CASE pc' = "body"
      BY <2>6, <3>1 DEF OpenLen
    <3>2. CASE pc' = "idle"
      BY <2>1, <2>6, <3>2 DEF OpenLen, InCall
    <3> QED BY <2>6, <3>1, <3>2 DEF OpenLen, Return
  <2>7. CASE OpenBody
    <3>1. pc = "body" /\ query_id' = query_id /\ InCall
      BY <2>7 DEF OpenBody, InCall
    <3>2. \/ pc' = "idle" /\ ~intact' /\ answer' = answer
          \/ pc' = "idle" /\ intact' /\ answer' \in {answer, query_id}
          \/ pc' = "prefix" /\ answer' = answer
      BY <2>1, <2>7, <3>1 DEF OpenBody, Skip, StartRecv, Return, IsAnswer
    <3>3. CASE pc' = "idle" /\ ~intact' /\ answer' = answer
      BY <2>1, <3>1, <3>3
    <3>4. CASE pc' = "idle" /\ intact' /\ answer' \in {answer, query_id}
      BY <2>1, <3>1, <3>4
    <3>5. CASE pc' = "prefix" /\ answer' = answer
      BY <2>1, <3>1, <3>5
    <3> QED BY <3>2, <3>3, <3>4, <3>5
  <2>8. CASE TransportFails \/ Cancel
    BY <2>1, <2>8 DEF TransportFails, Cancel, Return, InCall, loop
  <2>9. CASE ServerReads \/ (\E frm \in ServerFrames : ServerSends(frm)) \/ UNCHANGED vars
    <3>1. pc' = pc /\ intact' = intact /\ query_id' = query_id /\ answer' = answer
      BY <2>9 DEF ServerReads, ServerSends, vars, client
    <3> QED BY <2>s, <3>1
  <2> QED
    BY <1>2, <2>2, <2>3, <2>4, <2>5, <2>6, <2>7, <2>8, <2>9 DEF Next, ClientNext
<1> QED BY <1>1, <1>2, Inductive, PTL DEF Spec, ImplementsSession, Session!Spec
=============================================================================
