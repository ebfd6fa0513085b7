---------------------------- MODULE DriverProofs ----------------------------
(***************************************************************************)
(* Theorems about the drivers, for every value of the constants: first the *)
(* serial node to the base (SerialNode.tla), then the lidar's node and its *)
(* caching thread (Lidar.tla).  The two parts share nothing but this       *)
(* module.                                                                 *)
(***************************************************************************)
EXTENDS SerialNode, Lidar, TLAPS

USE DEF vars, readVars, writeVars, FrameLength, Uncaught

\* What the node has not analysed yet: the buffer, and the port behind it.
Total == Len(buffer) + Len(port)
At(k) == IF k <= Len(buffer) THEN buffer[k] ELSE port[k - Len(buffer)]

\* The parts that the base sends, counted on.
Number(part) == 3 * part.f + part.i

\* The place in a frame that place k of a stream of whole frames has.
Place(k) == IF k % 3 = 0 THEN 3 ELSE k % 3

\* Parts come in the order they were sent, and behind what was published.
InSequence ==
  /\ \A k \in 1..Total : Number(At(k)) < Number(base)
  /\ \A j, k \in 1..Total : j < k => Number(At(j)) < Number(At(k))
  /\ \A i \in DOMAIN published : /\ 3 * published[i] + 3 < Number(base)
                                 /\ \A k \in 1..Total : 3 * published[i] + 3 < Number(At(k))

\* While the node is in step, the frames lie one behind the other from the first place on.
InStep ==
  aligned => /\ \A k \in 1..Total : At(k).i = Place(k)
             /\ ~paused => base.i = Place(Total + 1)

Rising ==
  \A i, j \in DOMAIN published :
    i < j /\ published[i] # 0 /\ published[j] # 0 => published[i] < published[j]

\* The frame to be written takes the latest bucket along.
Writes == pc = "write" => ~unsent

Inv == TypeOK /\ InSequence /\ InStep /\ Rising /\ Writes /\ LastFrame

-----------------------------------------------------------------------------
LEMMA Elements ==
  ASSUME NEW S, NEW s \in Seq(S)
  PROVE  /\ Len(s) \in Nat /\ DOMAIN s = 1..Len(s)
         /\ \A i \in 1..Len(s) : s[i] \in S
OBVIOUS

\* The stream, and its parts.
LEMMA Stream ==
  ASSUME TypeOK
  PROVE  /\ Len(buffer) \in Nat /\ Len(buffer) <= 3 /\ Len(port) \in Nat /\ Total \in Nat
         /\ \A k \in 1..Total : At(k) \in [f : 1..MaxFrames, i : 1..3]
         /\ \A k \in 1..Len(buffer) : k \in 1..Total /\ At(k) = buffer[k]
         /\ base \in [f : 1..(MaxFrames + 1), i : 1..3]
         /\ base.f \in 1..(MaxFrames + 1) /\ base.i \in 1..3 /\ Number(base) \in Nat
         /\ \A k \in 1..Total : Number(At(k)) \in Nat
         /\ published \in Seq(0..MaxFrames) /\ MaxFrames \in Nat
         /\ \A i \in DOMAIN published : published[i] \in 0..MaxFrames
<1>1. /\ Len(buffer) \in Nat /\ Len(buffer) <= 3 /\ Len(port) \in Nat /\ Total \in Nat
      /\ \A k \in 1..Len(buffer) : buffer[k] \in [f : 1..MaxFrames, i : 1..3]
      /\ \A k \in 1..Len(port) : port[k] \in [f : 1..MaxFrames, i : 1..3]
  <2>1. buffer \in Seq(Part) /\ port \in Seq(Part) /\ Len(buffer) <= 3
    BY DEF TypeOK
  <2>2. /\ \A k \in 1..Len(buffer) : buffer[k] \in Part
        /\ \A k \in 1..Len(port) : port[k] \in Part
    BY <2>1
  <2>3. Len(buffer) \in Nat /\ Len(port) \in Nat
    BY <2>1
  <2>4. Total \in Nat
    BY <2>3 DEF Total
  <2> QED
    BY <2>1, <2>2, <2>3, <2>4 DEF Part
<1>2. \A k \in 1..Total : At(k) \in [f : 1..MaxFrames, i : 1..3]
  <2> SUFFICES ASSUME NEW k \in 1..Total
               PROVE  At(k) \in [f : 1..MaxFrames, i : 1..3]
    OBVIOUS
  <2>1. CASE k <= Len(buffer)
    BY <1>1, <2>1 DEF At
  <2>2. CASE ~(k <= Len(buffer))
    <3>1. k - Len(buffer) \in 1..Len(port)
      BY <1>1, <2>2 DEF Total
    <3> QED
      BY <1>1, <2>2, <3>1 DEF At
  <2> QED
    BY <2>1, <2>2
<1>3. \A k \in 1..Total : Number(At(k)) \in Nat
  <2>1. \A k \in 1..Total : At(k).f \in Nat /\ At(k).i \in Nat
    BY <1>2, SerialAssumption
  <2> QED
    BY <2>1 DEF Number
<1>4. \A k \in 1..Len(buffer) : k \in 1..Total /\ At(k) = buffer[k]
  BY <1>1 DEF At, Total
<1>5. base \in [f : 1..(MaxFrames + 1), i : 1..3] /\ MaxFrames \in Nat
  BY SerialAssumption DEF TypeOK
<1>6. base.f \in 1..(MaxFrames + 1) /\ base.i \in 1..3
  BY <1>5
<1>7. Number(base) \in Nat
  BY <1>5, <1>6 DEF Number
<1>8. published \in Seq(0..MaxFrames) /\ \A i \in DOMAIN published : published[i] \in 0..MaxFrames
  <2>1. published \in Seq(0..MaxFrames)
    BY DEF TypeOK
  <2> QED
    BY <2>1, Elements
<1> QED
  BY <1>1, <1>2, <1>3, <1>4, <1>5, <1>6, <1>7, <1>8

\* The places of a frame follow one another, and come again every three.
LEMMA PlaceNext ==
  ASSUME NEW k \in Nat
  PROVE  /\ Place(k + 2) = IF Place(k + 1) = 3 THEN 1 ELSE Place(k + 1) + 1
         /\ Place(k + 3) = Place(k)
BY DEF Place

LEMMA SerialInitInv == Init => Inv
<1> SUFFICES ASSUME Init
             PROVE  Inv
  OBVIOUS
<1> USE DEF Init
<1>1. base \in [f : 1..(MaxFrames + 1), i : 1..3]
  BY SerialAssumption
<1>2. TypeOK
  <2>1. <<>> \in Seq(Part) /\ <<>> \in Seq(0..MaxFrames) /\ <<>> \in Seq(Velocities \cup Buckets)
    OBVIOUS
  <2>2. sent \in (Velocities \cup {Zero}) \X (Buckets \cup {Zero})
    OBVIOUS
  <2>3. /\ Len(port) <= PortSize /\ Len(buffer) <= 3 /\ left \in 0..Len(inbox)
        /\ aligned \in BOOLEAN
    BY SerialAssumption
  <2> QED
    BY <1>1, <2>1, <2>2, <2>3 DEF TypeOK
<1>3. Total = 0
  BY DEF Total
<1>4. InSequence /\ Rising
  BY <1>3 DEF InSequence, Rising
<1>5. InStep
  <2>1. Place(1) = 1
    BY DEF Place
  <2>2. Total + 1 = 1 /\ 1..Total = {}
    BY <1>3
  <2> QED
    BY <2>1, <2>2 DEF InStep
<1> QED
  BY <1>2, <1>4, <1>5 DEF Inv, Writes, LastFrame

\* Steps that do not touch the stream.
LEMMA StreamSame ==
  ASSUME Inv, UNCHANGED readVars
  PROVE  InSequence' /\ InStep' /\ Rising'
<1>1. Total' = Total /\ \A k \in 1..Total : At(k)' = At(k)
  BY DEF Total, At
<1> QED
  BY <1>1 DEF Inv, InSequence, InStep, Rising, Number

\* Steps that do not touch the frames to the base.
LEMMA FramesSame ==
  ASSUME Inv, UNCHANGED <<velocity, bucket, unsent, sent, torn>>,
         pc' = pc \/ (pc # "write" /\ pc' # "write") \/ pc' = "dead", pc = "dead" => pc' = "dead"
  PROVE  Writes' /\ LastFrame'
BY DEF Inv, Writes, LastFrame

-----------------------------------------------------------------------------
(* The steps that change the stream.                                         *)

\* The base sends its next part.
LEMMA SendStep ==
  ASSUME Inv, BaseSends
  PROVE  TypeOK' /\ InSequence' /\ InStep' /\ Rising'
<1>1. /\ TypeOK /\ InSequence /\ InStep /\ Rising
      /\ ~paused /\ paused' = paused /\ buffer' = buffer /\ published' = published
      /\ base.f <= MaxFrames
      /\ base' = IF base.i = 3 THEN [f |-> base.f + 1, i |-> 1]
                 ELSE [f |-> base.f, i |-> base.i + 1]
  <2>1. base = [f |-> base.f, i |-> base.i]
    BY Stream DEF Inv
  <2> QED
    BY <2>1 DEF Inv, BaseSends
<1>2. /\ base.f \in 1..MaxFrames /\ base.i \in 1..3 /\ Number(base) \in Nat
      /\ MaxFrames \in Nat /\ base = [f |-> base.f, i |-> base.i]
  BY <1>1, Stream
<1>3. /\ \A k \in 1..Total : Number(At(k)) \in Nat
      /\ base \in Part /\ base' \in [f : 1..(MaxFrames + 1), i : 1..3]
      /\ Number(base') = Number(base) + 1
  <2>1. \A k \in 1..Total : Number(At(k)) \in Nat
    BY <1>1, Stream
  <2>2. base \in Part
    BY <1>2 DEF Part
  <2>3. CASE base.i = 3
    BY <1>1, <1>2, <2>1, <2>2, <2>3 DEF Number
  <2>4. CASE base.i # 3
    BY <1>1, <1>2, <2>1, <2>2, <2>4 DEF Number
  <2> QED
    BY <2>3, <2>4
<1>4. \A i \in DOMAIN published : published[i] \in Nat
  BY <1>1, Stream
<1>5. ASSUME port' = port, aligned' = FALSE
      PROVE  TypeOK' /\ InSequence' /\ InStep' /\ Rising'
  <2>1. Total' = Total /\ \A k \in 1..Total : At(k)' = At(k)
    BY <1>1, <1>5 DEF Total, At
  <2>2. TypeOK'
    BY <1>1, <1>3, <1>5 DEF TypeOK, BaseSends
  <2>3. InSequence'
    <3>1. \A k \in 1..Total : Number(At(k))' = Number(At(k))
      BY <2>1 DEF Number
    <3> QED
      BY <1>1, <1>2, <1>3, <1>4, <2>1, <3>1 DEF InSequence
  <2>4. InStep'
    BY <1>5 DEF InStep
  <2> QED
    BY <1>1, <2>2, <2>3, <2>4 DEF Rising
<1>6. ASSUME Len(port) < PortSize, port' = Append(port, base), aligned' = aligned
      PROVE  TypeOK' /\ InSequence' /\ InStep' /\ Rising'
  <2>1. /\ port' \in Seq(Part) /\ Len(port') = Len(port) + 1
        /\ \A k \in 1..Len(port) : port'[k] = port[k]
        /\ port'[Len(port) + 1] = base
    BY <1>1, <1>3, <1>6 DEF TypeOK
  <2>2. Total' = Total + 1
    BY <1>1, <2>1, Stream DEF Total
  <2>3. \A k \in 1..Total : At(k)' = At(k)
    <3> SUFFICES ASSUME NEW k \in 1..Total
                 PROVE  At(k)' = At(k)
      OBVIOUS
    <3>1. k <= Len(buffer) \/ k - Len(buffer) \in 1..Len(port)
      BY <1>1, Stream DEF Total
    <3> QED
      BY <1>1, <2>1, <3>1 DEF At
  <2>4. \A k \in Nat : k = Total + 1 => At(k)' = base
    <3> SUFFICES ASSUME NEW k \in Nat, k = Total + 1
                 PROVE  At(k)' = base
      OBVIOUS
    <3>1. ~(k <= Len(buffer)) /\ k - Len(buffer) = Len(port) + 1
      BY <1>1, Stream DEF Total
    <3> QED
      BY <1>1, <2>1, <3>1 DEF At
  <2>5. TypeOK'
    <3>1. Len(port') <= PortSize
      BY <1>1, <1>6, <2>1, Stream, SerialAssumption
    <3> QED
      BY <1>1, <1>3, <1>6, <2>1, <3>1 DEF TypeOK, BaseSends
  <2>6. \A k \in 1..Total' : k \in 1..Total \/ k = Total + 1
    BY <1>1, <2>2, Stream
  <2>7. InSequence'
    <3>1. /\ \A k \in 1..Total : Number(At(k))' = Number(At(k))
          /\ \A k \in 1..Total' : k \notin 1..Total => Number(At(k))' = Number(base)
          /\ Number(base)' = Number(base) + 1
      <4>1. \A k \in 1..Total : Number(At(k))' = Number(At(k))
        BY <2>3 DEF Number
      <4>2. \A k \in 1..Total' : k \notin 1..Total => Number(At(k))' = Number(base)
        <5> SUFFICES ASSUME NEW k \in 1..Total', k \notin 1..Total
                     PROVE  Number(At(k))' = Number(base)
          OBVIOUS
        <5>1. k = Total + 1 /\ k \in Nat
          BY <2>6
        <5>2. At(k)' = base
          BY <2>4, <5>1
        <5> QED
          BY <5>2 DEF Number
      <4>3. Number(base)' = Number(base) + 1
        BY <1>3 DEF Number
      <4> QED
        BY <4>1, <4>2, <4>3
    <3>2. \A k \in 1..Total' : Number(At(k))' < Number(base)'
      BY <1>1, <1>2, <1>3, <2>6, <3>1 DEF InSequence
    <3>3. \A j, k \in 1..Total' : j < k => Number(At(j))' < Number(At(k))'
      <4> SUFFICES ASSUME NEW j \in 1..Total', NEW k \in 1..Total', j < k
                   PROVE  Number(At(j))' < Number(At(k))'
        OBVIOUS
      <4>1. j \in 1..Total
        BY <1>1, <2>2, Stream
      <4> QED
        BY <1>1, <2>6, <3>1, <4>1 DEF InSequence
    <3>4. \A i \in DOMAIN published : /\ 3 * published[i] + 3 < Number(base)'
                                      /\ \A k \in 1..Total' : 3 * published[i] + 3 < Number(At(k))'
      BY <1>1, <1>2, <1>4, <2>6, <3>1 DEF InSequence
    <3> QED
      BY <1>1, <3>2, <3>3, <3>4 DEF InSequence
  <2>8. InStep'
    <3> SUFFICES ASSUME aligned
                 PROVE  /\ \A k \in 1..Total' : At(k)'.i = Place(k)
                        /\ base'.i = Place(Total' + 1)
      BY <1>1, <1>6 DEF InStep, Place
    <3>1. base.i = Place(Total + 1) /\ \A k \in 1..Total : At(k).i = Place(k)
      BY <1>1 DEF InStep
    <3>2. base'.i = Place(Total' + 1)
      <4>1. base'.i = IF base.i = 3 THEN 1 ELSE base.i + 1
        BY <1>1
      <4>2. Total \in Nat /\ Total' + 1 = Total + 2
        BY <1>1, <2>2, Stream
      <4>3. Place(Total + 2) = IF Place(Total + 1) = 3 THEN 1 ELSE Place(Total + 1) + 1
        BY <4>2, PlaceNext
      <4> QED
        BY <3>1, <4>1, <4>2, <4>3
    <3> QED
      BY <2>3, <2>4, <2>6, <3>1, <3>2
  <2> QED
    BY <1>1, <2>5, <2>7, <2>8 DEF Rising
<1> QED
  BY <1>1, <1>5, <1>6 DEF BaseSends

\* The base begins another frame.
LEMMA ResetStep ==
  ASSUME Inv, BaseResets
  PROVE  TypeOK' /\ InSequence' /\ InStep' /\ Rising'
<1>1. /\ TypeOK /\ InSequence /\ Rising /\ base.f < MaxFrames /\ aligned' = FALSE
      /\ base' = [f |-> base.f + 1, i |-> 1]
      /\ UNCHANGED <<port, buffer, published>>
  BY DEF Inv, BaseResets
<1>2. /\ base' \in [f : 1..(MaxFrames + 1), i : 1..3] /\ Number(base) < Number(base')
      /\ Number(base) \in Nat /\ Number(base') \in Nat
  <2>1. base.f \in 1..(MaxFrames + 1) /\ base.i \in 1..3 /\ MaxFrames \in Nat
    BY <1>1, Stream
  <2> QED
    BY <1>1, <2>1 DEF Number
<1>3. /\ \A k \in 1..Total : Number(At(k)) \in Nat
      /\ \A i \in DOMAIN published : published[i] \in Nat
  BY <1>1, Stream
<1>4. Total' = Total /\ \A k \in 1..Total : At(k)' = At(k) /\ Number(At(k))' = Number(At(k))
  BY <1>1 DEF Total, At, Number
<1>5. InSequence'
  BY <1>1, <1>2, <1>3, <1>4 DEF InSequence
<1>6. TypeOK'
  BY <1>1, <1>2 DEF TypeOK, BaseResets
<1> QED
  BY <1>1, <1>5, <1>6 DEF InStep, Rising

\* The base falls silent, or goes on.
LEMMA PauseStep ==
  ASSUME Inv, BasePauses \/ BaseResumes
  PROVE  TypeOK' /\ InSequence' /\ InStep' /\ Rising'
<1>1. TypeOK /\ InSequence /\ InStep /\ Rising /\ UNCHANGED <<port, buffer, base, published>>
  BY DEF Inv, BasePauses, BaseResumes
<1>2. Total' = Total /\ \A k \in 1..Total : At(k)' = At(k)
  BY <1>1 DEF Total, At
<1>3. InSequence' /\ Rising'
  BY <1>1, <1>2 DEF InSequence, Rising, Number
<1>4. TypeOK'
  BY <1>1 DEF TypeOK, BasePauses, BaseResumes
<1>5. InStep'
  <2>1. CASE BasePauses
    BY <1>1, <1>2, <2>1 DEF InStep, BasePauses
  <2>2. CASE BaseResumes
    <3>1. Total = 0 /\ aligned' = (base.i = 1)
      BY <2>2 DEF Total, BaseResumes
    <3>2. Place(1) = 1 /\ Total' + 1 = 1 /\ 1..Total' = {}
      BY <1>2, <3>1 DEF Place
    <3> QED
      BY <1>1, <3>1, <3>2 DEF InStep
  <2> QED
    BY <2>1, <2>2
<1> QED
  BY <1>3, <1>4, <1>5

\* A ::read takes parts from the port into the buffer.
LEMMA ReadStep ==
  ASSUME Inv, Read
  PROVE  TypeOK' /\ InSequence' /\ InStep' /\ Rising'
<1>1. TypeOK /\ InSequence /\ InStep /\ Rising /\ UNCHANGED <<base, paused, aligned, published>>
  BY DEF Inv, Read
<1>2. PICK n \in 1..Len(port) : /\ n <= 3 - Len(buffer)
                                /\ buffer' = buffer \o SubSeq(port, 1, n)
                                /\ port' = SubSeq(port, n + 1, Len(port))
  BY DEF Read, Fits
<1>3. /\ Len(buffer) \in Nat /\ Len(port) \in Nat /\ Total \in Nat
      /\ buffer \in Seq(Part) /\ port \in Seq(Part) /\ Len(port) <= PortSize
  BY <1>1, Stream DEF TypeOK
<1> HIDE DEF FrameLength
<1>4. /\ SubSeq(port, 1, n) \in Seq(Part) /\ Len(SubSeq(port, 1, n)) = n
      /\ \A k \in 1..n : SubSeq(port, 1, n)[k] = port[k]
  BY <1>2, <1>3
<1>5. /\ buffer' \in Seq(Part) /\ Len(buffer') = Len(buffer) + n
      /\ \A k \in 1..Len(buffer) : buffer'[k] = buffer[k]
      /\ \A k \in (Len(buffer) + 1)..(Len(buffer) + n) : buffer'[k] = port[k - Len(buffer)]
  <2> DEFINE got == SubSeq(port, 1, n)
  <2>1. /\ buffer \o got \in Seq(Part) /\ Len(buffer \o got) = Len(buffer) + Len(got)
        /\ \A k \in 1..Len(buffer) : (buffer \o got)[k] = buffer[k]
        /\ \A k \in (Len(buffer) + 1)..(Len(buffer) + Len(got)) :
             (buffer \o got)[k] = got[k - Len(buffer)]
    <3> HIDE DEF got
    <3>1. got \in Seq(Part)
      BY <1>4 DEF got
    <3> QED
      BY <1>3, <3>1
  <2>2. \A k \in (Len(buffer) + 1)..(Len(buffer) + n) : k - Len(buffer) \in 1..n
    BY <1>2, <1>3
  <2> QED
    BY <1>2, <1>4, <2>1, <2>2
<1>6. /\ port' \in Seq(Part) /\ Len(port') = Len(port) - n
      /\ \A k \in 1..(Len(port) - n) : port'[k] = port[k + n]
  BY <1>2, <1>3
<1>7. Total' = Total
  BY <1>3, <1>5, <1>6 DEF Total
<1>8. \A k \in 1..Total : At(k)' = At(k)
  <2> SUFFICES ASSUME NEW k \in 1..Total
               PROVE  At(k)' = At(k)
    OBVIOUS
  <2>1. CASE k <= Len(buffer)
    BY <1>2, <1>3, <1>5, <2>1 DEF At
  <2>2. CASE ~(k <= Len(buffer)) /\ k <= Len(buffer) + n
    BY <1>2, <1>3, <1>5, <2>2 DEF At
  <2>3. CASE ~(k <= Len(buffer) + n)
    <3>1. k - (Len(buffer) + n) \in 1..(Len(port) - n) /\ ~(k <= Len(buffer))
          /\ (k - (Len(buffer) + n)) + n = k - Len(buffer)
      BY <1>2, <1>3, <2>3 DEF Total
    <3> QED
      BY <1>5, <1>6, <2>3, <3>1 DEF At
  <2> QED
    BY <2>1, <2>2, <2>3
<1>9. InSequence' /\ InStep' /\ Rising'
  BY <1>1, <1>7, <1>8 DEF InSequence, InStep, Rising, Number
<1>10. TypeOK'
  <2>1. Len(buffer') <= 3 /\ Len(port') <= PortSize
    BY <1>2, <1>3, <1>5, <1>6, SerialAssumption
  <2> QED
    BY <1>1, <1>5, <1>6, <2>1 DEF TypeOK, Read, FrameLength
<1> QED
  BY <1>9, <1>10

\* The frame in the buffer is analysed, and the buffer is cleared.
LEMMA AnalysisStep ==
  ASSUME Inv, Analysis
  PROVE  TypeOK' /\ InSequence' /\ InStep' /\ Rising'
<1>1. /\ TypeOK /\ InSequence /\ InStep /\ Rising
      /\ buffer' = <<>> /\ ReadOver /\ UNCHANGED <<port, base, paused, aligned>>
  BY DEF Inv, Analysis, BufferCleared
<1>2. /\ Len(buffer) \in Nat /\ Len(buffer) <= 3 /\ Len(port) \in Nat /\ Total \in Nat
      /\ Number(base) \in Nat /\ MaxFrames \in Nat
      /\ \A k \in 1..Total : Number(At(k)) \in Nat
      /\ \A i \in DOMAIN published : published[i] \in Nat
      /\ published \in Seq(0..MaxFrames)
  BY <1>1, Stream
<1> DEFINE gone == Len(buffer)
<1>3. Total' = Total - gone /\ (Total' # 0 => gone = 3)
  <2>1. Total' = Len(port)
    BY <1>1, <1>2 DEF Total
  <2>2. gone = 3 \/ Len(port) = 0
    BY <1>1 DEF ReadOver
  <2> QED
    BY <1>2, <2>1, <2>2 DEF Total
<1>4. \A k \in 1..Total' : k + gone \in (gone + 1)..Total /\ At(k)' = At(k + gone)
  <2> SUFFICES ASSUME NEW k \in 1..Total'
               PROVE  k + gone \in (gone + 1)..Total /\ At(k)' = At(k + gone)
    OBVIOUS
  <2>1. k + gone \in (gone + 1)..Total /\ ~(k + gone <= Len(buffer)) /\ (k + gone) - gone = k
    BY <1>2, <1>3
  <2>2. At(k)' = port[k]
    <3>1. ~(k <= Len(buffer'))
      BY <1>1
    <3>2. Len(buffer') = 0
      BY <1>1
    <3> QED
      BY <1>1, <3>1, <3>2 DEF At
  <2> QED
    BY <2>1, <2>2 DEF At
<1>5. InStep'
  <2> SUFFICES ASSUME aligned
               PROVE  /\ \A k \in 1..Total' : At(k)'.i = Place(k)
                      /\ ~paused => base.i = Place(Total' + 1)
    BY <1>1 DEF InStep, Place
  <2>1. /\ \A k \in 1..Total : At(k).i = Place(k)
        /\ ~paused => base.i = Place(Total + 1)
    BY <1>1 DEF InStep
  <2>2. ASSUME NEW k \in 1..Total'
        PROVE  At(k)'.i = Place(k)
    <3>1. gone = 3 /\ k \in Nat
      BY <1>2, <1>3
    <3>2. k + gone \in (gone + 1)..Total /\ At(k)' = At(k + gone)
      BY <1>4
    <3>3. k + 3 \in 1..Total /\ At(k)' = At(k + 3)
      BY <1>2, <3>1, <3>2
    <3> QED
      BY <2>1, <3>1, <3>3, PlaceNext
  <2>3. ASSUME ~paused
        PROVE  base.i = Place(Total' + 1)
    <3>1. gone = 3
      BY <1>1, <2>3 DEF ReadOver
    <3>2. Total' + 1 \in Nat /\ (Total' + 1) + 3 = Total + 1
      BY <1>2, <1>3, <3>1 DEF Total
    <3>3. Place((Total' + 1) + 3) = Place(Total' + 1)
      BY <3>2, PlaceNext
    <3> QED
      BY <2>1, <2>3, <3>2, <3>3
  <2> QED
    BY <2>2, <2>3
\* What is left of the stream is in sequence, behind what was published before.
<1>6. /\ \A k \in 1..Total' : Number(At(k))' = Number(At(k + gone))
      /\ \A k \in 1..Total' : k + gone \in 1..Total
      /\ Number(base)' = Number(base)
  BY <1>1, <1>2, <1>4 DEF Number
<1>7. /\ \A k \in 1..Total' : Number(At(k))' < Number(base)'
      /\ \A j, k \in 1..Total' : j < k => Number(At(j))' < Number(At(k))'
      /\ \A i \in DOMAIN published : /\ 3 * published[i] + 3 < Number(base)'
                                     /\ \A k \in 1..Total' : 3 * published[i] + 3 < Number(At(k))'
  <2>1. \A j, k \in 1..Total' : j < k => Number(At(j))' < Number(At(k))'
    <3> SUFFICES ASSUME NEW j \in 1..Total', NEW k \in 1..Total', j < k
                 PROVE  Number(At(j + gone)) < Number(At(k + gone))
      BY <1>6
    <3>1. j + gone \in 1..Total /\ k + gone \in 1..Total /\ j + gone < k + gone
      BY <1>2, <1>3, <1>6
    <3> QED
      BY <1>1, <3>1 DEF InSequence
  <2> QED
    BY <1>1, <1>6, <2>1 DEF InSequence
<1>8. CASE published' = published
  BY <1>1, <1>5, <1>7, <1>8 DEF InSequence, Rising, TypeOK, Analysis
<1>9. ASSUME NEW f \in 0..MaxFrames, published' = Append(published, f),
             3 * f + 3 < Number(base)',
             \A k \in 1..Total' : 3 * f + 3 < Number(At(k))',
             f # 0 => \A i \in DOMAIN published : published[i] < f
      PROVE  TypeOK' /\ InSequence' /\ InStep' /\ Rising'
  <2>1. /\ published' \in Seq(0..MaxFrames) /\ Len(published) \in Nat
        /\ DOMAIN published = 1..Len(published)
        /\ DOMAIN published' = 1..(Len(published) + 1)
        /\ \A i \in 1..Len(published) : published'[i] = published[i]
        /\ published'[Len(published) + 1] = f
    BY <1>2, <1>9
  <2>2. \A i \in DOMAIN published' : i \in DOMAIN published \/ i = Len(published) + 1
    BY <2>1
  <2>3. InSequence'
    BY <1>7, <1>9, <2>1, <2>2 DEF InSequence
  <2>4. Rising'
    <3> SUFFICES ASSUME NEW i \in DOMAIN published', NEW j \in DOMAIN published', i < j,
                        published'[i] # 0, published'[j] # 0
                 PROVE  published'[i] < published'[j]
      BY DEF Rising
    <3>1. i \in DOMAIN published /\ i \in 1..Len(published)
      BY <2>1
    <3>2. CASE j \in DOMAIN published
      BY <1>1, <2>1, <3>1, <3>2 DEF Rising
    <3>3. CASE j = Len(published) + 1
      BY <1>9, <2>1, <3>1, <3>3
    <3> QED
      BY <2>2, <3>2, <3>3
  <2>5. TypeOK'
    BY <1>1, <2>1 DEF TypeOK, Analysis
  <2> QED
    BY <1>5, <2>3, <2>4, <2>5
<1>10. CASE Valid /\ Len(buffer) = 1
  <2>1. published' = Append(published, 0)
    BY <1>10 DEF Analysis
  <2>2. Total' = 0 /\ 3 < Number(base)'
    <3>1. Total' = 0
      BY <1>2, <1>3, <1>10
    <3>2. base.f \in Nat /\ base.i \in Nat /\ base.f >= 1 /\ base.i >= 1
      BY <1>1, <1>2, Stream
    <3> QED
      BY <1>6, <3>1, <3>2 DEF Number
  <2> QED
    BY <1>2, <1>9, <2>1, <2>2
<1>11. CASE Valid /\ Len(buffer) # 1
  <2> DEFINE f == buffer[2].f
  <2>1. /\ gone = 3 /\ buffer[3] = [f |-> f, i |-> 3]
        /\ published' = Append(published, f)
    BY <1>11 DEF Valid, Analysis
  <2>2. /\ 3 \in 1..Total /\ At(3) = buffer[3] /\ 2 \in 1..Total
        /\ f \in 1..MaxFrames
    <3>1. 2 \in 1..Len(buffer) /\ 3 \in 1..Len(buffer)
      BY <2>1
    <3>2. /\ 3 \in 1..Total /\ At(3) = buffer[3] /\ 2 \in 1..Total /\ At(2) = buffer[2]
      BY <1>1, <3>1, Stream
    <3>3. At(2) \in [f : 1..MaxFrames, i : 1..3]
      BY <1>1, <3>2, Stream
    <3> QED
      BY <3>2, <3>3
  <2>3. Number(At(3)) = 3 * f + 3 /\ f \in Nat
    BY <1>2, <2>1, <2>2 DEF Number
  <2>4. 3 * f + 3 < Number(base)'
    BY <1>1, <1>6, <2>2, <2>3 DEF InSequence
  <2>5. \A k \in 1..Total' : 3 * f + 3 < Number(At(k))'
    <3> SUFFICES ASSUME NEW k \in 1..Total'
                 PROVE  Number(At(3)) < Number(At(k + gone))
      BY <1>6, <2>3
    <3>1. k + gone \in 1..Total /\ 3 < k + gone
      BY <1>2, <1>3, <1>6, <2>1
    <3> QED
      BY <1>1, <2>2, <3>1 DEF InSequence
  <2>6. \A i \in DOMAIN published : published[i] < f
    <3> SUFFICES ASSUME NEW i \in DOMAIN published
                 PROVE  published[i] < f
      OBVIOUS
    <3>1. 3 * published[i] + 3 < Number(At(3)) /\ published[i] \in Nat
      BY <1>1, <1>2, <2>2 DEF InSequence
    <3> QED
      BY <2>3, <3>1
  <2>7. f \in 0..MaxFrames
    BY <1>2, <2>2
  <2> HIDE DEF f
  <2> QED
    BY <1>9, <2>1, <2>4, <2>5, <2>6, <2>7
<1> QED
  BY <1>8, <1>10, <1>11 DEF Analysis

-----------------------------------------------------------------------------
(* The invariant.                                                            *)

LEMMA SerialStepInv == Inv /\ [Next]_vars => Inv'
<1> SUFFICES ASSUME Inv, [Next]_vars
             PROVE  Inv'
  OBVIOUS
<1>1. /\ TypeOK /\ Writes /\ LastFrame
      /\ inbox \in Seq(Velocities \cup Buckets) /\ Len(inbox) \in Nat /\ left \in 0..Len(inbox)
  BY DEF Inv, TypeOK
<1>2. ASSUME BaseSends \/ BaseResets \/ BasePauses \/ BaseResumes \/ Read \/ Analysis
      PROVE  Inv'
  <2>1. TypeOK' /\ InSequence' /\ InStep' /\ Rising'
    BY <1>2, SendStep, ResetStep, PauseStep, ReadStep, AnalysisStep
  <2>2. Writes' /\ LastFrame'
    BY <1>2, FramesSame
       DEF BaseSends, BaseResets, BasePauses, BaseResumes, Read, Analysis
  <2> QED
    BY <2>1, <2>2 DEF Inv
<1>3. ASSUME UNCHANGED readVars, TypeOK', Writes', LastFrame'
      PROVE  Inv'
  BY <1>3, StreamSame DEF Inv
<1>4. CASE SpinOnce
  BY <1>1, <1>3, <1>4 DEF SpinOnce, TypeOK, Writes, LastFrame
<1>5. left > 0 => /\ Head(inbox) \in Velocities \cup Buckets
                  /\ Tail(inbox) \in Seq(Velocities \cup Buckets)
                  /\ left - 1 \in 0..Len(Tail(inbox))
  BY <1>1
<1>6. CASE BucketCallback
  BY <1>1, <1>3, <1>5, <1>6 DEF BucketCallback, TypeOK, Writes, LastFrame
<1>7. CASE VelocityCallback
  BY <1>1, <1>3, <1>5, <1>7 DEF VelocityCallback, TypeOK, Writes, LastFrame
<1>8. CASE Write
  BY <1>1, <1>3, <1>8 DEF Write, Frame, TypeOK, Writes, LastFrame
<1>9. CASE WriteTimeout
  BY <1>1, <1>3, <1>9 DEF WriteTimeout, TypeOK, Writes, LastFrame
<1>10. CASE Available
  BY <1>1, <1>3, <1>10 DEF Available, TypeOK, Writes, LastFrame
<1>11. CASE Throws
  BY <1>1, <1>3, <1>11 DEF Throws, TypeOK, Writes, LastFrame
<1>12. ASSUME NEW m \in Velocities \cup Buckets, MessageArrives(m)
       PROVE  Inv'
  <2>1. inbox' \in Seq(Velocities \cup Buckets) /\ left \in 0..Len(inbox')
    BY <1>1, <1>12 DEF MessageArrives
  <2> QED
    BY <1>1, <1>3, <1>12, <2>1 DEF MessageArrives, TypeOK, Writes, LastFrame
<1>13. CASE Unplug
  BY <1>1, <1>3, <1>13 DEF Unplug, TypeOK, Writes, LastFrame
<1>14. CASE UNCHANGED vars
  BY <1>1, <1>3, <1>14 DEF TypeOK, Writes, LastFrame
<1> QED
  BY <1>2, <1>4, <1>6, <1>7, <1>8, <1>9, <1>10, <1>11, <1>12, <1>13, <1>14
     DEF Next, Main, World

LEMMA SerialInv == Spec => []Inv
BY SerialInitInv, SerialStepInv, PTL DEF Spec

-----------------------------------------------------------------------------
(* The theorems.                                                             *)

(***************************************************************************)
(* While the base sends whole frames and the port does not overflow, every *)
(* read that begins after a pause begins at a frame (unix.cc read with its *)
(* time-out, and main of my_serial_node.cpp).                              *)
(***************************************************************************)
THEOREM PausesRealign == Spec => []PauseRealigns
<1>1. Inv => PauseRealigns
  <2> SUFFICES ASSUME Inv, aligned, NEW k \in 1..Len(buffer)
               PROVE  buffer[k].i = k
    BY DEF Inv, PauseRealigns
  <2>1. /\ k \in 1..Total /\ At(k) = buffer[k] /\ k \in Nat /\ k >= 1 /\ k <= 3
    BY Stream DEF Inv
  <2>2. At(k).i = Place(k)
    BY <2>1 DEF Inv, InStep
  <2>3. Place(k) = k
    BY <2>1 DEF Place
  <2> QED
    BY <2>1, <2>2, <2>3
<1> QED
  BY <1>1, SerialInv, PTL

(***************************************************************************)
(* Odometry is published for frames the base has sent, in their order and  *)
(* each at most once, whatever is lost, cut or read out of step            *)
(* (data_analysis, my_serial_node.cpp).                                    *)
(***************************************************************************)
THEOREM OdometryInOrder == Spec => []PublishedInOrder
<1>1. Inv => PublishedInOrder
  <2> SUFFICES ASSUME Inv, NEW i \in DOMAIN published
               PROVE  published[i] < base.f
    BY DEF Inv, Rising, PublishedInOrder
  <2>1. 3 * published[i] + 3 < Number(base) /\ published[i] \in Nat
    BY Stream DEF Inv, InSequence
  <2>2. base.f \in Nat /\ base.i \in Nat /\ base.i <= 3
    BY Stream DEF Inv
  <2> QED
    BY <2>1, <2>2 DEF Number
<1> QED
  BY <1>1, SerialInv, PTL

(***************************************************************************)
(* Unless a write timed out, the last frame on the wire carries the latest *)
(* velocity command and the bucket command that came before it (the two    *)
(* callbacks of my_serial_node.cpp, which share s_buffer).                 *)
(***************************************************************************)
THEOREM LastFrameIsLatest == Spec => []LastFrame
<1>1. Inv => LastFrame
  BY DEF Inv
<1> QED
  BY <1>1, SerialInv, PTL

-----------------------------------------------------------------------------
(***************************************************************************)
(* The lidar.  The caching thread collects the nodes of a turn and hands   *)
(* the turn to the node's thread; a session of scanning ends with a join,  *)
(* after which nothing of it is left in the thread.  Hence what it has     *)
(* collected is of the session under way, and in the order it was sent.    *)
(***************************************************************************)

HIDE DEF vars, readVars, writeVars, FrameLength, Uncaught

USE DEF lidarNodeVars, mainVars, threadVars, cacheVars, lidarVars

-----------------------------------------------------------------------------
\* The measurements as the thread handles them: of a session, by the item they came in.
Nodes == [s : Nat, n : Nat, good : BOOLEAN]

NodesTyped ==
  /\ localScan \in Seq(Nodes) /\ todo \in Seq(Nodes) /\ cached \in Seq(Nodes)
  /\ Len(localScan) < MaxNodes /\ Len(cached) < MaxNodes
  /\ cache = "emit" => todo # <<>>

\* What is carried over from one read to the next.
Buffers ==
  /\ localBuf \in Seq(Items \cup Junk)
  /\ previous \in {<<>>} \cup {<<i>> : i \in Items}
  /\ mode = "standard" /\ cache # "none" => Len(localBuf) = Batch

\* A session may begin for the first call and for each service.
Starting ==
  \/ main \in {"query", "answer", "express"}
  \/ main \in {"join", "sendStop", "command"} /\ after \in {"query", "command"}

\* What the threads leave in place for each other.
Handover ==
  /\ main \in {"answer", "express", "sendStop", "command", "done"} => cache = "none"
  /\ main = "command" => after \in {"query", "command"}
  /\ session <= IF Starting THEN calls ELSE calls + 1
  /\ streaming => session > 0
  /\ cache = "none" => localScan = <<>>
  /\ cache # "emit" => todo = <<>>
  /\ cache = "discard" => sentItems = 0
  /\ mode \notin {"capsule", "ultra"} => previous = <<>>
  /\ sentItems > 0 /\ previous # <<>> => previous[1] = Item(sentItems)

\* The newest item whose node may have been handled.
Newest == IF mode \in {"capsule", "ultra"} THEN sentItems - 1 ELSE sentItems

OfThisSession(nodes) ==
  \A i \in DOMAIN nodes : nodes[i].s = session /\ nodes[i].good /\ nodes[i].n <= Newest

Increasing(nodes) == \A i, j \in DOMAIN nodes : i < j => nodes[i].n < nodes[j].n

Precede(a, b) == \A i \in DOMAIN a, j \in DOMAIN b : a[i].n < b[j].n

\* What has been collected, and what has been read, are of this session and in order.
ThisTurn ==
  ~replayed =>
    /\ OfThisSession(localScan) /\ OfThisSession(todo)
    /\ Increasing(localScan) /\ Increasing(todo) /\ Precede(localScan, todo)

\* The scan in the cache.
Untaken ==
  /\ cached # <<>> => completed > grabbed
  /\ main = "copy" => cached # <<>>

\* A turn in the cache is whole also when its session is over.
CachedWhole ==
  cached # <<>> /\ ~replayed =>
    /\ SyncBit(cached[1])
    /\ \A i \in DOMAIN cached : cached[i].s = cached[1].s /\ cached[i].good
    /\ Increasing(cached)

LidarInv ==
  /\ LidarTypeOK /\ Buffers /\ NodesTyped /\ Handover
  /\ Untaken /\ ThisTurn /\ CachedWhole

-----------------------------------------------------------------------------
(* Scans are published in order.                                             *)

\* A copy takes a turn that has been completed since the last one.
LEMMA UntakenStep ==
  ASSUME LidarTypeOK, Untaken, [LidarNext]_lidarNodeVars
  PROVE  /\ Untaken' /\ completed' \in Nat /\ grabbed' \in 0..completed'
         /\ main = "copy" /\ main' # "copy" => grabbed' > grabbed /\ cached # <<>>
<1> USE DEF LidarTypeOK, Untaken
<1>1. CASE NodeThread
  <2>1. CASE GrabWait \/ GrabTimeout \/ GrabTest \/ GrabCopy \/ Spin
    BY <2>1 DEF GrabWait, GrabTimeout, GrabTest, GrabCopy, Spin, CacheTaken
  <2>2. CASE StartQuery \/ Join \/ Answered \/ StartExpress \/ SendStop \/ StartCommand
    BY <2>2 DEF StartQuery, Join, Answered, StartExpress, SendStop, StartCommand, Return
  <2> QED
    BY <1>1, <2>1, <2>2 DEF NodeThread
<1>2. CASE CacheThread
  <2>1. CASE EmitNode
    BY <2>1 DEF EmitNode, TurnOver
  <2>2. CASE DiscardCapsule \/ ReadCapsule \/ DiscardUltraCapsule \/ ReadUltraCapsule
    BY <2>2 DEF DiscardCapsule, ReadCapsule, DiscardUltraCapsule, ReadUltraCapsule,
                CapsuleDiscarded, CapsuleRead
  <2>3. CASE DiscardHq \/ ReadHq \/ DiscardNodes \/ ReadNodes \/ ReadFails \/ LoopTest
    BY <2>3 DEF DiscardHq, ReadHq, DiscardNodes, ReadNodes, ReadFails, LoopTest
  <2> QED
    BY <1>2, <2>1, <2>2, <2>3 DEF CacheThread
<1>3. CASE NodeStops \/ Finished \/ UNCHANGED lidarNodeVars
  BY <1>3 DEF NodeStops, Finished
<1> QED
  BY <1>1, <1>2, <1>3 DEF LidarNext

-----------------------------------------------------------------------------
(* Types, and the handover.                                                  *)

LidarFlags ==
  /\ ok \in BOOLEAN /\ isScanning \in BOOLEAN /\ signalled \in BOOLEAN
  /\ streaming \in BOOLEAN /\ replayed \in BOOLEAN

LEMMA LidarFlagsStep ==
  ASSUME LidarFlags, [LidarNext]_lidarNodeVars
  PROVE  LidarFlags'
<1> USE DEF LidarFlags
<1>1. CASE NodeThread
  <2>1. CASE GrabWait
    BY <2>1, Zenon DEF GrabWait
  <2>2. CASE GrabTimeout
    BY <2>2, Zenon DEF GrabTimeout
  <2>3. CASE GrabTest
    BY <2>3, Zenon DEF GrabTest
  <2>4. CASE GrabCopy
    BY <2>4, Zenon DEF GrabCopy
  <2>5. CASE Spin
    BY <2>5, Zenon DEF Spin
  <2>6. CASE StartQuery
    BY <2>6, Zenon DEF StartQuery
  <2>7. CASE Join
    BY <2>7, Zenon DEF Join
  <2>8. CASE Answered
    BY <2>8, Zenon DEF Answered
  <2>9. CASE StartExpress
    BY <2>9, Zenon DEF StartExpress
  <2>10. CASE SendStop
    BY <2>10, Zenon DEF SendStop
  <2>11. CASE StartCommand
    BY <2>11, Zenon DEF StartCommand
  <2> QED
    BY <1>1, <2>1, <2>2, <2>3, <2>4, <2>5, <2>6, <2>7, <2>8, <2>9, <2>10, <2>11, Zenon
       DEF NodeThread
<1>2. CASE CacheThread
  <2>1. CASE DiscardCapsule
    BY <2>1, Zenon DEF DiscardCapsule, CapsuleDiscarded, CapsuleFails
  <2>2. CASE ReadCapsule
    BY <2>2, Zenon DEF ReadCapsule, CapsuleRead, CapsuleComes, CapsuleFails
  <2>3. CASE DiscardUltraCapsule
    BY <2>3, Zenon DEF DiscardUltraCapsule, CapsuleDiscarded, CapsuleFails
  <2>4. CASE ReadUltraCapsule
    BY <2>4, Zenon DEF ReadUltraCapsule, CapsuleRead, CapsuleComes, CapsuleFails
  <2>5. CASE DiscardHq
    BY <2>5, Zenon DEF DiscardHq, HqBlockFails, HqBlockComes
  <2>6. CASE ReadHq
    BY <2>6, Zenon DEF ReadHq, HqBlockFails, HqBlockComes
  <2>7. CASE DiscardNodes
    BY <2>7, Zenon DEF DiscardNodes, NodesCome
  <2>8. CASE ReadNodes
    BY <2>8, Zenon DEF ReadNodes, NodesCome
  <2>9. CASE ReadFails
    BY <2>9, Zenon DEF ReadFails, ThreadEnds
  <2>10. CASE LoopTest
    BY <2>10, Zenon DEF LoopTest, ThreadEnds
  <2>11. CASE EmitNode
    BY <2>11, Zenon DEF EmitNode, TurnOver, SetEvent
  <2> QED
    BY <1>2, <2>1, <2>2, <2>3, <2>4, <2>5, <2>6, <2>7, <2>8, <2>9, <2>10, <2>11, Zenon
       DEF CacheThread
<1>3. CASE NodeStops
  BY <1>3, Zenon DEF NodeStops
<1>4. CASE Finished
  BY <1>4, Zenon DEF Finished
<1>5. CASE UNCHANGED lidarNodeVars
  BY <1>5, Zenon
<1> QED
  BY <1>1, <1>2, <1>3, <1>4, <1>5, Zenon DEF LidarNext

Counts ==
  /\ session \in 0..(MaxCalls + 1) /\ calls \in 0..MaxCalls /\ sentItems \in 0..MaxItems
  /\ count \in 1..Batch

LidarPlaces ==
  /\ mode \in Modes
  /\ main \in {"query", "join", "answer", "express", "sendStop", "command",
               "grab", "waiting", "test", "copy", "spin", "done"}
  /\ caller \in {"main", "spin"}
  /\ after \in {"query", "stop", "command", "exit"}
  /\ cache \in {"none", "discard", "loop", "read", "emit"}

\* What the caching thread leaves alone.
LEMMA CacheThreadFrame ==
  ASSUME CacheThread
  PROVE  /\ UNCHANGED <<mode, main, caller, after, calls, session>>
         /\ cache # "none" /\ cache' \in {"none", "loop", "read", "emit"}
<1>1. CASE DiscardCapsule
  BY <1>1 DEF DiscardCapsule, CapsuleDiscarded, CapsuleFails
<1>2. CASE ReadCapsule
  BY <1>2 DEF ReadCapsule, CapsuleRead, CapsuleComes, CapsuleFails
<1>3. CASE DiscardUltraCapsule
  BY <1>3 DEF DiscardUltraCapsule, CapsuleDiscarded, CapsuleFails
<1>4. CASE ReadUltraCapsule
  BY <1>4 DEF ReadUltraCapsule, CapsuleRead, CapsuleComes, CapsuleFails
<1>5. CASE DiscardHq
  BY <1>5 DEF DiscardHq, HqBlockFails, HqBlockComes
<1>6. CASE ReadHq
  BY <1>6 DEF ReadHq, HqBlockFails, HqBlockComes
<1>7. CASE DiscardNodes
  BY <1>7 DEF DiscardNodes, NodesCome
<1>8. CASE ReadNodes
  BY <1>8 DEF ReadNodes, NodesCome
<1>9. CASE ReadFails
  BY <1>9 DEF ReadFails, ThreadEnds
<1>10. CASE LoopTest
  BY <1>10 DEF LoopTest, ThreadEnds
<1>11. CASE EmitNode
  BY <1>11 DEF EmitNode, TurnOver, SetEvent
<1> QED
  BY <1>1, <1>2, <1>3, <1>4, <1>5, <1>6, <1>7, <1>8, <1>9, <1>10, <1>11 DEF CacheThread

\* What the node's thread leaves alone.
LEMMA NodeThreadFrame ==
  ASSUME NodeThread
  PROVE  /\ UNCHANGED <<mode, todo, localScan, count, previous>>
         /\ StartCommand \/ UNCHANGED <<cache, localBuf, session, sentItems>>
<1>1. CASE GrabWait
  BY <1>1 DEF GrabWait
<1>2. CASE GrabTimeout
  BY <1>2 DEF GrabTimeout
<1>3. CASE GrabTest
  BY <1>3 DEF GrabTest
<1>4. CASE GrabCopy
  BY <1>4 DEF GrabCopy
<1>5. CASE Spin
  BY <1>5 DEF Spin
<1>6. CASE StartQuery
  BY <1>6 DEF StartQuery
<1>7. CASE Join
  BY <1>7 DEF Join
<1>8. CASE Answered
  BY <1>8 DEF Answered
<1>9. CASE StartExpress
  BY <1>9 DEF StartExpress
<1>10. CASE SendStop
  BY <1>10 DEF SendStop
<1>11. CASE StartCommand
  BY <1>11 DEF StartCommand
<1> QED
  BY <1>1, <1>2, <1>3, <1>4, <1>5, <1>6, <1>7, <1>8, <1>9, <1>10, <1>11 DEF NodeThread

LEMMA LidarPlacesStep ==
  ASSUME LidarPlaces, [LidarNext]_lidarNodeVars
  PROVE  LidarPlaces'
<1> USE DEF LidarPlaces
<1>1. CASE NodeThread
  <2>1. main' \in {"query", "join", "answer", "express", "sendStop", "command",
                   "grab", "waiting", "test", "copy", "spin", "done"}
    BY <1>1 DEF NodeThread, GrabWait, GrabTimeout, GrabTest, GrabCopy, Spin, StartQuery, Join,
                Answered, StartExpress, SendStop, StartCommand, Return
  <2>2. /\ caller' \in {"main", "spin"}
        /\ after' \in {"query", "stop", "command", "exit"}
        /\ cache' \in {"none", "discard", "loop", "read", "emit"}
    BY <1>1 DEF NodeThread, GrabWait, GrabTimeout, GrabTest, GrabCopy, Spin, StartQuery, Join,
                Answered, StartExpress, SendStop, StartCommand
  <2> QED
    BY <1>1, <2>1, <2>2, NodeThreadFrame
<1>2. CASE CacheThread
  BY <1>2, CacheThreadFrame
<1>3. CASE NodeStops \/ Finished \/ UNCHANGED lidarNodeVars
  BY <1>3 DEF NodeStops, Finished
<1> QED
  BY <1>1, <1>2, <1>3 DEF LidarNext

\* How the caching thread goes on in the stream.
LEMMA StreamStep ==
  ASSUME LidarPlaces, Counts, Handover, CacheThread
  PROVE  /\ sentItems' \in 0..MaxItems /\ sentItems <= sentItems' /\ count' \in 1..Batch
         /\ streaming' = streaming
         /\ cache' # "emit" => todo' = <<>>
         /\ cache' = "none" => localScan' = <<>>
         /\ mode \notin {"capsule", "ultra"} => previous' = <<>>
         /\ sentItems' > 0 /\ previous' # <<>> => previous'[1] = Item(sentItems')
<1> USE DEF Counts, Handover
<1>1. CASE DiscardCapsule \/ DiscardUltraCapsule
  BY <1>1, LidarAssumption DEF DiscardCapsule, DiscardUltraCapsule, CapsuleDiscarded, CapsuleFails,
           FirstOfSession, Item, PreviousGone
<1>2. CASE ReadCapsule \/ ReadUltraCapsule
  BY <1>2, LidarAssumption DEF ReadCapsule, ReadUltraCapsule, CapsuleRead, CapsuleComes,
                               CapsuleFails, Item, PreviousGone
<1>3. CASE DiscardHq \/ ReadHq
  <2>1. mode = "hq" /\ previous' = previous /\ count' = count
    BY <1>3 DEF DiscardHq, ReadHq
  <2>2. streaming' = streaming
    BY <1>3, Zenon DEF DiscardHq, ReadHq
  <2>3. sentItems' = sentItems \/ (sentItems < MaxItems /\ sentItems' = sentItems + 1)
    BY <1>3 DEF DiscardHq, ReadHq, HqBlockFails, HqBlockComes
  <2>4. cache' # "none" /\ (cache' # "emit" => todo' = <<>>)
    BY <1>3 DEF DiscardHq, ReadHq
  <2> QED
    BY <2>1, <2>2, <2>3, <2>4, LidarAssumption
<1>4. CASE DiscardNodes
  BY <1>4, LidarAssumption DEF DiscardNodes, NodesCome
<1>5. CASE ReadNodes
  BY <1>5, LidarAssumption DEF ReadNodes, NodesCome
<1>6. CASE ReadFails \/ LoopTest
  BY <1>6, LidarAssumption DEF ReadFails, LoopTest, ThreadEnds
<1>7. CASE EmitNode
  BY <1>7, LidarAssumption DEF EmitNode, TurnOver
<1> QED
  BY <1>1, <1>2, <1>3, <1>4, <1>5, <1>6, <1>7 DEF CacheThread

\* No session begins before the thread of the last one has ended.
LEMMA HandoverStep ==
  ASSUME LidarPlaces, Counts, Handover, [LidarNext]_lidarNodeVars
  PROVE  Counts' /\ Handover'
<1> USE DEF LidarPlaces
<1>1. CASE NodeThread
  <2> USE DEF Counts, Handover, Starting, Item
  <2>1. CASE GrabWait \/ GrabTimeout \/ GrabTest \/ GrabCopy
    BY <2>1 DEF GrabWait, GrabTimeout, GrabTest, GrabCopy
  <2>2. CASE Spin
    BY <2>2, LidarAssumption DEF Spin
  <2>3. CASE StartQuery \/ Join
    BY <2>3 DEF StartQuery, Join
  <2>4. CASE Answered \/ StartExpress
    BY <2>4 DEF Answered, StartExpress, Return
  <2>5. CASE SendStop
    BY <2>5 DEF SendStop, Return
  <2>6. CASE StartCommand
    BY <2>6, LidarAssumption DEF StartCommand, Return
  <2> QED
    BY <1>1, <2>1, <2>2, <2>3, <2>4, <2>5, <2>6 DEF NodeThread
<1>2. CASE CacheThread
  <2>1. Item(sentItems)' = Item(sentItems')
    BY <1>2, CacheThreadFrame DEF Item
  <2> QED
    BY <1>2, <2>1, CacheThreadFrame, StreamStep DEF Counts, Handover, Starting
<1>3. CASE NodeStops \/ Finished \/ UNCHANGED lidarNodeVars
  BY <1>3 DEF NodeStops, Finished, Counts, Handover, Starting, Item
<1> QED
  BY <1>1, <1>2, <1>3 DEF LidarNext

-----------------------------------------------------------------------------
(* The nodes and their buffers.                                              *)

LEMMA ItemTyped ==
  ASSUME Counts, session > 0, NEW n \in 1..MaxItems
  PROVE  Item(n) \in Items
BY DEF Counts, Item, Items

LEMMA NodeTyped ==
  ASSUME NEW item \in Items \cup Junk, NEW good \in BOOLEAN
  PROVE  /\ Node(item, good) \in Nodes
         /\ Node(item, good).s = item.s /\ Node(item, good).n = item.n
         /\ Node(item, good).good = good
<1>1. item.s \in Nat /\ item.n \in Nat
  BY LidarAssumption DEF Items, Junk
<1> QED
  BY <1>1 DEF Node, Nodes

LEMMA AsSequence ==
  ASSUME NEW S, NEW m \in Nat, NEW f \in [1..m -> S]
  PROVE  f \in Seq(S) /\ Len(f) = m
OBVIOUS

\* What a read in the standard mode leaves in the buffer, and for the thread to handle.
LEMMA NodesRead ==
  ASSUME LidarPlaces, Counts, Handover, Buffers, NEW k \in 0..Batch,
         NEW end \in {"all", "between", "within"}, NodesCome(k, end),
         mode = "standard", cache \in {"discard", "read"}
  PROVE  /\ localBuf' \in Seq(Items \cup Junk) /\ Len(localBuf') = Batch
         /\ cache = "discard" => todo' = <<>>
         /\ cache = "read" => /\ todo' \in Seq(Nodes) /\ Len(todo') = count' /\ todo' # <<>>
                              /\ \A i \in 1..count' : todo'[i] = Node(localBuf'[i], TRUE)
         /\ ~replayed' => \E first \in Nat :
              /\ first > sentItems
              /\ first + count' - 1 <= sentItems'
              /\ \A i \in 1..count' : localBuf'[i] = Item(first + i - 1)
<1>1. PICK lost \in {0, 1} :
        /\ sentItems' = sentItems + lost + k + (IF end = "within" THEN 1 ELSE 0)
        /\ sentItems' <= MaxItems
        /\ localBuf' = Filled(k, lost)
  BY DEF NodesCome
<1>2. session > 0 /\ k <= count
  BY DEF NodesCome, Handover
<1>3. count' \in 1..Batch /\ count' <= count
  BY DEF NodesCome, Counts
<1>4. localBuf \in [1..Batch -> Items \cup Junk]
  BY LidarAssumption DEF Buffers
<1>5. localBuf' \in [1..Batch -> Items \cup Junk]
  <2> SUFFICES ASSUME NEW i \in 1..Batch, i <= k
               PROVE  Item(sentItems + lost + i) \in Items
    BY <1>1, <1>4 DEF Filled
  <2>1. sentItems + lost + i \in 1..MaxItems
    BY <1>1, LidarAssumption DEF Counts
  <2> QED
    BY <1>2, <2>1, ItemTyped
<1>6. localBuf' \in Seq(Items \cup Junk) /\ Len(localBuf') = Batch
  BY <1>5, LidarAssumption
<1> DEFINE sub == SubSeq(localBuf', 1, count')
<1>7. /\ DOMAIN sub = 1..count' /\ \A i \in 1..count' : sub[i] = localBuf'[i]
  BY <1>3, <1>6, LidarAssumption
<1>8. ASSUME cache = "read"
      PROVE  /\ todo' \in Seq(Nodes) /\ Len(todo') = count' /\ todo' # <<>>
             /\ \A i \in 1..count' : todo'[i] = Node(localBuf'[i], TRUE)
  <2>1. todo' = [i \in 1..count' |-> Node(sub[i], TRUE)]
    BY <1>7, <1>8 DEF NodesCome, Good
  <2> HIDE DEF sub
  <2>2. \A i \in 1..count' : sub[i] \in Items \cup Junk
    BY <1>3, <1>5, <1>7, LidarAssumption
  <2>3. \A i \in 1..count' : Node(sub[i], TRUE) \in Nodes
    BY <2>2, NodeTyped
  <2>4. todo' \in [1..count' -> Nodes] /\ \A i \in 1..count' : todo'[i] = Node(localBuf'[i], TRUE)
    BY <1>7, <2>1, <2>3
  <2>5. count' \in Nat /\ count' > 0
    BY <1>3, LidarAssumption
  <2>6. todo' \in Seq(Nodes) /\ Len(todo') = count'
    BY <2>4, <2>5, AsSequence
  <2>7. todo' # <<>>
    BY <2>5, <2>6
  <2> QED
    BY <2>4, <2>6, <2>7, Zenon
<1>9. cache = "discard" => todo' = <<>>
  BY DEF NodesCome
<1>10. ASSUME ~replayed'
       PROVE  \E first \in Nat :
                /\ first > sentItems
                /\ first + count' - 1 <= sentItems'
                /\ \A i \in 1..count' : localBuf'[i] = Item(first + i - 1)
  <2>1. end # "within"
    BY <1>10, Zenon DEF NodesCome
  <2>2. count' = k
    BY <2>1 DEF NodesCome
  <2>3. sentItems + lost + 1 \in Nat /\ sentItems \in Nat
    BY LidarAssumption DEF Counts
  <2> DEFINE first == sentItems + lost + 1
  <2>4. \A i \in 1..count' : localBuf'[i] = Item(first + i - 1)
    <3> TAKE i \in 1..count'
    <3>1. i \in 1..Batch /\ i <= k /\ sentItems + lost + i = (sentItems + lost + 1) + i - 1
      BY <1>3, <2>2, <2>3, LidarAssumption
    <3> QED
      BY <1>1, <3>1 DEF Filled
  <2>5. first \in Nat /\ first > sentItems /\ first + count' - 1 <= sentItems'
    BY <1>1, <2>1, <2>2, <2>3
  <2> HIDE DEF first
  <2> QED
    BY <2>4, <2>5
<1> QED
  BY <1>6, <1>8, <1>9, <1>10

LEMMA BuffersStep ==
  ASSUME LidarPlaces, Counts, Handover, Buffers, [LidarNext]_lidarNodeVars
  PROVE  Buffers'
<1>1. CASE StartCommand
  <2>1. mode' = mode /\ previous' = previous
    BY <1>1 DEF StartCommand
  <2>2. CASE cache' = cache /\ localBuf' = localBuf
    BY <2>1, <2>2 DEF Buffers
  <2>3. CASE mode # "standard" /\ localBuf' = localBuf
    BY <2>1, <2>3 DEF Buffers
  <2>4. CASE \E j \in Junk : localBuf' = [i \in 1..Batch |-> j]
    <3>1. localBuf' \in [1..Batch -> Items \cup Junk]
      BY <2>4
    <3> QED
      BY <2>1, <3>1, AsSequence, LidarAssumption DEF Buffers
  <2> QED
    BY <1>1, <2>2, <2>3, <2>4 DEF StartCommand
<1>2. CASE NodeThread /\ ~StartCommand
  BY <1>2, NodeThreadFrame DEF Buffers
<1>3. CASE CacheThread
  <2> USE CacheThreadFrame DEF Buffers, LidarPlaces
  <2>1. CASE DiscardCapsule \/ DiscardUltraCapsule
    BY <1>3, <2>1 DEF DiscardCapsule, DiscardUltraCapsule, CapsuleDiscarded, CapsuleFails,
                      PreviousGone
  <2>2. CASE ReadCapsule \/ ReadUltraCapsule
    <3>1. streaming /\ sentItems < MaxItems => Item(sentItems + 1) \in Items
      BY ItemTyped, LidarAssumption DEF Counts, Handover
    <3> QED
      BY <1>3, <2>2, <3>1 DEF ReadCapsule, ReadUltraCapsule, CapsuleRead, CapsuleComes,
                              CapsuleFails, PreviousGone
  <2>3. CASE DiscardHq \/ ReadHq
    BY <1>3, <2>3 DEF DiscardHq, ReadHq
  <2>4. CASE DiscardNodes \/ ReadNodes
    <3>1. mode = "standard" /\ cache \in {"discard", "read"}
      BY <2>4 DEF DiscardNodes, ReadNodes
    <3>2. CASE \E k \in 0..Batch, end \in {"all", "between", "within"} : NodesCome(k, end)
      <4>1. localBuf' \in Seq(Items \cup Junk) /\ Len(localBuf') = Batch
        BY <3>1, <3>2, NodesRead
      <4> QED
        BY <1>3, <3>2, <4>1 DEF NodesCome
    <3>3. CASE UNCHANGED <<localBuf, previous>>
      BY <1>3, <3>1, <3>3
    <3> QED
      BY <2>4, <3>2, <3>3 DEF DiscardNodes, ReadNodes
  <2>5. CASE ReadFails \/ LoopTest
    <3>1. /\ previous' = previous
          /\ \/ localBuf' = <<>> /\ cache' = "none"
             \/ localBuf' = localBuf
      BY <2>5 DEF ReadFails, LoopTest, ThreadEnds
    <3>2. <<>> \in Seq(Items \cup Junk)
      OBVIOUS
    <3> QED
      BY <1>3, <3>1, <3>2
  <2>6. CASE EmitNode
    BY <1>3, <2>6 DEF EmitNode
  <2> QED
    BY <1>3, <2>1, <2>2, <2>3, <2>4, <2>5, <2>6 DEF CacheThread
<1>4. CASE NodeStops \/ Finished \/ UNCHANGED lidarNodeVars
  BY <1>4 DEF NodeStops, Finished, Buffers
<1> QED
  BY <1>1, <1>2, <1>3, <1>4 DEF LidarNext

\* What is added to the scan.
LEMMA AddedNode ==
  ASSUME NEW nodes \in Seq(Nodes), Len(nodes) < MaxNodes, NEW node \in Nodes
  PROVE  /\ Added(nodes, node) \in Seq(Nodes)
         /\ Len(nodes) <= Len(Added(nodes, node)) /\ Len(Added(nodes, node)) < MaxNodes
         /\ Len(Added(nodes, node)) <= Len(nodes) + 1
         /\ \A i \in DOMAIN nodes : Added(nodes, node)[i] = nodes[i]
         /\ \A i \in DOMAIN Added(nodes, node) :
              i \notin DOMAIN nodes => Added(nodes, node)[i] = node
BY LidarAssumption DEF Added

\* A node goes into the scan; the first of a turn publishes the turn before.
LEMMA EmitScan ==
  ASSUME NodesTyped, EmitNode, todo # <<>>
  PROVE  /\ localScan' = Added(IF SyncBit(Head(todo)) THEN <<>> ELSE localScan, Head(todo))
         /\ Head(todo) \in Nodes /\ Head(todo) = todo[1]
         /\ todo' \in Seq(Nodes) /\ Len(todo') = Len(todo) - 1
         /\ \A i \in DOMAIN todo' : todo'[i] = todo[i + 1]
         /\ \/ cached' = cached
            \/ cached' = localScan /\ localScan # <<>> /\ SyncBit(localScan[1])
<1>1. /\ todo' = Tail(todo)
      /\ localScan' = Added(IF SyncBit(Head(todo)) THEN <<>> ELSE localScan, Head(todo))
      /\ \/ cached' = cached
         \/ cached' = localScan /\ localScan # <<>> /\ SyncBit(localScan[1])
  BY DEF EmitNode, TurnOver
<1> QED
  BY <1>1 DEF NodesTyped

LEMMA NodesTypedStep ==
  ASSUME LidarPlaces, Counts, Handover, Buffers, NodesTyped, [LidarNext]_lidarNodeVars
  PROVE  NodesTyped'
<1> USE DEF NodesTyped
<1>1. <<>> \in Seq(Nodes) /\ Len(<<>>) < MaxNodes
  BY LidarAssumption
<1>2. CASE NodeThread
  <2>1. cached' = cached \/ cached' = <<>>
    BY <1>2 DEF NodeThread, GrabWait, GrabTimeout, GrabTest, GrabCopy, Spin, StartQuery, Join,
                Answered, StartExpress, SendStop, StartCommand, CacheTaken
  <2>2. cache' = cache \/ cache' = "discard"
    BY <1>2, NodeThreadFrame DEF StartCommand
  <2> QED
    BY <1>1, <1>2, <2>1, <2>2, NodeThreadFrame
<1>3. CASE CacheThread
  <2>1. CASE EmitNode
    <3>1. todo # <<>>
      BY <2>1 DEF EmitNode
    <3>2. /\ Head(todo) \in Nodes /\ todo' \in Seq(Nodes)
          /\ cached' \in Seq(Nodes) /\ Len(cached') < MaxNodes
      BY <2>1, <3>1, EmitScan
    <3>3. localScan' \in Seq(Nodes) /\ Len(localScan') < MaxNodes
      <4>1. localScan' = Added(<<>>, Head(todo)) \/ localScan' = Added(localScan, Head(todo))
        BY <2>1, <3>1, EmitScan
      <4>2. CASE localScan' = Added(<<>>, Head(todo))
        BY <1>1, <3>2, <4>2, AddedNode
      <4>3. CASE localScan' = Added(localScan, Head(todo))
        BY <3>2, <4>3, AddedNode
      <4> QED
        BY <4>1, <4>2, <4>3
    <3>4. cache' = "emit" => todo' # <<>>
      BY <2>1 DEF EmitNode
    <3> QED
      BY <3>2, <3>3, <3>4
  <2>2. CASE ReadCapsule \/ ReadUltraCapsule
    <3>1. cached' = cached /\ localScan' = localScan /\ (cache' = "emit" => todo' # <<>>)
      BY <2>2 DEF ReadCapsule, ReadUltraCapsule, CapsuleRead
    <3>2. todo' \in Seq(Nodes)
      <4>1. CASE CapsuleFails
        BY <4>1 DEF CapsuleFails
      <4>2. CASE CapsuleComes(Item(sentItems + 1))
        <5>1. CASE todo' = <<>>
          BY <5>1
        <5>2. CASE todo' # <<>>
          <6>1. previous # <<>> /\ previous[1] \in Items
            BY <4>2, <5>2 DEF CapsuleComes, Buffers
          <6>2. PICK good \in BOOLEAN : todo' = <<Node(previous[1], good)>>
            BY <4>2, <5>2 DEF CapsuleComes
          <6>3. Node(previous[1], good) \in Nodes
            BY <6>1, NodeTyped
          <6> QED
            BY <6>2, <6>3
        <5> QED
          BY <5>1, <5>2
      <4> QED
        BY <2>2, <4>1, <4>2 DEF ReadCapsule, ReadUltraCapsule, CapsuleRead
    <3> QED
      BY <3>1, <3>2
  <2>3. CASE ReadHq
    <3>1. cached' = cached /\ localScan' = localScan
      BY <2>3 DEF ReadHq
    <3>2. CASE HqBlockComes /\ todo' = <<Node(Item(sentItems'), TRUE)>> /\ cache' = "emit"
      <4>1. Item(sentItems') \in Items
        BY <3>2, ItemTyped, LidarAssumption DEF HqBlockComes, Counts, Handover
      <4> DEFINE node == Node(Item(sentItems'), TRUE)
      <4>2. node \in Nodes /\ todo' = <<node>>
        BY <3>2, <4>1, NodeTyped
      <4> HIDE DEF node
      <4>3. todo' \in Seq(Nodes) /\ todo' # <<>>
        BY <4>2
      <4> QED
        BY <3>1, <4>3
    <3>3. CASE todo' = todo /\ cache' = "loop"
      BY <3>1, <3>3
    <3> QED
      BY <2>3, <3>2, <3>3 DEF ReadHq
  <2>4. CASE ReadNodes
    <3>1. cached' = cached /\ localScan' = localScan
      BY <2>4 DEF ReadNodes
    <3>2. todo' \in Seq(Nodes) /\ todo' # <<>>
      BY <2>4, NodesRead DEF ReadNodes
    <3> QED
      BY <3>1, <3>2
  <2>5. CASE DiscardNodes \/ DiscardHq \/ DiscardCapsule \/ DiscardUltraCapsule
    <3>1. cached' = cached /\ localScan' = localScan /\ todo' \in {todo, <<>>} /\ cache' = "loop"
      BY <2>5 DEF DiscardNodes, NodesCome, DiscardHq, DiscardCapsule, DiscardUltraCapsule,
                  CapsuleDiscarded, CapsuleFails
    <3> QED
      BY <1>1, <3>1
  <2>6. CASE ReadFails \/ LoopTest
    <3>1. cached' = cached /\ localScan' \in {localScan, <<>>} /\ todo' = todo /\ cache' # "emit"
      BY <2>6 DEF ReadFails, LoopTest, ThreadEnds
    <3> QED
      BY <1>1, <3>1
  <2> QED
    BY <1>3, <2>1, <2>2, <2>3, <2>4, <2>5, <2>6 DEF CacheThread
<1>4. CASE NodeStops \/ Finished \/ UNCHANGED lidarNodeVars
  BY <1>4 DEF NodeStops, Finished
<1> QED
  BY <1>2, <1>3, <1>4 DEF LidarNext

-----------------------------------------------------------------------------
(* The turn that is under way.                                               *)

LEMMA NodeNumbers ==
  ASSUME NEW nodes \in Seq(Nodes)
  PROVE  \A i \in DOMAIN nodes : nodes[i] \in Nodes /\ nodes[i].n \in Nat
<1>1. \A i \in DOMAIN nodes : nodes[i] \in Nodes
  OBVIOUS
<1>2. \A x \in Nodes : x.n \in Nat
  BY DEF Nodes
<1> QED
  BY <1>1, <1>2

LEMMA NewestTyped ==
  ASSUME Counts, Counts'
  PROVE  Newest \in Int /\ Newest' \in Int /\ sentItems \in Nat /\ sentItems' \in Nat
BY LidarAssumption DEF Counts, Newest

\* Nothing is handled.
LEMMA TurnKept ==
  ASSUME NodesTyped, Counts, Counts', ThisTurn, ~replayed' => ~replayed,
         localScan' \in {localScan, <<>>}, todo' \in {todo, <<>>},
         session' = session, Newest <= Newest'
  PROVE  ThisTurn'
<1> SUFFICES ASSUME ~replayed'
             PROVE  /\ OfThisSession(localScan)' /\ OfThisSession(todo)'
                    /\ Increasing(localScan)' /\ Increasing(todo)' /\ Precede(localScan, todo)'
  BY DEF ThisTurn
<1>1. /\ OfThisSession(localScan) /\ OfThisSession(todo)
      /\ Increasing(localScan) /\ Increasing(todo) /\ Precede(localScan, todo)
  BY DEF ThisTurn
<1>2. Newest \in Int /\ Newest' \in Int
  BY LidarAssumption DEF Counts, Newest
<1>3. ASSUME NEW nodes \in Seq(Nodes), OfThisSession(nodes)
      PROVE  \A i \in DOMAIN nodes :
               nodes[i].s = session' /\ nodes[i].good /\ nodes[i].n <= Newest'
  BY <1>2, <1>3, NodeNumbers DEF OfThisSession
<1>4. \A i \in DOMAIN localScan' : localScan' = localScan
  OBVIOUS
<1>5. \A i \in DOMAIN todo' : todo' = todo
  OBVIOUS
<1>6. OfThisSession(localScan)' /\ OfThisSession(todo)'
  BY <1>1, <1>3, <1>4, <1>5 DEF OfThisSession, NodesTyped
<1>7. Increasing(localScan)' /\ Increasing(todo)' /\ Precede(localScan, todo)'
  BY <1>1, <1>4, <1>5 DEF Increasing, Precede
<1> QED
  BY <1>6, <1>7

\* Nodes have been read: newer ones.
LEMMA TurnRead ==
  ASSUME NodesTyped, NodesTyped', Counts, Counts', ThisTurn, ~replayed' => ~replayed,
         localScan' = localScan, session' = session, Newest <= Newest',
         ~replayed' => \A i \in DOMAIN todo' : /\ todo'[i].s = session /\ todo'[i].good
                                               /\ Newest < todo'[i].n /\ todo'[i].n <= Newest',
         ~replayed' => Increasing(todo')
  PROVE  ThisTurn'
<1> SUFFICES ASSUME ~replayed'
             PROVE  /\ OfThisSession(localScan)' /\ OfThisSession(todo)'
                    /\ Increasing(localScan)' /\ Increasing(todo)' /\ Precede(localScan, todo)'
  BY DEF ThisTurn
<1>1. OfThisSession(localScan) /\ Increasing(localScan)
  BY DEF ThisTurn
<1>2. Newest \in Int /\ Newest' \in Int
  BY LidarAssumption DEF Counts, Newest
<1>3. \A i \in DOMAIN localScan : /\ localScan[i].s = session /\ localScan[i].good
                                  /\ localScan[i].n <= Newest /\ localScan[i].n \in Nat
  BY <1>1, NodeNumbers DEF OfThisSession, NodesTyped
<1>4. \A i \in DOMAIN todo' : todo'[i].n \in Nat
  BY NodeNumbers DEF NodesTyped
<1>5. OfThisSession(localScan)' /\ OfThisSession(todo)'
  BY <1>2, <1>3 DEF OfThisSession
<1>6. Increasing(localScan)' /\ Increasing(todo)'
  BY <1>1 DEF Increasing
<1>7. Precede(localScan, todo)'
  BY <1>2, <1>3, <1>4 DEF Precede
<1> QED
  BY <1>5, <1>6, <1>7

\* A node is handled.
LEMMA TurnEmit ==
  ASSUME NodesTyped, NodesTyped', ThisTurn, CachedWhole, EmitNode, todo # <<>>,
         UNCHANGED <<mode, session, sentItems>>, replayed' = replayed
  PROVE  ThisTurn' /\ CachedWhole'
<1> DEFINE node == Head(todo)
           nodes == IF SyncBit(node) THEN <<>> ELSE localScan
<1>1. /\ localScan' = Added(nodes, node) /\ node \in Nodes /\ node = todo[1]
      /\ todo' \in Seq(Nodes) /\ Len(todo') = Len(todo) - 1
      /\ \A i \in DOMAIN todo' : todo'[i] = todo[i + 1]
      /\ \/ cached' = cached
         \/ cached' = localScan /\ localScan # <<>> /\ SyncBit(localScan[1])
  BY EmitScan
<1>2. /\ todo \in Seq(Nodes) /\ localScan \in Seq(Nodes) /\ localScan' \in Seq(Nodes)
      /\ Len(localScan) < MaxNodes /\ Len(todo) > 0
  BY DEF NodesTyped
<1>3. nodes \in Seq(Nodes) /\ Len(nodes) < MaxNodes
  BY <1>2, LidarAssumption
<1>4. nodes = <<>> \/ nodes = localScan
  OBVIOUS
<1> HIDE DEF node, nodes
<1>5. /\ Len(nodes) <= Len(localScan') /\ Len(localScan') <= Len(nodes) + 1
      /\ \A i \in DOMAIN nodes : localScan'[i] = nodes[i]
      /\ \A i \in DOMAIN localScan' : i \notin DOMAIN nodes => localScan'[i] = node
  <2>1. /\ Len(nodes) <= Len(Added(nodes, node)) /\ Len(Added(nodes, node)) <= Len(nodes) + 1
        /\ \A i \in DOMAIN nodes : Added(nodes, node)[i] = nodes[i]
        /\ \A i \in DOMAIN Added(nodes, node) :
             i \notin DOMAIN nodes => Added(nodes, node)[i] = node
    <3>1. node \in Nodes
      BY <1>1
    <3> QED
      BY <1>3, <3>1, AddedNode
  <2>2. localScan' = Added(nodes, node)
    BY <1>1
  <2> QED
    BY <2>1, <2>2
<1>6. Newest' = Newest
  BY DEF Newest
<1>7. ASSUME ~replayed
      PROVE  /\ OfThisSession(localScan)' /\ OfThisSession(todo)'
             /\ Increasing(localScan)' /\ Increasing(todo)' /\ Precede(localScan, todo)'
  <2>1. /\ OfThisSession(localScan) /\ OfThisSession(todo)
        /\ Increasing(localScan) /\ Increasing(todo) /\ Precede(localScan, todo)
    BY <1>7 DEF ThisTurn
  <2>2. 1 \in DOMAIN todo /\ \A i \in DOMAIN todo' : i + 1 \in DOMAIN todo /\ 1 < i + 1
    BY <1>1, <1>2
  <2>3. /\ node.s = session /\ node.good /\ node.n <= Newest
        /\ \A i \in DOMAIN todo' : node.n < todo'[i].n
    BY <1>1, <2>1, <2>2 DEF OfThisSession, Increasing
  <2>4. \A i \in DOMAIN nodes : /\ i \in DOMAIN localScan /\ nodes[i] = localScan[i]
                                /\ nodes[i].n < node.n
    BY <1>1, <1>4, <2>1, <2>2 DEF Precede
  <2>5. OfThisSession(todo)' /\ Increasing(todo)'
    BY <1>1, <1>6, <2>1, <2>2 DEF OfThisSession, Increasing
  <2>6. \A i \in DOMAIN localScan' :
          \/ i \in DOMAIN nodes /\ i \in DOMAIN localScan /\ localScan'[i] = localScan[i]
          \/ i \notin DOMAIN nodes /\ localScan'[i] = node
    BY <1>5, <2>4
  <2>7. OfThisSession(localScan)'
    BY <1>6, <2>1, <2>3, <2>6 DEF OfThisSession
  <2>8. Increasing(localScan)'
    <3> SUFFICES ASSUME NEW i \in DOMAIN localScan', NEW j \in DOMAIN localScan', i < j
                 PROVE  localScan'[i].n < localScan'[j].n
      BY DEF Increasing
    <3>1. i \in DOMAIN nodes /\ localScan'[i] = nodes[i]
      BY <1>2, <1>3, <1>5
    <3>2. CASE j \in DOMAIN nodes
      BY <1>5, <2>1, <2>4, <3>1, <3>2 DEF Increasing
    <3>3. CASE j \notin DOMAIN nodes
      BY <1>5, <2>4, <3>1, <3>3
    <3> QED
      BY <3>2, <3>3
  <2>9. Precede(localScan, todo)'
    <3> SUFFICES ASSUME NEW i \in DOMAIN localScan', NEW j \in DOMAIN todo'
                 PROVE  localScan'[i].n < todo'[j].n
      BY DEF Precede
    <3>1. CASE i \in DOMAIN localScan /\ localScan'[i] = localScan[i]
      BY <1>1, <2>1, <2>2, <3>1 DEF Precede
    <3>2. CASE localScan'[i] = node
      BY <2>3, <3>2
    <3> QED
      BY <2>6, <3>1, <3>2
  <2> QED
    BY <2>5, <2>7, <2>8, <2>9
<1>8. ThisTurn'
  BY <1>7, Zenon DEF ThisTurn
<1>9. CachedWhole'
  <2>1. CASE cached' = cached
    BY <2>1 DEF CachedWhole
  <2>2. CASE cached' = localScan /\ localScan # <<>> /\ SyncBit(localScan[1])
    <3> SUFFICES ASSUME ~replayed
                 PROVE  /\ \A i \in DOMAIN localScan :
                             localScan[i].s = localScan[1].s /\ localScan[i].good
                        /\ Increasing(localScan)
      BY <2>2 DEF CachedWhole, Increasing
    <3>1. OfThisSession(localScan) /\ Increasing(localScan)
      BY DEF ThisTurn
    <3>2. 1 \in DOMAIN localScan
      BY <1>2, <2>2
    <3> QED
      BY <3>1, <3>2 DEF OfThisSession
  <2> QED
    BY <1>1, <2>1, <2>2
<1> QED
  BY <1>8, <1>9

\* Once a read has repeated nodes, that is not forgotten.
LEMMA ReplayedStays ==
  ASSUME [LidarNext]_lidarNodeVars
  PROVE  replayed => replayed'
<1>1. CASE GrabWait
  BY <1>1, Zenon DEF GrabWait
<1>2. CASE GrabTimeout
  BY <1>2, Zenon DEF GrabTimeout
<1>3. CASE GrabTest
  BY <1>3, Zenon DEF GrabTest
<1>4. CASE GrabCopy
  BY <1>4, Zenon DEF GrabCopy
<1>5. CASE Spin
  BY <1>5, Zenon DEF Spin
<1>6. CASE StartQuery
  BY <1>6, Zenon DEF StartQuery
<1>7. CASE Join
  BY <1>7, Zenon DEF Join
<1>8. CASE Answered
  BY <1>8, Zenon DEF Answered
<1>9. CASE StartExpress
  BY <1>9, Zenon DEF StartExpress
<1>10. CASE SendStop
  BY <1>10, Zenon DEF SendStop
<1>11. CASE StartCommand
  BY <1>11, Zenon DEF StartCommand
<1>12. CASE DiscardCapsule
  BY <1>12, Zenon DEF DiscardCapsule, CapsuleDiscarded, CapsuleFails
<1>13. CASE ReadCapsule
  BY <1>13, Zenon DEF ReadCapsule, CapsuleRead, CapsuleComes, CapsuleFails
<1>14. CASE DiscardUltraCapsule
  BY <1>14, Zenon DEF DiscardUltraCapsule, CapsuleDiscarded, CapsuleFails
<1>15. CASE ReadUltraCapsule
  BY <1>15, Zenon DEF ReadUltraCapsule, CapsuleRead, CapsuleComes, CapsuleFails
<1>16. CASE DiscardHq
  BY <1>16, Zenon DEF DiscardHq
<1>17. CASE ReadHq
  BY <1>17, Zenon DEF ReadHq
<1>18. CASE DiscardNodes
  BY <1>18, Zenon DEF DiscardNodes, NodesCome
<1>19. CASE ReadNodes
  BY <1>19, Zenon DEF ReadNodes, NodesCome
<1>20. CASE ReadFails
  BY <1>20, Zenon DEF ReadFails, ThreadEnds
<1>21. CASE LoopTest
  BY <1>21, Zenon DEF LoopTest, ThreadEnds
<1>22. CASE EmitNode
  BY <1>22, Zenon DEF EmitNode
<1>23. CASE NodeStops
  BY <1>23, Zenon DEF NodeStops
<1>24. CASE Finished
  BY <1>24, Zenon DEF Finished
<1>25. CASE UNCHANGED lidarNodeVars
  BY <1>25, Zenon
<1> QED
  BY <1>1, <1>2, <1>3, <1>4, <1>5, <1>6, <1>7, <1>8, <1>9, <1>10, <1>11, <1>12, <1>13,
     <1>14, <1>15, <1>16, <1>17, <1>18, <1>19, <1>20, <1>21, <1>22, <1>23, <1>24, <1>25,
     Zenon DEF LidarNext, NodeThread, CacheThread

\* One node has been read.
LEMMA TurnOfOne ==
  ASSUME NodesTyped, NodesTyped', Counts, Counts', ThisTurn, ~replayed' => ~replayed,
         localScan' = localScan, session' = session,
         NEW n \in Nat, todo' = <<Node(Item(n), TRUE)>>, Newest < n, n <= Newest', Newest <= Newest'
  PROVE  ThisTurn'
<1>1. todo'[1] = Node(Item(n), TRUE) /\ \A i \in DOMAIN todo' : i = 1
  OBVIOUS
<1>2. \A i \in DOMAIN todo' : /\ todo'[i].s = session /\ todo'[i].good
                              /\ Newest < todo'[i].n /\ todo'[i].n <= Newest'
  BY <1>1 DEF Node, Item
<1>3. Increasing(todo')
  BY <1>1 DEF Increasing
<1> QED
  BY <1>2, <1>3, TurnRead

\* A capsule completes the one before it: the node lags one item behind.
LEMMA CapsuleTurn ==
  ASSUME LidarPlaces, Counts, Counts', Handover, NodesTyped, NodesTyped', ThisTurn,
         ~replayed' => ~replayed, ReadCapsule \/ ReadUltraCapsule
  PROVE  ThisTurn'
<1>1. /\ mode \in {"capsule", "ultra"} /\ mode' = mode /\ localScan' = localScan
      /\ session' = session /\ todo = <<>>
  BY DEF ReadCapsule, ReadUltraCapsule, CapsuleRead, Handover
<1>2. sentItems \in Nat
  BY LidarAssumption DEF Counts
<1>3. CASE CapsuleFails
  <2>1. todo' = todo /\ sentItems <= sentItems' /\ sentItems' \in Int
    BY <1>2, <1>3 DEF CapsuleFails
  <2>2. Newest = sentItems - 1 /\ Newest' = sentItems' - 1
    BY <1>1 DEF Newest
  <2>3. Newest <= Newest'
    BY <2>1, <2>2, NewestTyped
  <2> QED
    BY <1>1, <2>1, <2>3, TurnKept
<1>4. CASE CapsuleComes(Item(sentItems + 1))
  <2>1. sentItems' = sentItems + 1
    BY <1>4 DEF CapsuleComes, Item
  <2>2. CASE todo' = <<>>
    BY <1>1, <1>2, <2>1, <2>2, TurnKept DEF Newest
  <2>3. CASE todo' # <<>>
    <3>1. previous # <<>> /\ ~FirstOfSession(Item(sentItems + 1))
      BY <1>4, <2>3 DEF CapsuleComes
    <3>2. sentItems > 0
      BY <1>2, <3>1 DEF FirstOfSession, Item
    <3>3. previous[1] = Item(sentItems)
      BY <3>1, <3>2 DEF Handover
    <3>4. todo' = <<Node(previous[1], previous[1].s = Item(sentItems + 1).s
                                        /\ Item(sentItems + 1).n = previous[1].n + 1)>>
      BY <1>4, <3>1 DEF CapsuleComes
    <3>5. previous[1].s = session /\ previous[1].n = sentItems
          /\ Item(sentItems + 1).s = session /\ Item(sentItems + 1).n = sentItems + 1
      BY <3>3 DEF Item
    <3>6. todo' = <<Node(Item(sentItems), TRUE)>>
      <4>1. (previous[1].s = Item(sentItems + 1).s
              /\ Item(sentItems + 1).n = previous[1].n + 1) = TRUE
        BY <3>5
      <4> QED
        BY <3>3, <3>4, <4>1
    <3>7. Newest = sentItems - 1 /\ Newest' = sentItems
      BY <1>1, <1>2, <2>1 DEF Newest
    <3>8. Newest < sentItems /\ sentItems <= Newest' /\ Newest <= Newest'
      BY <1>2, <3>7, NewestTyped
    <3> QED
      BY <1>1, <1>2, <3>6, <3>8, TurnOfOne
  <2> QED
    BY <2>2, <2>3
<1> QED
  BY <1>3, <1>4 DEF ReadCapsule, ReadUltraCapsule, CapsuleRead

LEMMA HqTurn ==
  ASSUME LidarPlaces, Counts, Counts', Handover, NodesTyped, NodesTyped', ThisTurn,
         ~replayed' => ~replayed, ReadHq
  PROVE  ThisTurn'
<1>1. /\ mode = "hq" /\ mode' = mode /\ localScan' = localScan /\ session' = session /\ todo = <<>>
      /\ sentItems' = sentItems \/ sentItems' = sentItems + 1
  BY DEF ReadHq, HqBlockComes, HqBlockFails, Handover
<1>2. sentItems \in Nat
  BY LidarAssumption DEF Counts
<1>3. /\ Newest = sentItems /\ Newest' = sentItems'
      /\ Newest \in Int /\ Newest' \in Int /\ sentItems' \in Int
  BY <1>1, NewestTyped DEF Newest
<1>4. CASE todo' = todo
  BY <1>1, <1>2, <1>3, <1>4, TurnKept
<1>5. CASE sentItems' = sentItems + 1 /\ todo' = <<Node(Item(sentItems'), TRUE)>>
  <2>1. Newest < sentItems' /\ sentItems' <= Newest' /\ Newest <= Newest' /\ sentItems' \in Nat
    BY <1>2, <1>3, <1>5
  <2> QED
    BY <1>1, <1>5, <2>1, TurnOfOne
<1> QED
  BY <1>4, <1>5 DEF ReadHq, HqBlockComes

\* The standard mode reads several nodes at a time.
LEMMA NodesTurn ==
  ASSUME LidarPlaces, Counts, Counts', Handover, Buffers, NodesTyped, NodesTyped', ThisTurn,
         ~replayed' => ~replayed, ReadNodes
  PROVE  ThisTurn'
<1>1. /\ mode = "standard" /\ mode' = mode /\ localScan' = localScan /\ session' = session
      /\ cache = "read"
  BY DEF ReadNodes
<1>2. PICK k \in 0..Batch, end \in {"all", "between", "within"} : NodesCome(k, end)
  BY DEF ReadNodes
<1>3. /\ Newest = sentItems /\ Newest' = sentItems' /\ Newest \in Int /\ Newest' \in Int
      /\ sentItems \in Nat /\ sentItems' \in Nat /\ count' \in Nat /\ count' > 0
  BY <1>1, NewestTyped, LidarAssumption DEF Newest, Counts
<1>4. /\ Len(todo') = count' /\ DOMAIN todo' = 1..count'
      /\ \A i \in 1..count' : todo'[i] = Node(localBuf'[i], TRUE)
  <2>1. /\ Len(todo') = count'
        /\ \A i \in 1..count' : todo'[i] = Node(localBuf'[i], TRUE)
    BY <1>1, <1>2, NodesRead
  <2>2. DOMAIN todo' = 1..Len(todo')
    BY DEF NodesTyped
  <2> QED
    BY <2>1, <2>2, Zenon
<1>5. CASE replayed'
  BY <1>5 DEF ThisTurn
<1>6. CASE ~replayed'
  <2>1. PICK first \in Nat : /\ first > sentItems
                             /\ first + count' - 1 <= sentItems'
                             /\ \A i \in 1..count' : localBuf'[i] = Item(first + i - 1)
    BY <1>1, <1>2, <1>6, NodesRead
  <2>2. \A i \in DOMAIN todo' : /\ todo'[i].s = session /\ todo'[i].good
                                /\ todo'[i].n = first + i - 1
    <3> TAKE i \in DOMAIN todo'
    <3>1. todo'[i] = Node(Item(first + i - 1), TRUE)
      BY <1>4, <2>1
    <3> QED
      BY <3>1 DEF Node, Item
  <2>3. \A i \in DOMAIN todo' : i \in Int /\ 1 <= i /\ i <= count'
    BY <1>4, <1>3
  <2>4. Increasing(todo')
    <3> SUFFICES ASSUME NEW i \in DOMAIN todo', NEW j \in DOMAIN todo', i < j
                 PROVE  todo'[i].n < todo'[j].n
      BY DEF Increasing
    <3>1. todo'[i].n = first + i - 1 /\ todo'[j].n = first + j - 1 /\ i \in Int /\ j \in Int
      BY <2>2, <2>3
    <3> QED
      BY <2>1, <3>1
  <2>5. \A i \in DOMAIN todo' : Newest < todo'[i].n /\ todo'[i].n <= Newest'
    <3> TAKE i \in DOMAIN todo'
    <3>1. PICK n \in Int : n = count'
      BY <1>3
    <3>2. todo'[i].n = first + i - 1 /\ i \in Int /\ 1 <= i /\ i <= n
      BY <2>2, <2>3, <3>1
    <3>3. first > sentItems /\ first + n - 1 <= sentItems'
      BY <2>1, <3>1, Zenon
    <3>4. sentItems \in Nat /\ sentItems' \in Nat
      BY <1>3
    <3>5. sentItems < first + i - 1 /\ first + i - 1 <= sentItems'
      BY <3>2, <3>3, <3>4
    <3> QED
      BY <1>3, <3>2, <3>5
  <2>6. Newest <= Newest'
    <3>1. PICK n \in Int : n = count' /\ n > 0
      BY <1>3
    <3>2. first > sentItems /\ first + n - 1 <= sentItems'
      BY <2>1, <3>1, Zenon
    <3>3. n > 0 /\ sentItems \in Nat /\ sentItems' \in Nat
      BY <1>3, <3>1
    <3>4. sentItems <= sentItems'
      BY <3>2, <3>3
    <3> QED
      BY <1>3, <3>4
  <2> QED
    BY <1>1, <2>2, <2>4, <2>5, <2>6, TurnRead
<1> QED
  BY <1>5, <1>6

-----------------------------------------------------------------------------
(* The invariant.                                                            *)

LEMMA TurnStep ==
  ASSUME LidarInv, LidarPlaces, Counts, Counts', NodesTyped',
         [LidarNext]_lidarNodeVars
  PROVE  ThisTurn' /\ CachedWhole'
<1> USE DEF LidarInv
<1>1. ~replayed' => ~replayed
  BY ReplayedStays, Zenon
<1>2. CASE EmitNode
  <2>1. UNCHANGED <<mode, session, sentItems>> /\ todo # <<>>
    BY <1>2 DEF EmitNode, NodesTyped
  <2>2. replayed' = replayed
    BY <1>2, Zenon DEF EmitNode
  <2> QED
    BY <1>2, <2>1, <2>2, TurnEmit
<1>3. CASE ~EmitNode
  <2>1. cached' = cached \/ cached' = <<>>
    <3>1. CASE NodeThread
      BY <3>1 DEF NodeThread, GrabWait, GrabTimeout, GrabTest, GrabCopy, Spin, StartQuery, Join,
                  Answered, StartExpress, SendStop, StartCommand, CacheTaken
    <3>2. CASE CacheThread
      BY <1>3, <3>2 DEF CacheThread, DiscardCapsule, DiscardUltraCapsule, ReadCapsule,
                        ReadUltraCapsule, CapsuleDiscarded, CapsuleRead, DiscardHq, ReadHq,
                        DiscardNodes, ReadNodes,
                        ReadFails, LoopTest
    <3>3. CASE NodeStops \/ Finished \/ UNCHANGED lidarNodeVars
      BY <3>3 DEF NodeStops, Finished
    <3> QED
      BY <3>1, <3>2, <3>3 DEF LidarNext
  <2>2. CachedWhole'
    BY <1>1, <2>1 DEF CachedWhole, Increasing
  <2>3. CASE StartCommand
    <3>1. localScan' = <<>> /\ todo' = <<>>
      BY <2>3 DEF StartCommand, Handover
    <3> QED
      BY <2>2, <3>1 DEF ThisTurn, OfThisSession, Increasing, Precede
  <2>4. CASE ReadCapsule \/ ReadUltraCapsule
    BY <1>1, <2>2, <2>4, CapsuleTurn
  <2>5. CASE ReadHq
    BY <1>1, <2>2, <2>5, HqTurn
  <2>6. CASE ReadNodes
    BY <1>1, <2>2, <2>6, NodesTurn
  <2>7. CASE /\ UNCHANGED <<mode, session>> /\ sentItems <= sentItems'
             /\ localScan' \in {localScan, <<>>} /\ todo' \in {todo, <<>>}
    <3>1. Newest <= Newest'
      <4>1. CASE mode \in {"capsule", "ultra"}
        <5>1. Newest = sentItems - 1 /\ Newest' = sentItems' - 1
          BY <2>7, <4>1 DEF Newest
        <5> QED
          BY <2>7, <5>1, NewestTyped
      <4>2. CASE mode \notin {"capsule", "ultra"}
        <5>1. Newest = sentItems /\ Newest' = sentItems'
          BY <2>7, <4>2 DEF Newest
        <5> QED
          BY <2>7, <5>1, NewestTyped
      <4> QED
        BY <4>1, <4>2
    <3> QED
      BY <1>1, <2>2, <2>7, <3>1, TurnKept
  <2>8. CASE NodeThread /\ ~StartCommand
    BY <2>7, <2>8, NodeThreadFrame, NewestTyped
  <2>9. CASE \/ DiscardCapsule \/ DiscardUltraCapsule \/ DiscardHq \/ DiscardNodes
             \/ ReadFails \/ LoopTest
    <3>1. CacheThread
      BY <2>9 DEF CacheThread
    <3>2. localScan' \in {localScan, <<>>} /\ todo' \in {todo, <<>>}
      BY <2>9 DEF DiscardCapsule, DiscardUltraCapsule, CapsuleDiscarded, CapsuleFails, DiscardHq,
                  DiscardNodes, NodesCome, ReadFails, LoopTest, ThreadEnds
    <3> QED
      BY <2>7, <3>1, <3>2, CacheThreadFrame, StreamStep
  <2>10. CASE NodeStops \/ Finished \/ UNCHANGED lidarNodeVars
    BY <2>7, <2>10, NewestTyped DEF NodeStops, Finished
  <2> QED
    BY <1>3, <2>3, <2>4, <2>5, <2>6, <2>8, <2>9, <2>10 DEF LidarNext, CacheThread
<1> QED
  BY <1>2, <1>3

LEMMA LidarInvStart == LidarInit => LidarInv
<1> SUFFICES ASSUME LidarInit
             PROVE  LidarInv
  OBVIOUS
<1> USE DEF LidarInit
<1>1. LidarFlags
  BY Zenon DEF LidarFlags
<1>2. LidarPlaces /\ Counts
  BY LidarAssumption DEF LidarPlaces, Counts
<1>3. Buffers /\ NodesTyped
  BY LidarAssumption DEF Buffers, NodesTyped
<1>4. Handover
  BY DEF Handover, Starting
<1>5. Untaken /\ CachedWhole
  BY DEF Untaken, CachedWhole
<1>6. ThisTurn
  BY DEF ThisTurn, OfThisSession, Increasing, Precede
<1>7. completed \in Nat /\ grabbed \in 0..completed
  OBVIOUS
<1>8. LidarTypeOK
  BY <1>1, <1>2, <1>3, <1>7 DEF LidarTypeOK, LidarFlags, LidarPlaces, Counts, Buffers, NodesTyped
<1> QED
  BY <1>3, <1>4, <1>5, <1>6, <1>8 DEF LidarInv

LEMMA LidarInvStep == LidarInv /\ [LidarNext]_lidarNodeVars => LidarInv'
<1> SUFFICES ASSUME LidarInv, [LidarNext]_lidarNodeVars
             PROVE  LidarInv'
  OBVIOUS
<1>1. LidarFlags /\ LidarPlaces /\ Counts
  BY DEF LidarInv, LidarTypeOK, LidarFlags, LidarPlaces, Counts
<1>2. LidarFlags' /\ LidarPlaces'
  BY <1>1, LidarFlagsStep, LidarPlacesStep
<1>3. Counts' /\ Handover'
  BY <1>1, HandoverStep DEF LidarInv
<1>4. Buffers' /\ NodesTyped'
  BY <1>1, BuffersStep, NodesTypedStep DEF LidarInv
<1>5. Untaken' /\ completed' \in Nat /\ grabbed' \in 0..completed'
  BY UntakenStep DEF LidarInv
<1>6. ThisTurn' /\ CachedWhole'
  BY <1>1, <1>3, <1>4, TurnStep DEF LidarInv
<1>7. LidarTypeOK'
  BY <1>2, <1>3, <1>4, <1>5 DEF LidarTypeOK, LidarFlags, LidarPlaces, Counts, Buffers, NodesTyped
<1> QED
  BY <1>3, <1>4, <1>5, <1>6, <1>7 DEF LidarInv

LEMMA LidarInvAlways == LidarSpec => []LidarInv
BY LidarInvStart, LidarInvStep, PTL DEF LidarSpec

(***************************************************************************)
(* A turn in the cache starts with its sync bit, is of one session, and    *)
(* its nodes are in the order they were measured, however sessions are     *)
(* stopped and started while the thread runs, and whatever the serial line *)
(* loses; unless a read repeated nodes (_cacheScanData and its variants,   *)
(* startScan and stop, rplidar_driver.cpp).                                *)
(***************************************************************************)
THEOREM ScansAreAlwaysWhole == LidarSpec => []ScansAreWhole
<1>1. LidarInv => ScansAreWhole
  BY DEF LidarInv, ScansAreWhole, CachedWhole, Increasing
<1> QED
  BY <1>1, LidarInvAlways, PTL

(***************************************************************************)
(* Each scan that grabScanDataHq copies is one that was completed after    *)
(* the scan it copied before: none is published twice, nor an older one    *)
(* after a newer one.                                                      *)
(***************************************************************************)
THEOREM ScansComeInOrder == LidarSpec => ScansInOrder
<1>1. LidarInv /\ [LidarNext]_lidarNodeVars
        => [main = "copy" /\ main' # "copy" => grabbed' > grabbed /\ cached # <<>>]_lidarNodeVars
  BY UntakenStep DEF LidarInv
<1> QED
  BY <1>1, LidarInvAlways, PTL DEF LidarSpec, ScansInOrder
=============================================================================
