---------------------------- MODULE LedgerProofs ----------------------------
(* Proofs about Ledger, for every value of its constants.                  *)
EXTENDS Ledger, TLAPS, FiniteSetTheorems

\* What the variables hold.
TypeOK ==
  /\ now \in Time
  /\ told \in [Clients -> Told \cup {None}]
  /\ filing \in Clients \cup {None}
  /\ open \in [Qid -> Quiz \cup {None}]
  /\ desk \in [qid : Qid, quiz : Quiz] \cup {None}

\* The quiz z is the one that was dealt to some connection under q.
IsDealt(z, q) ==
  \E d \in Dealt(q) : z.deadline = told[d].deadline /\ z.file = told[d].file

\* A questionnaire that is being filed, open or being marked was dealt as it is.
AsDealt ==
  /\ filing # None => told[filing] # None /\ told[filing].kind = "AQT"
  /\ \A q \in Qid : open[q] # None => IsDealt(open[q], q)
  /\ desk # None => IsDealt(desk.quiz, desk.qid)

Filing(q) == IF filing \in Dealt(q) THEN 1 ELSE 0

\* Every questionnaire dealt under q is being filed, open, at the desk, marked
\* or lost, and only one of these.
Balance ==
  \A q \in Qid :
    /\ IsFiniteSet(Dealt(q)) /\ IsFiniteSet(Marked(q))
    /\ Cardinality(Marked(q)) + Open(q) + AtDesk(q) + Filing(q) <= Cardinality(Dealt(q))

LInv == ConstantsOK /\ TypeOK /\ AsDealt /\ Balance

-----------------------------------------------------------------------------
LEMMA CardinalityNat ==
  ASSUME NEW S, IsFiniteSet(S)
  PROVE  Cardinality(S) \in Nat
BY FS_CardinalityType

LEMMA OneMore ==
  ASSUME NEW S, NEW x, IsFiniteSet(S)
  PROVE  /\ IsFiniteSet(S \cup {x})
         /\ x \notin S => Cardinality(S \cup {x}) = Cardinality(S) + 1
         /\ x \in S => S \cup {x} = S
BY FS_AddElement

LEMMA TypeInit == ConstantsOK /\ Init => LInv
<1> SUFFICES ASSUME ConstantsOK, Init PROVE LInv
  OBVIOUS
<1>1. TypeOK /\ AsDealt
  BY DEF ConstantsOK, Init, TypeOK, AsDealt, Time
<1>2. \A q \in Qid : Dealt(q) = {} /\ Marked(q) = {}
  BY DEF Init, Dealt, Marked
<1>3. \A q \in Qid : Open(q) = 0 /\ AtDesk(q) = 0 /\ Filing(q) = 0
  BY <1>2 DEF Init, Open, AtDesk, Filing
<1>4. IsFiniteSet({}) /\ Cardinality({}) = 0
  BY FS_EmptySet
<1>5. Balance
  BY <1>2, <1>3, <1>4 DEF Balance
<1> QED  BY <1>1, <1>5 DEF LInv

LEMMA QuizFields ==
  ASSUME NEW z \in Quiz
  PROVE  z.sid \in Sids /\ z.deadline \in Nat /\ z.file \in Files
BY DEF Quiz

\* Telling one connection something changes one of the two sets, by one.
LEMMA TellDeals ==
  ASSUME ConstantsOK, TypeOK, NEW c \in Clients, NEW p \in Qid, NEW d \in Nat, NEW f \in Files,
         Tell(c, AQT(p, d, f))
  PROVE  /\ Dealt(p)' = Dealt(p) \cup {c} /\ c \notin Dealt(p)
         /\ \A q \in Qid : q # p => Dealt(q)' = Dealt(q)
         /\ \A q \in Qid : Marked(q)' = Marked(q)
         /\ \A e \in Clients : e # c => told'[e] = told[e]
         /\ told'[c] = AQT(p, d, f)
         /\ told' \in [Clients -> Told \cup {None}]
<1>1. AQT(p, d, f) \in Told /\ AQT(p, d, f) # None
  BY DEF ConstantsOK, AQT, Told
<1>2. /\ told'[c] = AQT(p, d, f) /\ told[c] = None
      /\ \A e \in Clients : e # c => told'[e] = told[e]
      /\ told' \in [Clients -> Told \cup {None}]
  BY <1>1 DEF TypeOK, Tell
<1>3. /\ told'[c].kind = "AQT" /\ told'[c].qid = p /\ told'[c] # None
  BY <1>1, <1>2 DEF AQT
<1> QED  BY <1>2, <1>3 DEF Dealt, Marked

LEMMA TellMarks ==
  ASSUME ConstantsOK, TypeOK, NEW c \in Clients, NEW p \in Qid, NEW m \in -2..100,
         Tell(c, AQS(p, m))
  PROVE  /\ Marked(p)' = Marked(p) \cup (IF m >= 0 THEN {c} ELSE {}) /\ c \notin Marked(p)
         /\ \A q \in Qid : q # p => Marked(q)' = Marked(q)
         /\ \A q \in Qid : Dealt(q)' = Dealt(q)
         /\ \A e \in Clients : e # c => told'[e] = told[e]
         /\ told'[c] = AQS(p, m)
         /\ told' \in [Clients -> Told \cup {None}]
<1>1. AQS(p, m) \in Told /\ AQS(p, m) # None
  BY DEF ConstantsOK, AQS, Told
<1>2. /\ told'[c] = AQS(p, m) /\ told[c] = None
      /\ \A e \in Clients : e # c => told'[e] = told[e]
      /\ told' \in [Clients -> Told \cup {None}]
  BY <1>1 DEF TypeOK, Tell
<1>3. /\ told'[c].kind = "AQS" /\ told'[c].qid = p /\ told'[c].score = m /\ told'[c] # None
  BY <1>1, <1>2 DEF AQS
<1> QED  BY <1>2, <1>3 DEF Dealt, Marked

\* What was told is never taken back: a quiz that was dealt stays dealt.
LEMMA ToldStays ==
  ASSUME TypeOK, NEW c \in Clients, NEW a, Tell(c, a)
  PROVE  \A e \in Clients : told[e] # None => told'[e] = told[e]
BY DEF TypeOK, Tell

LEMMA StillDealt ==
  ASSUME TypeOK, \A e \in Clients : told[e] # None => told'[e] = told[e],
         NEW q \in Qid, NEW z, IsDealt(z, q)
  PROVE  IsDealt(z, q)'
BY DEF IsDealt, Dealt

LEMMA OpenStaysDealt ==
  ASSUME LInv, \A e \in Clients : told[e] # None => told'[e] = told[e],
         NEW q \in Qid, open'[q] = open[q], open'[q] # None
  PROVE  IsDealt(open[q], q)'
<1>1. PICK z : z = open[q]
  OBVIOUS
<1>2. IsDealt(z, q)'
  BY <1>1, StillDealt DEF LInv, AsDealt
<1> QED  BY <1>1, <1>2 DEF IsDealt

LEMMA DeskStaysDealt ==
  ASSUME LInv, \A e \in Clients : told[e] # None => told'[e] = told[e],
         desk' = desk, desk' # None
  PROVE  IsDealt(desk.quiz, desk.qid)'
<1>1. PICK z \in Quiz, q \in Qid : z = desk.quiz /\ q = desk.qid
  BY DEF LInv, TypeOK
<1>2. IsDealt(z, q)'
  BY <1>1, StillDealt DEF LInv, AsDealt
<1> QED  BY <1>1, <1>2 DEF IsDealt, Dealt

LEMMA MarkRange ==
  ASSUME ConstantsOK, NEW z \in Quiz, NEW s, NEW sheet \in Sheets
  PROVE  MarkOf(z, s, sheet) \in -2..100
<1>1. Score[<<sheet, z.file>>] \in 0..100
  BY QuizFields DEF ConstantsOK
<1> QED  BY <1>1 DEF MarkOf

-----------------------------------------------------------------------------
(* Each step preserves the invariant.                                      *)

LEMMA DealKeeps ==
  ASSUME LInv, NEW c \in Clients, NEW s \in Sids, NEW f \in Files, Deal(c, s, f)
  PROVE  LInv'
<1>1. PICK p \in Qid, d \in Nat :
        p = <<s, now>> /\ d = now + Window /\ Tell(c, AQT(p, d, f))
  BY DEF ConstantsOK, LInv, TypeOK, Deal, Qid, Time
<1>2. /\ Dealt(p)' = Dealt(p) \cup {c} /\ c \notin Dealt(p)
      /\ \A q \in Qid : q # p => Dealt(q)' = Dealt(q)
      /\ \A q \in Qid : Marked(q)' = Marked(q)
      /\ told'[c] = AQT(p, d, f)
      /\ told' \in [Clients -> Told \cup {None}]
  BY <1>1, TellDeals DEF LInv
<1>3. now' = now /\ open' = open /\ desk' = desk /\ filing = None /\ filing' = c
  BY DEF Deal
<1>4. TypeOK'
  BY <1>2, <1>3 DEF LInv, TypeOK
<1>5. \A e \in Clients : told[e] # None => told'[e] = told[e]
  BY <1>1, ToldStays DEF LInv
<1>6. AsDealt'
  <2>1. filing' # None => told'[filing'] # None /\ told'[filing'].kind = "AQT"
    BY <1>2, <1>3 DEF ConstantsOK, AQT, Told, LInv
  <2>2. \A q \in Qid : open'[q] # None => IsDealt(open[q], q)'
    BY <1>3, <1>5, OpenStaysDealt
  <2>3. desk' # None => IsDealt(desk.quiz, desk.qid)'
    BY <1>3, <1>5, DeskStaysDealt
  <2> QED  BY <2>1, <2>2, <2>3 DEF AsDealt
<1>7. Balance'
  <2> SUFFICES ASSUME NEW q \in Qid
               PROVE  /\ IsFiniteSet(Dealt(q)') /\ IsFiniteSet(Marked(q)')
                      /\ Cardinality(Marked(q)') + Open(q)' + AtDesk(q)' + Filing(q)'
                           <= Cardinality(Dealt(q)')
    BY DEF Balance
  <2>1. /\ IsFiniteSet(Dealt(q)) /\ IsFiniteSet(Marked(q))
        /\ Cardinality(Marked(q)) + Open(q) + AtDesk(q) + Filing(q) <= Cardinality(Dealt(q))
    BY DEF LInv, Balance
  <2>2. Marked(q)' = Marked(q) /\ Open(q)' = Open(q) /\ AtDesk(q)' = AtDesk(q)
    BY <1>2, <1>3 DEF Open, AtDesk
  <2>3. Filing(q) = 0
    BY <1>3 DEF ConstantsOK, Filing, Dealt, LInv
  <2>4. Cardinality(Dealt(q)) \in Nat /\ Cardinality(Marked(q)) \in Nat
    BY <2>1, CardinalityNat
  <2>5. Open(q) \in 0..1 /\ AtDesk(q) \in 0..1
    BY DEF Open, AtDesk
  <2>6. CASE q = p
    <3>1. /\ IsFiniteSet(Dealt(q)') /\ Cardinality(Dealt(q)') = Cardinality(Dealt(q)) + 1
      BY <2>1, <2>6, <1>2, OneMore
    <3>2. Filing(q)' \in 0..1
      BY DEF Filing
    <3> QED  BY <3>1, <3>2, <2>1, <2>2, <2>3, <2>4, <2>5
  <2>7. CASE q # p
    <3>1. Dealt(q)' = Dealt(q)
      BY <2>7, <1>2
    <3>2. told[c] = None
      BY <1>1 DEF Tell
    <3>3. Filing(q)' = 0
      BY <3>1, <3>2, <1>3 DEF Filing, Dealt
    <3> QED  BY <3>1, <3>3, <2>1, <2>2, <2>3, <2>4, <2>5
  <2> QED  BY <2>6, <2>7
<1> QED  BY <1>4, <1>6, <1>7 DEF LInv

\* The numbers in the balance.
LEMMA Numbers ==
  ASSUME Balance, NEW q \in Qid
  PROVE  /\ Cardinality(Dealt(q)) \in Nat /\ Cardinality(Marked(q)) \in Nat
         /\ Open(q) \in 0..1 /\ AtDesk(q) \in 0..1 /\ Filing(q) \in 0..1
         /\ Cardinality(Marked(q)) + Open(q) + AtDesk(q) + Filing(q) <= Cardinality(Dealt(q))
BY CardinalityNat DEF Balance, Open, AtDesk, Filing

\* A step that tells nobody anything keeps both sets.
LEMMA SameSets ==
  ASSUME told' = told, NEW q \in Qid
  PROVE  Dealt(q)' = Dealt(q) /\ Marked(q)' = Marked(q)
BY DEF Dealt, Marked

LEMMA FileKeeps ==
  ASSUME LInv, NEW c \in Clients, File(c)
  PROVE  LInv'
<1>1. PICK p \in Qid, d \in Nat, f \in Files :
        /\ told[c] = AQT(p, d, f) /\ told[c] # None
        /\ p[1] \in Sids
  <2>1. told[c] # None /\ told[c].kind = "AQT" /\ told[c] \in Told
    BY DEF ConstantsOK, LInv, TypeOK, AsDealt, File
  <2>2. told[c] \in [kind : {"AQT"}, qid : Qid, deadline : Nat, file : Files]
    BY <2>1 DEF Told
  <2>3. /\ told[c].qid \in Qid /\ told[c].deadline \in Nat /\ told[c].file \in Files
        /\ told[c] = AQT(told[c].qid, told[c].deadline, told[c].file)
    BY <2>2 DEF AQT
  <2>4. \A p \in Qid : p[1] \in Sids
    BY DEF Qid
  <2> QED  BY <2>1, <2>3, <2>4
<1>2. /\ told[c].qid = p /\ told[c].deadline = d /\ told[c].file = f /\ told[c].kind = "AQT"
  BY <1>1 DEF AQT
<1> DEFINE z == [sid |-> p[1], deadline |-> d, file |-> f]
<1>3. /\ open' = [open EXCEPT ![p] = z] /\ filing = c /\ filing' = None
      /\ now' = now /\ told' = told /\ desk' = desk
  BY <1>2 DEF File
<1>4. z \in Quiz /\ z # None
  BY <1>1 DEF ConstantsOK, Quiz, LInv
<1>5. TypeOK'
  BY <1>3, <1>4 DEF LInv, TypeOK
<1>6. AsDealt'
  <2>1. \A q \in Qid : open'[q] # None => IsDealt(open[q], q)'
    <3> SUFFICES ASSUME NEW q \in Qid, open'[q] # None PROVE IsDealt(open[q], q)'
      OBVIOUS
    <3>1. CASE q = p
      <4>1. open'[q] = z
        BY <3>1, <1>3 DEF LInv, TypeOK
      <4>2. c \in Dealt(q)'
        BY <3>1, <1>1, <1>2, <1>3 DEF Dealt
      <4> QED  BY <4>1, <4>2, <1>2, <1>3 DEF IsDealt
    <3>2. CASE q # p
      BY <3>2, <1>3, OpenStaysDealt DEF LInv, TypeOK
    <3> QED  BY <3>1, <3>2
  <2>2. desk' # None => IsDealt(desk.quiz, desk.qid)'
    BY <1>3, DeskStaysDealt
  <2> QED  BY <2>1, <2>2, <1>3 DEF AsDealt
<1>7. Balance'
  <2> SUFFICES ASSUME NEW q \in Qid
               PROVE  /\ IsFiniteSet(Dealt(q)') /\ IsFiniteSet(Marked(q)')
                      /\ Cardinality(Marked(q)') + Open(q)' + AtDesk(q)' + Filing(q)'
                           <= Cardinality(Dealt(q)')
    BY DEF Balance
  <2>1. /\ IsFiniteSet(Dealt(q)) /\ IsFiniteSet(Marked(q))
    BY DEF LInv, Balance
  <2>2. Dealt(q)' = Dealt(q) /\ Marked(q)' = Marked(q) /\ AtDesk(q)' = AtDesk(q)
    BY <1>3, SameSets DEF AtDesk
  <2>3. Filing(q)' = 0 /\ (q = p => Filing(q) = 1)
    BY <1>1, <1>2, <1>3 DEF ConstantsOK, Filing, Dealt, LInv
  <2>4. Open(q)' \in 0..1 /\ (q # p => Open(q)' = Open(q))
    BY <1>3 DEF Open, LInv, TypeOK
  <2> QED  BY <2>1, <2>2, <2>3, <2>4, Numbers DEF LInv
<1> QED  BY <1>5, <1>6, <1>7 DEF LInv

LEMMA TakeKeeps ==
  ASSUME LInv, NEW p \in Qid, Take(p)
  PROVE  LInv'
<1>1. /\ open' = [open EXCEPT ![p] = None] /\ desk' = [qid |-> p, quiz |-> open[p]]
      /\ now' = now /\ told' = told /\ filing' = filing /\ open[p] # None /\ desk = None
  BY DEF Take
<1>2. desk'.qid = p /\ desk'.quiz = open[p] /\ desk' # None
  BY <1>1 DEF ConstantsOK, LInv, TypeOK
<1>3. TypeOK'
  BY <1>1 DEF LInv, TypeOK
<1>4. AsDealt'
  <2>1. \A q \in Qid : open'[q] # None => IsDealt(open[q], q)'
    BY <1>1, OpenStaysDealt DEF LInv, TypeOK
  <2>2. IsDealt(desk.quiz, desk.qid)'
    <3>1. PICK z : z = open[p]
      OBVIOUS
    <3>2. IsDealt(z, p)'
      BY <3>1, <1>1, StillDealt DEF LInv, AsDealt
    <3> QED  BY <3>1, <3>2, <1>2 DEF IsDealt, Dealt
  <2> QED  BY <2>1, <2>2, <1>1 DEF AsDealt, LInv
<1>5. Balance'
  <2> SUFFICES ASSUME NEW q \in Qid
               PROVE  /\ IsFiniteSet(Dealt(q)') /\ IsFiniteSet(Marked(q)')
                      /\ Cardinality(Marked(q)') + Open(q)' + AtDesk(q)' + Filing(q)'
                           <= Cardinality(Dealt(q)')
    BY DEF Balance
  <2>1. /\ IsFiniteSet(Dealt(q)) /\ IsFiniteSet(Marked(q))
    BY DEF LInv, Balance
  <2>2. Dealt(q)' = Dealt(q) /\ Marked(q)' = Marked(q) /\ Filing(q)' = Filing(q)
    BY <1>1, SameSets DEF Filing
  <2>3. Open(q)' + AtDesk(q)' = Open(q) + AtDesk(q)
    <3>1. CASE q = p
      BY <3>1, <1>1, <1>2 DEF Open, AtDesk, LInv, TypeOK
    <3>2. CASE q # p
      BY <3>2, <1>1, <1>2 DEF Open, AtDesk, LInv, TypeOK
    <3> QED  BY <3>1, <3>2
  <2>4. Open(q)' \in 0..1 /\ AtDesk(q)' \in 0..1
    BY DEF Open, AtDesk
  <2> QED  BY <2>1, <2>2, <2>3, <2>4, Numbers DEF LInv
<1> QED  BY <1>3, <1>4, <1>5 DEF LInv

LEMMA TellMarkKeeps ==
  ASSUME LInv, NEW c \in Clients, NEW p \in Qid, NEW m \in -2..100,
         Tell(c, AQS(p, m)), UNCHANGED <<now, filing, open>>,
         \/ m < 0 /\ UNCHANGED desk
         \/ desk # None /\ desk.qid = p /\ desk' = None
  PROVE  LInv'
<1>1. /\ Marked(p)' = Marked(p) \cup (IF m >= 0 THEN {c} ELSE {}) /\ c \notin Marked(p)
      /\ \A q \in Qid : q # p => Marked(q)' = Marked(q)
      /\ \A q \in Qid : Dealt(q)' = Dealt(q)
      /\ \A e \in Clients : e # c => told'[e] = told[e]
      /\ told'[c] = AQS(p, m)
      /\ told' \in [Clients -> Told \cup {None}]
  BY TellMarks DEF LInv
<1>2. TypeOK'
  BY <1>1 DEF LInv, TypeOK
<1>3. \A e \in Clients : told[e] # None => told'[e] = told[e]
  BY ToldStays DEF LInv
<1>4. AsDealt'
  <2>1. \A q \in Qid : open'[q] # None => IsDealt(open[q], q)'
    BY <1>3, OpenStaysDealt
  <2>2. desk' # None => IsDealt(desk.quiz, desk.qid)'
    BY <1>3, DeskStaysDealt
  <2>3. filing' # None => told'[filing'] # None /\ told'[filing'].kind = "AQT"
    BY <1>3 DEF LInv, AsDealt, TypeOK
  <2> QED  BY <2>1, <2>2, <2>3 DEF AsDealt
<1>5. Balance'
  <2> SUFFICES ASSUME NEW q \in Qid
               PROVE  /\ IsFiniteSet(Dealt(q)') /\ IsFiniteSet(Marked(q)')
                      /\ Cardinality(Marked(q)') + Open(q)' + AtDesk(q)' + Filing(q)'
                           <= Cardinality(Dealt(q)')
    BY DEF Balance
  <2>1. IsFiniteSet(Dealt(q)) /\ IsFiniteSet(Marked(q))
    BY DEF LInv, Balance
  <2>2. Dealt(q)' = Dealt(q) /\ Filing(q)' = Filing(q) /\ Open(q)' = Open(q)
    BY <1>1 DEF Filing, Open
  <2>3. AtDesk(q)' \in 0..1 /\ AtDesk(q)' <= AtDesk(q) /\ AtDesk(q) \in 0..1
    BY DEF AtDesk
  <2>4. CASE q = p /\ m >= 0
    <3>1. IsFiniteSet(Marked(q)') /\ Cardinality(Marked(q)') = Cardinality(Marked(q)) + 1
      BY <2>1, <2>4, <1>1, OneMore
    <3>2. AtDesk(q) = 1 /\ AtDesk(q)' = 0
      BY <2>4 DEF AtDesk
    <3> QED  BY <3>1, <3>2, <2>1, <2>2, Numbers DEF LInv
  <2>5. CASE ~(q = p /\ m >= 0)
    <3>1. Marked(q)' = Marked(q)
      BY <2>5, <1>1
    <3> QED  BY <3>1, <2>1, <2>2, <2>3, Numbers DEF LInv
  <2> QED  BY <2>4, <2>5
<1> QED  BY <1>2, <1>4, <1>5 DEF LInv

LEMMA MislayKeeps ==
  ASSUME LInv, UNCHANGED <<told, open, desk>>, now' \in Time,
         filing' = None \/ filing' = filing
  PROVE  LInv'
<1>1. TypeOK'
  BY DEF LInv, TypeOK
<1>2. AsDealt'
  <2>1. \A q \in Qid : open'[q] # None => IsDealt(open[q], q)'
    BY OpenStaysDealt
  <2>2. desk' # None => IsDealt(desk.quiz, desk.qid)'
    BY DeskStaysDealt
  <2> QED  BY <2>1, <2>2 DEF AsDealt, LInv
<1>3. Balance'
  <2> SUFFICES ASSUME NEW q \in Qid
               PROVE  /\ IsFiniteSet(Dealt(q)') /\ IsFiniteSet(Marked(q)')
                      /\ Cardinality(Marked(q)') + Open(q)' + AtDesk(q)' + Filing(q)'
                           <= Cardinality(Dealt(q)')
    BY DEF Balance
  <2>1. IsFiniteSet(Dealt(q)) /\ IsFiniteSet(Marked(q))
    BY DEF LInv, Balance
  <2>2. /\ Dealt(q)' = Dealt(q) /\ Marked(q)' = Marked(q)
        /\ Open(q)' = Open(q) /\ AtDesk(q)' = AtDesk(q)
    BY SameSets DEF Open, AtDesk
  <2>3. Filing(q)' \in 0..1 /\ Filing(q)' <= Filing(q)
    BY <2>2 DEF ConstantsOK, Filing, Dealt, LInv
  <2> QED  BY <2>1, <2>2, <2>3, Numbers DEF LInv
<1> QED  BY <1>1, <1>2, <1>3 DEF LInv

LEMMA NextKeeps == LInv /\ [Next]_vars => LInv'
<1> SUFFICES ASSUME LInv, [Next]_vars PROVE LInv'
  OBVIOUS
<1>1. CASE Tick
  BY <1>1, MislayKeeps DEF ConstantsOK, Tick, LInv, TypeOK, Time
<1>2. CASE Mislay
  BY <1>2, MislayKeeps DEF Mislay, LInv, TypeOK
<1>3. ASSUME NEW c \in Clients, File(c) PROVE LInv'
  BY <1>3, FileKeeps
<1>4. ASSUME NEW c \in Clients, NEW s \in Sids, NEW f \in Files, Deal(c, s, f) PROVE LInv'
  BY <1>4, DealKeeps
<1>5. ASSUME NEW c \in Clients, NEW q \in Qid, Refuse(c, q) PROVE LInv'
  BY <1>5, TellMarkKeeps DEF Refuse
<1>6. ASSUME NEW c \in Clients, NEW s \in Sids, NEW sheet \in Sheets, Mark(c, s, sheet)
      PROVE  LInv'
  <2>1. PICK p \in Qid, m \in -2..100 : p = desk.qid /\ m = MarkOf(desk.quiz, s, sheet)
    BY <1>6, MarkRange DEF Mark, LInv, TypeOK
  <2> QED  BY <1>6, <2>1, TellMarkKeeps DEF Mark
<1>7. ASSUME NEW q \in Qid, Take(q) PROVE LInv'
  BY <1>7, TakeKeeps
<1>8. CASE UNCHANGED vars
  BY <1>8, MislayKeeps DEF vars, LInv, TypeOK
<1> QED  BY <1>1, <1>2, <1>3, <1>4, <1>5, <1>6, <1>7, <1>8 DEF Next

\* The balance and what it rests on hold in every state of the ledger.
THEOREM LedgerInvariant == ConstantsOK /\ Spec => []LInv
BY TypeInit, NextKeeps, PTL DEF Spec

-----------------------------------------------------------------------------
(* What a topic server promises.                                           *)

\* No questionnaire is marked more often than it was dealt, for any number of
\* connections, students and seconds.
THEOREM AtMostOnceAlways == ConstantsOK /\ Spec => []AtMostOnce
<1>1. LInv => AtMostOnce
  BY Numbers DEF LInv, AtMostOnce
<1> QED  BY <1>1, LedgerInvariant, PTL

\* A mark is that of a sheet against the file that was dealt, before the
\* deadline that was dealt: a score never comes from another questionnaire.
THEOREM MarkedAsDealtAlways == ConstantsOK /\ Spec => MarkedAsDealt
<1> DEFINE Told1 ==
      \A q \in Qid : \A c \in Marked(q)' \ Marked(q) :
        \E d \in Dealt(q), sheet \in Sheets :
          /\ now < told[d].deadline
          /\ told'[c].score = Score[<<sheet, told[d].file>>]
<1>1. LInv /\ [Next]_vars => [Told1]_vars
  <2> SUFFICES ASSUME LInv, Next, NEW q \in Qid, NEW c \in Marked(q)', c \notin Marked(q)
               PROVE  \E d \in Dealt(q), sheet \in Sheets :
                        /\ now < told[d].deadline
                        /\ told'[c].score = Score[<<sheet, told[d].file>>]
    OBVIOUS
  <2>1. c \in Clients /\ told'[c] # None /\ told'[c].kind = "AQS" /\ told'[c].qid = q
        /\ told'[c].score >= 0 /\ told'[c] # told[c]
    BY DEF Marked
  <2>2. PICK e \in Clients, s \in Sids, sheet \in Sheets : Mark(e, s, sheet)
    <3>1. ~Tick /\ ~Mislay /\ \A e \in Clients : ~File(e)
      BY <2>1 DEF Tick, Mislay, File
    <3>2. \A p \in Qid : ~Take(p)
      BY <2>1 DEF Take
    <3>3. ASSUME NEW e \in Clients, NEW p \in Qid, Refuse(e, p) PROVE FALSE
      BY <3>3, <2>1 DEF Refuse, Tell, AQS, LInv, TypeOK
    <3>4. ASSUME NEW e \in Clients, NEW s \in Sids, NEW f \in Files, Deal(e, s, f) PROVE FALSE
      BY <3>4, <2>1 DEF Deal, Tell, AQT, LInv, TypeOK
    <3> QED  BY <3>1, <3>2, <3>3, <3>4 DEF Next
  <2>3. /\ told'[c] = AQS(desk.qid, MarkOf(desk.quiz, s, sheet)) /\ desk # None
    BY <2>1, <2>2 DEF Mark, Tell, LInv, TypeOK
  <2>4. desk.qid = q /\ told'[c].score = MarkOf(desk.quiz, s, sheet)
    BY <2>1, <2>3 DEF AQS
  <2>5. /\ now < desk.quiz.deadline
        /\ told'[c].score = Score[<<sheet, desk.quiz.file>>]
    BY <2>1, <2>4 DEF MarkOf
  <2>6. PICK d \in Dealt(q) : desk.quiz.deadline = told[d].deadline
                            /\ desk.quiz.file = told[d].file
    BY <2>3, <2>4 DEF LInv, AsDealt, IsDealt
  <2> QED  BY <2>5, <2>6
<1> QED  BY <1>1, LedgerInvariant, PTL DEF MarkedAsDealt, Spec
=============================================================================
