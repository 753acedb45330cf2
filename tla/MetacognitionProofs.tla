-------------------------- MODULE MetacognitionProofs --------------------------
(***************************************************************************)
(* Proofs about the governed life of a proposal, for every set of           *)
(* proposals, versions and references, any number of host variables and     *)
(* records, any crashes and any sanitisation of scope names.                *)
(***************************************************************************)
EXTENDS Metacognition, SequenceTheorems, TLAPS

ProposalValue == [kind : {"proposal"}, id : Proposal, status : Status,
                  outcome : Outcomes \cup {NoOutcome}, ref : Ref \cup {NoRef}]

RecordValue == [kind : {"version"}, version : Version, id : Proposal, ref : Ref \cup {NoRef}]
               \cup [kind : {"rollback"}, version : Version, target : Version, ref : Ref]

(* A proposal value that carries the evaluation it was authorized on.       *)
EarnedProposals ==
    {p \in ProposalValue :
        p.status \in {"authorized", "promoted"} =>
            Eligible(p.outcome) /\ <<p.id, p.outcome, p.ref>> \in granted}

(* A record that goes back to an authorization, if it is of a version.      *)
EarnedRecords ==
    {v \in RecordValue :
        v.kind = "version" => \E g \in granted :
            g[1] = v.id /\ g[3] = v.ref /\ Eligible(g[2])}

Writable(l) == IF l[1] = "proposals" THEN EarnedProposals ELSE EarnedRecords

(* Lines whose text, where it parses, is one of T.                          *)
LinesOf(T) == [text : T \cup {Garbage}, open : BOOLEAN]

Typing ==
    /\ hand \in [Slot -> EarnedProposals \cup {Nothing}]
    /\ records \in SUBSET EarnedRecords
    /\ logs \in [Log -> Seq(LinesOf(ProposalValue \cup RecordValue))]
    /\ acked \in [Log -> Seq(Scope \X (ProposalValue \cup RecordValue))]

(* What a file holds was earned when it was written.                        *)
OnDisk == \A l \in Log : logs[l] \in Seq(LinesOf(Writable(l)))

IInv == Typing /\ OnDisk /\ NoSilentLoss

-----------------------------------------------------------------------------
(* Lemmas about files: what a write leaves behind.                          *)

(* A function on 1..n is a sequence of length n.                            *)
LEMMA FunctionIsSequence ==
    ASSUME NEW S, NEW n \in Nat, NEW f \in [1..n -> S]
    PROVE  f \in Seq(S) /\ Len(f) = n
<1>1. f \in Seq(S)
  BY SeqDef
<1>2. DOMAIN f = 1..Len(f) /\ Len(f) \in Nat
  BY <1>1, LenProperties
<1>3. 1..Len(f) = 1..n
  BY <1>2
<1> QED
  BY <1>1, <1>2, <1>3

(* The last line of a file and the others.                                  *)
LEMMA FrontLast ==
    ASSUME NEW S, NEW s \in Seq(S), s # <<>>
    PROVE  /\ Front(s) \in Seq(S) /\ Len(Front(s)) = Len(s) - 1
           /\ \A i \in 1..(Len(s) - 1) : Front(s)[i] = s[i]
           /\ Last(s) = s[Len(s)] /\ Len(s) \in Nat \ {0}
<1>1. Len(s) \in Nat \ {0}
  BY EmptySeq
<1>2. \A i \in 1..(Len(s) - 1) : s[i] \in S
  BY <1>1, ElementOfSeq
<1>3. /\ SubSeq(s, 1, Len(s) - 1) \in Seq(S)
      /\ Len(SubSeq(s, 1, Len(s) - 1)) = IF 1 <= Len(s) - 1 THEN Len(s) - 1 - 1 + 1 ELSE 0
      /\ \A i \in 1..(Len(s) - 1 - 1 + 1) : SubSeq(s, 1, Len(s) - 1)[i] = s[1 + i - 1]
  BY <1>1, <1>2, SubSeqProperties
<1>4. /\ (IF 1 <= Len(s) - 1 THEN Len(s) - 1 - 1 + 1 ELSE 0) = Len(s) - 1
      /\ Len(s) - 1 - 1 + 1 = Len(s) - 1
      /\ \A i \in 1..(Len(s) - 1) : 1 + i - 1 = i
  BY <1>1
<1>5. /\ Len(SubSeq(s, 1, Len(s) - 1)) = Len(s) - 1
      /\ \A i \in 1..(Len(s) - 1) : SubSeq(s, 1, Len(s) - 1)[i] = s[i]
  BY <1>3, <1>4
<1> QED
  BY <1>1, <1>3, <1>5 DEF Front, Last

(* Whatever is open, a write leaves lines, of records of the same kind.     *)
LEMMA JoinedType ==
    ASSUME NEW T, NEW file \in Seq(LinesOf(T)), NEW lines \in Seq(LinesOf(T))
    PROVE  Joined(file, lines) \in Seq(LinesOf(T))
<1>1. CASE lines = <<>>
  BY <1>1 DEF Joined
<1>2. CASE lines # <<>> /\ file # <<>> /\ Last(file).open
  <2> DEFINE spoilt == [Head(lines) EXCEPT !.text = Garbage]
  <2>1. Head(lines) \in LinesOf(T) /\ Tail(lines) \in Seq(LinesOf(T))
    BY <1>2, HeadTailProperties
  <2>2. spoilt \in LinesOf(T)
    BY <2>1 DEF LinesOf
  <2>3. Front(file) \in Seq(LinesOf(T)) /\ <<spoilt>> \in Seq(LinesOf(T))
    BY <1>2, <2>2, FrontLast
  <2>4. (Front(file) \o <<spoilt>>) \o Tail(lines) \in Seq(LinesOf(T))
    BY <2>1, <2>3, ConcatProperties
  <2> QED
    BY <1>2, <2>4 DEF Joined
<1>3. CASE lines # <<>> /\ ~(file # <<>> /\ Last(file).open)
  BY <1>3, ConcatProperties DEF Joined
<1> QED
  BY <1>1, <1>2, <1>3

(* A file that can still be loaded after a write could be loaded before it, *)
(* and the write only added to it: garbage is never written over.           *)
LEMMA JoinedLoads ==
    ASSUME NEW T, NEW file \in Seq(LinesOf(T)), NEW lines \in Seq(LinesOf(T)),
           Loads(Joined(file, lines))
    PROVE  Joined(file, lines) = file \o lines /\ Loads(file) /\ Loads(lines)
<1>1. Joined(file, lines) = file \o lines
  <2>1. CASE lines = <<>>
    BY <2>1, ConcatEmptySeq DEF Joined
  <2>2. CASE lines # <<>> /\ file # <<>> /\ Last(file).open
    <3> DEFINE spoilt == [Head(lines) EXCEPT !.text = Garbage]
               front  == Front(file) \o <<spoilt>>
               whole  == front \o Tail(lines)
    <3>1. Head(lines) \in LinesOf(T) /\ Tail(lines) \in Seq(LinesOf(T))
      BY <2>2, HeadTailProperties
    <3>2. spoilt \in LinesOf(T) /\ spoilt.text = Garbage
      BY <3>1 DEF LinesOf
    <3>3. /\ Front(file) \in Seq(LinesOf(T)) /\ Len(Front(file)) \in Nat
          /\ <<spoilt>> \in Seq(LinesOf(T)) /\ Len(<<spoilt>>) = 1 /\ <<spoilt>>[1] = spoilt
      BY <2>2, <3>2, FrontLast, LenProperties
    <3> HIDE DEF spoilt
    <3>4. /\ front \in Seq(LinesOf(T)) /\ Len(front) = Len(Front(file)) + 1
          /\ front[Len(front)] = spoilt
      BY <3>3, ConcatProperties
    <3> HIDE DEF front
    <3>5. /\ Len(front) \in 1..Len(whole) /\ whole[Len(front)] = spoilt
      <4>1. Len(front) \in Nat /\ Len(front) >= 1 /\ Len(Tail(lines)) \in Nat
        BY <3>1, <3>3, <3>4, LenProperties
      <4>2. /\ Len(whole) = Len(front) + Len(Tail(lines))
            /\ \A i \in 1..(Len(front) + Len(Tail(lines))) :
                  whole[i] = IF i <= Len(front) THEN front[i] ELSE Tail(lines)[i - Len(front)]
        BY <3>1, <3>4, ConcatProperties
      <4> QED
        BY <3>4, <4>1, <4>2
    <3>6. Joined(file, lines) = whole
      BY <2>2 DEF Joined, front, spoilt
    <3> QED
      BY <3>2, <3>5, <3>6 DEF Loads
  <2>3. CASE lines # <<>> /\ ~(file # <<>> /\ Last(file).open)
    BY <2>3 DEF Joined
  <2> QED
    BY <2>1, <2>2, <2>3
<1>2. /\ Len(file) \in Nat /\ Len(lines) \in Nat
      /\ Len(file \o lines) = Len(file) + Len(lines)
      /\ \A i \in 1..(Len(file) + Len(lines)) :
            (file \o lines)[i] = IF i <= Len(file) THEN file[i] ELSE lines[i - Len(file)]
  BY ConcatProperties, LenProperties
<1>3. Loads(file)
  <2> SUFFICES ASSUME NEW i \in 1..Len(file) PROVE file[i].text # Garbage
    BY DEF Loads
  <2>1. i \in 1..Len(file \o lines) /\ (file \o lines)[i] = file[i]
    BY <1>2
  <2> QED
    BY <1>1, <2>1 DEF Loads
<1>4. Loads(lines)
  <2> SUFFICES ASSUME NEW i \in 1..Len(lines) PROVE lines[i].text # Garbage
    BY DEF Loads
  <2>1. /\ Len(file) + i \in 1..Len(file \o lines)
        /\ (file \o lines)[Len(file) + i] = lines[i]
    <3>1. ~(Len(file) + i <= Len(file)) /\ Len(file) + i \in 1..(Len(file) + Len(lines))
          /\ (Len(file) + i) - Len(file) = i
      BY <1>2
    <3> QED
      BY <1>2, <3>1
  <2> QED
    BY <1>1, <2>1 DEF Loads
<1> QED
  BY <1>1, <1>3, <1>4

(* The lines a record leaves, whole or without its newline.                 *)
LEMMA LinesType ==
    ASSUME NEW T, NEW rec \in T, NEW split \in BOOLEAN, NEW ended \in BOOLEAN
    PROVE  Lines(rec, split, ended) \in Seq(LinesOf(T))
<1>1. /\ Line(Garbage, FALSE) \in LinesOf(T) /\ Line(Garbage, ~ended) \in LinesOf(T)
      /\ Line(rec, ~ended) \in LinesOf(T)
  BY DEF Line, LinesOf
<1>2. \A x, y \in LinesOf(T) : <<x, y>> \in Seq(LinesOf(T)) /\ <<x>> \in Seq(LinesOf(T))
  OBVIOUS
<1>3. CASE split
  BY <1>1, <1>2, <1>3 DEF Lines
<1>4. CASE ~split
  BY <1>1, <1>2, <1>4 DEF Lines
<1> QED
  BY <1>3, <1>4

(* What a dying process leaves was joined from lines of the same kind.      *)
LEMMA TornType ==
    ASSUME NEW T, NEW file \in Seq(LinesOf(T)), NEW rec \in T, NEW split \in BOOLEAN,
           NEW torn \in Torn(file, rec, split)
    PROVE  \E part \in Seq(LinesOf(T)) : torn = Joined(file, part)
<1>1. /\ <<>> \in Seq(LinesOf(T)) /\ <<Line(Garbage, TRUE)>> \in Seq(LinesOf(T))
      /\ Lines(rec, split, FALSE) \in Seq(LinesOf(T))
  <2> DEFINE spoilt == Line(Garbage, TRUE)
  <2>1. spoilt \in LinesOf(T)
    BY DEF Line, LinesOf
  <2> HIDE DEF spoilt
  <2>2. <<spoilt>> \in Seq(LinesOf(T)) /\ <<>> \in Seq(LinesOf(T))
    BY <2>1
  <2>3. Lines(rec, split, FALSE) \in Seq(LinesOf(T))
    BY LinesType
  <2> QED
    BY <2>2, <2>3 DEF spoilt
<1> QED
  BY <1>1 DEF Torn

-----------------------------------------------------------------------------
(* Lemmas about the order of what was acknowledged.                         *)

(* Every acknowledged record has a line of its own, in their order: Within  *)
(* for a file and its acknowledgements.                                     *)
Recorded(file, acks) ==
    \E at \in [1..Len(acks) -> 1..Len(file)] :
        /\ \A i, j \in 1..Len(acks) : i < j => at[i] < at[j]
        /\ \A i \in 1..Len(acks) : file[at[i]].text = acks[i][2]

(* One sequence lies within another exactly if each entry has a place there.*)
LEMMA WithinIsRecorded ==
    ASSUME NEW T, NEW file \in Seq(LinesOf(T)), NEW S, NEW V, NEW acks \in Seq(S \X V)
    PROVE  Within([i \in 1..Len(acks) |-> acks[i][2]], Contents(file))
               <=> Recorded(file, acks)
<1> DEFINE s == [i \in 1..Len(acks) |-> acks[i][2]]
           t == Contents(file)
<1>1. Len(acks) \in Nat /\ Len(file) \in Nat
  BY LenProperties
<1>2. s \in [1..Len(acks) -> V]
  <2>1. \A i \in 1..Len(acks) : acks[i] \in S \X V
    BY ElementOfSeq
  <2> QED
    BY <2>1
<1>3. t \in [1..Len(file) -> T \cup {Garbage}]
  <2>1. \A i \in 1..Len(file) : file[i] \in LinesOf(T)
    BY ElementOfSeq
  <2> QED
    BY <2>1 DEF Contents, LinesOf
<1>4. Len(s) = Len(acks) /\ Len(t) = Len(file)
  BY <1>1, <1>2, <1>3, FunctionIsSequence
<1>5. /\ \A i \in 1..Len(acks) : s[i] = acks[i][2]
      /\ \A i \in 1..Len(file) : t[i] = file[i].text
  BY DEF Contents
<1> HIDE DEF s, t
<1>6. Within(s, t) <=> Recorded(file, acks)
  <2>1. Within(s, t) <=>
            \E at \in [1..Len(acks) -> 1..Len(file)] :
                /\ \A i, j \in 1..Len(acks) : i < j => at[i] < at[j]
                /\ \A i \in 1..Len(acks) : t[at[i]] = s[i]
    BY <1>4 DEF Within
  <2>2. ASSUME NEW at \in [1..Len(acks) -> 1..Len(file)], NEW i \in 1..Len(acks)
        PROVE  t[at[i]] = file[at[i]].text /\ s[i] = acks[i][2]
    BY <1>5
  <2> QED
    BY <2>1, <2>2 DEF Recorded
<1> QED
  BY <1>6 DEF s, t

(* Further lines take nothing away.                                         *)
LEMMA RecordedExtends ==
    ASSUME NEW S, NEW file \in Seq(S), NEW more \in Seq(S), NEW acks, Recorded(file, acks)
    PROVE  Recorded(file \o more, acks)
<1>1. /\ Len(file) \in Nat /\ Len(more) \in Nat
      /\ Len(file \o more) = Len(file) + Len(more)
      /\ \A i \in 1..(Len(file) + Len(more)) :
            (file \o more)[i] = IF i <= Len(file) THEN file[i] ELSE more[i - Len(file)]
  BY ConcatProperties, LenProperties
<1>2. \A i \in 1..Len(file) : i \in 1..Len(file \o more) /\ (file \o more)[i] = file[i]
  BY <1>1
<1>3. PICK at \in [1..Len(acks) -> 1..Len(file)] :
          /\ \A i, j \in 1..Len(acks) : i < j => at[i] < at[j]
          /\ \A i \in 1..Len(acks) : file[at[i]].text = acks[i][2]
  BY DEF Recorded
<1>4. at \in [1..Len(acks) -> 1..Len(file \o more)]
  BY <1>2, <1>3
<1>5. \A i \in 1..Len(acks) : (file \o more)[at[i]].text = acks[i][2]
  BY <1>2, <1>3
<1> QED
  BY <1>3, <1>4, <1>5 DEF Recorded

(* A line added for a record that is then acknowledged.                     *)
LEMMA RecordedAppends ==
    ASSUME NEW S, NEW file \in Seq(S), NEW line \in S, NEW E, NEW acks \in Seq(E),
           NEW e \in E, e[2] = line.text, Recorded(file, acks)
    PROVE  Recorded(file \o <<line>>, Append(acks, e))
<1> DEFINE n == Len(acks)
           m == Len(file)
           acks2 == Append(acks, e)
           file2 == file \o <<line>>
<1>1. n \in Nat /\ m \in Nat
  BY LenProperties
<1>2. /\ Len(acks2) = n + 1 /\ \A i \in 1..n : acks2[i] = acks[i]
      /\ acks2[n + 1] = e
  BY AppendProperties
<1>3. /\ Len(file2) = m + 1 /\ \A i \in 1..m : file2[i] = file[i]
      /\ file2[m + 1] = line
  <2>1. /\ <<line>> \in Seq(S) /\ Len(<<line>>) = 1 /\ <<line>>[1] = line
    OBVIOUS
  <2>2. /\ Len(file2) = m + 1
        /\ \A i \in 1..(m + 1) : file2[i] = IF i <= m THEN file[i] ELSE <<line>>[i - m]
    BY <2>1, ConcatProperties
  <2>3. m + 1 \in 1..(m + 1) /\ ~(m + 1 <= m) /\ (m + 1) - m = 1
    BY <1>1
  <2>4. file2[m + 1] = line
    BY <2>1, <2>2, <2>3
  <2>5. \A i \in 1..m : i \in 1..(m + 1) /\ i <= m
    BY <1>1
  <2> HIDE DEF m, file2
  <2> QED
    BY <2>2, <2>4, <2>5
<1>4. PICK at \in [1..n -> 1..m] :
          /\ \A i, j \in 1..n : i < j => at[i] < at[j]
          /\ \A i \in 1..n : file[at[i]].text = acks[i][2]
  BY DEF Recorded
<1> DEFINE at2 == [i \in 1..(n + 1) |-> IF i = n + 1 THEN m + 1 ELSE at[i]]
<1> HIDE DEF n, m, acks2, file2
<1>5. \A i \in 1..(n + 1) : i = n + 1 \/ i \in 1..n
  BY <1>1
<1>6. \A i \in 1..n : at[i] \in 1..m /\ at[i] \in 1..(m + 1) /\ at[i] < m + 1
  BY <1>1, <1>4
<1>7. m + 1 \in 1..(m + 1)
  BY <1>1
<1>8. /\ at2[n + 1] = m + 1 /\ \A i \in 1..n : at2[i] = at[i]
      /\ at2 \in [1..(n + 1) -> 1..(m + 1)]
  <2>1. n + 1 \in 1..(n + 1) /\ \A i \in 1..n : i \in 1..(n + 1) /\ i # n + 1
    BY <1>1
  <2> QED
    BY <2>1, <1>5, <1>6, <1>7
<1> HIDE DEF at2
<1>9. ASSUME NEW i \in 1..(n + 1), NEW j \in 1..(n + 1), i < j
      PROVE  at2[i] < at2[j]
  <2>1. i \in 1..n
    BY <1>1, <1>9
  <2>2. CASE j = n + 1
    BY <1>6, <1>8, <2>1, <2>2
  <2>3. CASE j \in 1..n
    BY <1>4, <1>8, <1>9, <2>1, <2>3
  <2> QED
    BY <1>5, <2>2, <2>3
<1>10. ASSUME NEW i \in 1..(n + 1)
       PROVE  file2[at2[i]].text = acks2[i][2]
  <2>1. CASE i = n + 1
    BY <1>2, <1>3, <1>8, <2>1
  <2>2. CASE i \in 1..n
    BY <1>2, <1>3, <1>4, <1>6, <1>8, <2>2
  <2> QED
    BY <1>5, <2>1, <2>2
<1>11. Recorded(file2, acks2)
  <2>1. at2 \in [1..Len(acks2) -> 1..Len(file2)]
    BY <1>2, <1>3, <1>8
  <2>2. \A i, j \in 1..Len(acks2) : i < j => at2[i] < at2[j]
    BY <1>2, <1>9
  <2>3. \A i \in 1..Len(acks2) : file2[at2[i]].text = acks2[i][2]
    BY <1>2, <1>10
  <2> QED
    BY <2>1, <2>2, <2>3 DEF Recorded
<1> QED
  BY <1>11 DEF file2, acks2

-----------------------------------------------------------------------------
(* The steps.                                                               *)

(* What was earned stays earned: authorizations are only added.             *)
LEMMA EarnedMonotone ==
    ASSUME granted \subseteq granted'
    PROVE  /\ EarnedProposals \subseteq EarnedProposals'
           /\ EarnedRecords \subseteq EarnedRecords'
           /\ \A l : Writable(l) \subseteq Writable(l)'
<1>1. EarnedProposals \subseteq EarnedProposals'
  BY DEF EarnedProposals, Eligible
<1>2. EarnedRecords \subseteq EarnedRecords'
  BY DEF EarnedRecords, Eligible
<1> QED
  BY <1>1, <1>2 DEF Writable

(* A file of fewer records is one of more.                                  *)
LEMMA LinesMonotone ==
    ASSUME NEW S, NEW T, S \subseteq T, NEW file \in Seq(LinesOf(S))
    PROVE  file \in Seq(LinesOf(T))
<1>1. LinesOf(S) \subseteq LinesOf(T)
  BY DEF LinesOf
<1> QED
  BY <1>1, SeqMonotonic

(* Whatever is written is a proposal or a record value.                     *)
LEMMA WritableIsValue ==
    ASSUME NEW l \in Log
    PROVE  Writable(l) \subseteq ProposalValue \cup RecordValue
BY DEF Writable, EarnedProposals, EarnedRecords

(* Nothing held, nothing written, nothing acknowledged.                     *)
LEMMA InitInvariant == Init => IInv
<1> SUFFICES ASSUME Init PROVE IInv
  OBVIOUS
<1>1. \A S : <<>> \in Seq(S) /\ Len(<<>>) = 0
  BY EmptySeq
<1>2. Typing
  BY <1>1 DEF Init, Typing
<1>3. OnDisk
  BY <1>1 DEF Init, OnDisk
<1>4. NoSilentLoss
  <2> SUFFICES ASSUME NEW l \in Log
               PROVE  Within([i \in 1..Len(acked[l]) |-> acked[l][i][2]], Contents(logs[l]))
    BY DEF NoSilentLoss
  <2>1. acked[l] = <<>> /\ logs[l] = <<>>
    BY DEF Init
  <2>2. <<>> \in Seq({} \X {}) /\ <<>> \in Seq(LinesOf({}))
    BY <1>1
  <2>3. Recorded(<<>>, <<>>)
    <3>1. 1..Len(<<>>) = {}
      BY <1>1
    <3>2. [i \in {} |-> 0] \in [1..Len(<<>>) -> 1..Len(<<>>)]
      BY <3>1
    <3> QED
      BY <3>1, <3>2 DEF Recorded
  <2>4. Within([i \in 1..Len(<<>>) |-> <<>>[i][2]], Contents(<<>>))
    BY <2>2, <2>3, WithinIsRecorded
  <2> QED
    BY <2>1, <2>4
<1> QED
  BY <1>2, <1>3, <1>4 DEF IInv

(* A step in memory: the stores keep what they hold.                        *)
LEMMA MemoryStep ==
    ASSUME IInv, UNCHANGED disk, granted \subseteq granted',
           hand' \in [Slot -> EarnedProposals' \cup {Nothing}],
           records' \subseteq EarnedRecords'
    PROVE  IInv'
<1>1. UNCHANGED <<logs, acked>>
  BY DEF disk
<1>2. Typing'
  BY <1>1 DEF IInv, Typing
<1>3. OnDisk'
  <2> SUFFICES ASSUME NEW l \in Log PROVE logs[l] \in Seq(LinesOf(Writable(l)'))
    BY <1>1 DEF OnDisk, LinesOf
  <2> QED
    BY EarnedMonotone, LinesMonotone DEF IInv, OnDisk
<1>4. NoSilentLoss'
  <2>1. \A l : CanLoad(l)' <=> CanLoad(l)
    BY <1>1 DEF CanLoad
  <2> QED
    BY <1>1, <2>1 DEF IInv, NoSilentLoss
<1> QED
  BY <1>2, <1>3, <1>4 DEF IInv

(* The host keeps a value a call returned.                                  *)
LEMMA KeepStep ==
    ASSUME IInv, granted \subseteq granted', NEW p \in EarnedProposals', Keep(p)
    PROVE  hand' \in [Slot -> EarnedProposals' \cup {Nothing}]
<1>1. hand \in [Slot -> EarnedProposals \cup {Nothing}]
  BY DEF IInv, Typing
<1>2. EarnedProposals \subseteq EarnedProposals'
  BY EarnedMonotone
<1>3. PICK s \in Slot : hand' = [hand EXCEPT ![s] = p]
  BY DEF Keep
<1> QED
  BY <1>1, <1>2, <1>3

(* What the host holds, it holds earned.                                    *)
LEMMA HeldFacts ==
    ASSUME IInv
    PROVE  Held \subseteq EarnedProposals /\ Held \subseteq ProposalValue
<1>1. hand \in [Slot -> EarnedProposals \cup {Nothing}]
  BY DEF IInv, Typing
<1> QED
  BY <1>1 DEF Held, EarnedProposals

(* What a load can return was earned.                                       *)
LEMMA LoadedFacts ==
    ASSUME IInv, NEW l \in Log
    PROVE  Loaded(l) \subseteq Writable(l)
<1>1. logs[l] \in Seq(LinesOf(Writable(l)))
  BY DEF IInv, OnDisk
<1>2. \A i \in 1..Len(logs[l]) : logs[l][i] \in LinesOf(Writable(l))
  BY <1>1, ElementOfSeq
<1>3. \A i \in 1..Len(logs[l]) : logs[l][i].text \in Writable(l) \cup {Garbage}
  BY <1>2 DEF LinesOf
<1> QED
  BY <1>3 DEF Loaded, Contents

(* For a file and the acknowledgements of one log.                          *)
LEMMA RecordedIsWithin ==
    ASSUME NEW l, NEW file \in Seq(LinesOf(Writable(l))),
           NEW acks \in Seq(Scope \X (ProposalValue \cup RecordValue)), Recorded(file, acks)
    PROVE  Within([i \in 1..Len(acks) |-> acks[i][2]], Contents(file))
BY WithinIsRecorded

(* One log is written to: what a load of it returns afterwards, if it       *)
(* returns, still has every acknowledged record.                            *)
LEMMA WriteStep ==
    ASSUME IInv, NEW l \in Log, UNCHANGED granted,
           hand' \in [Slot -> EarnedProposals \cup {Nothing}],
           records' \subseteq EarnedRecords,
           NEW file \in Seq(LinesOf(Writable(l))),
           NEW acks \in Seq(Scope \X (ProposalValue \cup RecordValue)),
           logs' = [logs EXCEPT ![l] = file], acked' = [acked EXCEPT ![l] = acks],
           Loads(file) => Recorded(file, acks)
    PROVE  IInv'
<1>1. /\ logs \in [Log -> Seq(LinesOf(ProposalValue \cup RecordValue))]
      /\ acked \in [Log -> Seq(Scope \X (ProposalValue \cup RecordValue))]
  BY DEF IInv, Typing
<1>2. /\ EarnedProposals' = EarnedProposals /\ EarnedRecords' = EarnedRecords
      /\ \A m : Writable(m)' = Writable(m)
  BY DEF EarnedProposals, EarnedRecords, Writable, Eligible
<1>3. file \in Seq(LinesOf(ProposalValue \cup RecordValue))
  BY WritableIsValue, LinesMonotone
<1>4. /\ logs'[l] = file /\ acked'[l] = acks
      /\ \A m \in Log : m # l => logs'[m] = logs[m] /\ acked'[m] = acked[m]
  BY <1>1
<1>5. Typing'
  BY <1>1, <1>2, <1>3 DEF Typing
<1>6. OnDisk'
  <2> SUFFICES ASSUME NEW m \in Log PROVE logs'[m] \in Seq(LinesOf(Writable(m)))
    BY <1>2 DEF OnDisk, LinesOf
  <2> QED
    BY <1>4 DEF IInv, OnDisk
<1>7. NoSilentLoss'
  <2> SUFFICES ASSUME NEW m \in Log, Loads(logs'[m])
               PROVE  Within([i \in 1..Len(acked'[m]) |-> acked'[m][i][2]], Contents(logs'[m]))
    BY DEF NoSilentLoss, CanLoad
  <2>1. CASE m = l
    <3>1. Recorded(file, acks)
      BY <1>4, <2>1
    <3>2. Within([i \in 1..Len(acks) |-> acks[i][2]], Contents(file))
      BY <3>1, RecordedIsWithin
    <3> QED
      BY <1>4, <2>1, <3>2
  <2>2. CASE m # l
    BY <1>4, <2>2 DEF IInv, NoSilentLoss, CanLoad
  <2> QED
    BY <2>1, <2>2
<1> QED
  BY <1>5, <1>6, <1>7 DEF IInv

(* The state of one log before it is written to.                            *)
LEMMA LogFacts ==
    ASSUME IInv, NEW l \in Log
    PROVE  /\ logs[l] \in Seq(LinesOf(Writable(l)))
           /\ acked[l] \in Seq(Scope \X (ProposalValue \cup RecordValue))
           /\ Loads(logs[l]) => Recorded(logs[l], acked[l])
<1>1. logs[l] \in Seq(LinesOf(Writable(l)))
  BY DEF IInv, OnDisk
<1>2. acked[l] \in Seq(Scope \X (ProposalValue \cup RecordValue))
  BY DEF IInv, Typing
<1>3. Loads(logs[l]) => Within([i \in 1..Len(acked[l]) |-> acked[l][i][2]], Contents(logs[l]))
  BY DEF IInv, NoSilentLoss, CanLoad
<1> QED
  BY <1>1, <1>2, <1>3, WithinIsRecorded

(* An append that returns.                                                  *)
LEMMA AppendStep ==
    ASSUME IInv, NEW l \in Log, NEW scope \in Scope, NEW rec \in Writable(l),
           AppendTo(l, scope, rec)
    PROVE  IInv'
<1> DEFINE lines == Lines(rec, Splits(rec), TRUE)
           file  == Joined(logs[l], lines)
           acks  == Append(acked[l], <<scope, rec>>)
<1>1. /\ UNCHANGED <<hand, records, granted>>
      /\ logs' = [logs EXCEPT ![l] = file] /\ acked' = [acked EXCEPT ![l] = acks]
  BY DEF AppendTo, memory, Appended
<1>2. Splits(rec) \in BOOLEAN
  BY DEF Splits
<1>3. lines \in Seq(LinesOf(Writable(l)))
  BY <1>2, LinesType
<1>4. /\ logs[l] \in Seq(LinesOf(Writable(l)))
      /\ acked[l] \in Seq(Scope \X (ProposalValue \cup RecordValue))
      /\ Loads(logs[l]) => Recorded(logs[l], acked[l])
  BY LogFacts
<1>5. file \in Seq(LinesOf(Writable(l)))
  BY <1>3, <1>4, JoinedType
<1>6. <<scope, rec>> \in Scope \X (ProposalValue \cup RecordValue)
  BY WritableIsValue
<1>7. acks \in Seq(Scope \X (ProposalValue \cup RecordValue))
  BY <1>4, <1>6, AppendProperties
<1>8. ASSUME Loads(file) PROVE Recorded(file, acks)
  <2>1. file = logs[l] \o lines /\ Loads(logs[l]) /\ Loads(lines)
    BY <1>3, <1>4, <1>8, JoinedLoads
  <2>2. ~Splits(rec)
    <3> SUFFICES ASSUME Splits(rec) PROVE FALSE
      OBVIOUS
    <3>1. lines = <<Line(Garbage, FALSE), Line(Garbage, FALSE)>>
      BY DEF Lines
    <3> HIDE DEF lines
    <3>2. Line(Garbage, FALSE).text = Garbage
      BY DEF Line
    <3>3. Len(lines) = 2 /\ lines[1] = Line(Garbage, FALSE) /\ 1 \in 1..2
      BY <3>1
    <3> QED
      BY <2>1, <3>2, <3>3 DEF Loads
  <2>3. lines = <<Line(rec, FALSE)>>
    BY <2>2 DEF Lines
  <2>4. Line(rec, FALSE) \in LinesOf(Writable(l)) /\ Line(rec, FALSE).text = rec
    BY DEF Line, LinesOf
  <2>5. <<scope, rec>>[2] = Line(rec, FALSE).text
    BY <2>4
  <2>6. Recorded(logs[l] \o <<Line(rec, FALSE)>>, acks)
    BY <1>4, <1>6, <2>1, <2>4, <2>5, RecordedAppends
  <2> QED
    BY <2>1, <2>3, <2>6
<1>9. hand' \in [Slot -> EarnedProposals \cup {Nothing}] /\ records' \subseteq EarnedRecords
  BY <1>1 DEF IInv, Typing
<1> HIDE DEF file, acks
<1> QED
  BY <1>1, <1>5, <1>7, <1>8, <1>9, WriteStep

(* An append the process does not survive.                                  *)
LEMMA DieStep ==
    ASSUME IInv, NEW l \in Log, NEW rec \in Writable(l), DieAppending(l, rec)
    PROVE  IInv'
<1>1. PICK file \in Torn(logs[l], rec, Splits(rec)) : logs' = [logs EXCEPT ![l] = file]
  BY DEF DieAppending
<1>2. /\ hand' = [s \in Slot |-> Nothing] /\ records' = {}
      /\ UNCHANGED <<acked, granted>>
  BY DEF DieAppending
<1>3. Splits(rec) \in BOOLEAN
  BY DEF Splits
<1>4. /\ logs[l] \in Seq(LinesOf(Writable(l)))
      /\ acked[l] \in Seq(Scope \X (ProposalValue \cup RecordValue))
      /\ Loads(logs[l]) => Recorded(logs[l], acked[l])
  BY LogFacts
<1>5. PICK part \in Seq(LinesOf(Writable(l))) : file = Joined(logs[l], part)
  BY <1>1, <1>3, <1>4, TornType
<1>6. file \in Seq(LinesOf(Writable(l)))
  BY <1>4, <1>5, JoinedType
<1>7. Loads(file) => Recorded(file, acked[l])
  <2> SUFFICES ASSUME Loads(file) PROVE Recorded(file, acked[l])
    OBVIOUS
  <2>1. file = logs[l] \o part /\ Loads(logs[l])
    BY <1>4, <1>5, JoinedLoads
  <2> QED
    BY <1>4, <2>1, RecordedExtends
<1>8. acked' = [acked EXCEPT ![l] = acked[l]]
  BY <1>2 DEF IInv, Typing
<1>9. hand' \in [Slot -> EarnedProposals \cup {Nothing}] /\ records' \subseteq EarnedRecords
  BY <1>2
<1> QED
  BY <1>1, <1>2, <1>4, <1>6, <1>7, <1>8, <1>9, WriteStep

(* Every copy goes to a log of its kind.                                    *)
LEMMA LogNames ==
    /\ \A p \in ProposalValue : ProposalLog(p) \in Log /\ ScopeOf[p.id] \in Scope
    /\ \A p : Writable(ProposalLog(p)) = EarnedProposals
    /\ \A s \in Scope : /\ <<"proposals", FileOf[s]>> \in Log
                        /\ <<"versions", FileOf[s]>> \in Log
    /\ \A f : Writable(<<"proposals", f>>) = EarnedProposals
    /\ \A f : Writable(<<"versions", f>>) = EarnedRecords
BY NamesAssumption DEF ProposalLog, Log, Writable, ProposalValue

(* Every call keeps the invariant, and so does every death.                 *)
LEMMA NextInvariant == IInv /\ [Next]_vars => IInv'
<1> SUFFICES ASSUME IInv, [Next]_vars PROVE IInv'
  OBVIOUS
<1> USE DEF Eligible
<1>1. /\ hand \in [Slot -> EarnedProposals \cup {Nothing}]
      /\ records \subseteq EarnedRecords
      /\ Held \subseteq EarnedProposals /\ Held \subseteq ProposalValue
  BY HeldFacts DEF IInv, Typing
<1>2. CASE Propose
  <2>1. UNCHANGED <<records, granted>> /\ UNCHANGED disk
    BY <1>2 DEF Propose
  <2>2. PICK p \in Proposal : Keep(Draft(p))
    BY <1>2 DEF Propose
  <2>3. Draft(p) \in EarnedProposals'
    BY DEF Draft, EarnedProposals, ProposalValue, Status
  <2> QED
    BY <1>1, <2>1, <2>2, <2>3, KeepStep, MemoryStep, EarnedMonotone
<1>3. CASE Evaluate
  <2>1. UNCHANGED <<records, granted>> /\ UNCHANGED disk
    BY <1>3 DEF Evaluate
  <2>2. PICK p \in Held, o \in Outcomes : Keep(Evaluated(p, o))
    BY <1>3 DEF Evaluate
  <2>3. Evaluated(p, o) \in EarnedProposals'
    BY <1>1, <2>2 DEF Evaluated, EarnedProposals, ProposalValue, Status
  <2> QED
    BY <1>1, <2>1, <2>2, <2>3, KeepStep, MemoryStep, EarnedMonotone
<1>4. CASE Authorize
  <2>1. UNCHANGED records /\ UNCHANGED disk
    BY <1>4 DEF Authorize
  <2>2. PICK p \in Held, r \in Ref :
            /\ p.status = "evaluated" /\ Eligible(p.outcome)
            /\ Keep([p EXCEPT !.status = "authorized", !.ref = r])
            /\ granted' = granted \cup {<<p.id, p.outcome, r>>}
    BY <1>4 DEF Authorize
  <2>3. [p EXCEPT !.status = "authorized", !.ref = r] \in EarnedProposals'
    BY <1>1, <2>2 DEF EarnedProposals, ProposalValue, Status
  <2>4. granted \subseteq granted'
    BY <2>2
  <2> QED
    BY <1>1, <2>1, <2>2, <2>3, <2>4, KeepStep, MemoryStep, EarnedMonotone
<1>5. CASE Promote
  <2>1. UNCHANGED granted /\ UNCHANGED disk
    BY <1>5 DEF Promote
  <2>2. PICK p \in Held, v \in Version :
            /\ p.status = "authorized" /\ p.ref # NoRef
            /\ records' = records \cup {VersionRecord(v, p.id, p.ref)}
            /\ Keep([p EXCEPT !.status = "promoted"])
    BY <1>5 DEF Promote
  <2>3. [p EXCEPT !.status = "promoted"] \in EarnedProposals'
    BY <1>1, <2>1, <2>2 DEF EarnedProposals, ProposalValue, Status
  <2>4. VersionRecord(v, p.id, p.ref) \in EarnedRecords
    <3>1. p \in ProposalValue /\ Eligible(p.outcome) /\ <<p.id, p.outcome, p.ref>> \in granted
      BY <1>1, <2>2 DEF EarnedProposals
    <3>2. VersionRecord(v, p.id, p.ref) \in RecordValue
      BY <3>1 DEF VersionRecord, RecordValue, ProposalValue
    <3>3. \E g \in granted : g[1] = p.id /\ g[3] = p.ref /\ Eligible(g[2])
      BY <3>1
    <3> QED
      BY <3>2, <3>3 DEF EarnedRecords, VersionRecord
  <2> QED
    BY <1>1, <2>1, <2>2, <2>3, <2>4, KeepStep, MemoryStep, EarnedMonotone
<1>6. CASE Rollback
  <2>1. UNCHANGED granted /\ UNCHANGED disk /\ hand' = hand
    BY <1>6 DEF Rollback
  <2>2. PICK v \in records, w \in records, r \in Ref :
            /\ v.kind = "version" /\ w.kind = "version"
            /\ records' = records \cup {RollbackRecord(v.version, w.version, r)}
    BY <1>6 DEF Rollback
  <2>3. RollbackRecord(v.version, w.version, r) \in EarnedRecords
    BY <1>1, <2>2 DEF EarnedRecords, RecordValue, RollbackRecord
  <2> QED
    BY <1>1, <2>1, <2>2, <2>3, MemoryStep, EarnedMonotone
<1>7. CASE SaveProposal
  <2>1. PICK p \in Held : AppendTo(ProposalLog(p), ScopeOf[p.id], p)
    BY <1>7 DEF SaveProposal
  <2> QED
    BY <1>1, <2>1, LogNames, AppendStep
<1>8. CASE SaveRecord
  <2>1. PICK s \in Scope, rec \in records : AppendTo(<<"versions", FileOf[s]>>, s, rec)
    BY <1>8 DEF SaveRecord
  <2> QED
    BY <1>1, <2>1, LogNames, AppendStep
<1>9. CASE DieSavingProposal
  <2>1. PICK p \in Held : DieAppending(ProposalLog(p), p)
    BY <1>9 DEF DieSavingProposal
  <2> QED
    BY <1>1, <2>1, LogNames, DieStep
<1>10. CASE DieSavingRecord
  <2>1. PICK s \in Scope, rec \in records : DieAppending(<<"versions", FileOf[s]>>, rec)
    BY <1>10 DEF DieSavingRecord
  <2> QED
    BY <1>1, <2>1, LogNames, DieStep
<1>11. CASE LoadProposals
  <2>1. UNCHANGED <<records, granted>> /\ UNCHANGED disk
    BY <1>11 DEF LoadProposals
  <2>2. PICK s \in Scope : \E p \in Loaded(<<"proposals", FileOf[s]>>) : Keep(p)
    BY <1>11 DEF LoadProposals
  <2>3. PICK p \in Loaded(<<"proposals", FileOf[s]>>) : Keep(p)
    BY <2>2
  <2>4. p \in EarnedProposals
    BY <2>2, <2>3, LogNames, LoadedFacts
  <2> QED
    BY <1>1, <2>1, <2>3, <2>4, KeepStep, MemoryStep, EarnedMonotone
<1>12. CASE LoadRecords
  <2>1. UNCHANGED <<hand, granted>> /\ UNCHANGED disk
    BY <1>12 DEF LoadRecords
  <2>2. PICK s \in Scope : records' = records \cup Loaded(<<"versions", FileOf[s]>>)
    BY <1>12 DEF LoadRecords
  <2>3. records' \subseteq EarnedRecords
    BY <1>1, <2>2, LogNames, LoadedFacts
  <2> QED
    BY <1>1, <2>1, <2>3, MemoryStep, EarnedMonotone
<1>13. CASE UNCHANGED vars
  <2>1. UNCHANGED <<hand, records, granted>> /\ UNCHANGED disk
    BY <1>13 DEF vars, memory
  <2> QED
    BY <1>1, <2>1, MemoryStep, EarnedMonotone
<1> QED
  BY <1>2, <1>3, <1>4, <1>5, <1>6, <1>7, <1>8, <1>9, <1>10, <1>11, <1>12, <1>13 DEF Next

-----------------------------------------------------------------------------
(* The theorems.                                                            *)

(* The inductive invariant holds in every reachable state.                  *)
THEOREM Invariance == Spec => []IInv
<1> QED
  BY InitInvariant, NextInvariant, PTL DEF Spec

(* Promotion is earned, with any number of stale copies, restarts and       *)
(* shared files.                                                            *)
THEOREM AlwaysPromotionIsEarned == Spec => []PromotionIsEarned
<1>1. IInv => PromotionIsEarned
  <2> SUFFICES ASSUME IInv PROVE PromotionIsEarned
    OBVIOUS
  <2>1. /\ Held \subseteq EarnedProposals /\ records \subseteq EarnedRecords
    BY HeldFacts DEF IInv, Typing
  <2>2. \A f \in File : /\ Loaded(<<"proposals", f>>) \subseteq EarnedProposals
                        /\ Loaded(<<"versions", f>>) \subseteq EarnedRecords
    <3> SUFFICES ASSUME NEW f \in File
                 PROVE  /\ Loaded(<<"proposals", f>>) \subseteq EarnedProposals
                        /\ Loaded(<<"versions", f>>) \subseteq EarnedRecords
      OBVIOUS
    <3>1. <<"proposals", f>> \in Log /\ <<"versions", f>> \in Log
      BY DEF Log
    <3> QED
      BY <3>1, LoadedFacts, LogNames
  <2>3. \A p \in Held \cup (UNION {Loaded(<<"proposals", f>>) : f \in File}) :
            p \in EarnedProposals
    BY <2>1, <2>2
  <2>4. \A v \in records \cup (UNION {Loaded(<<"versions", f>>) : f \in File}) :
            v \in EarnedRecords
    BY <2>1, <2>2
  <2> QED
    BY <2>3, <2>4 DEF PromotionIsEarned, EarnedProposals, EarnedRecords
<1> QED
  BY <1>1, Invariance, PTL

(* However often the process dies while it writes, a load that returns has  *)
(* every record whose append had returned, in the order of the appends.     *)
THEOREM AlwaysNoSilentLoss == Spec => []NoSilentLoss
<1>1. IInv => NoSilentLoss
  BY DEF IInv
<1> QED
  BY <1>1, Invariance, PTL
=============================================================================
