---------------------------- MODULE Modbus_proofs ---------------------------
(***************************************************************************)
(* Proofs about ModbusSessions and ModbusServing for any clients, mappings,*)
(* limits and failures.                                                    *)
(***************************************************************************)
EXTENDS Integers, ModbusSessions, ModbusServing, FiniteSetTheorems, SequenceTheorems, TLAPS

-----------------------------------------------------------------------------
(* ModbusSessions.                                                         *)

Sessions ==
  [at : {"out", "open", "refused", "dropped", "done"}, ended : BOOLEAN, eof : BOOLEAN,
   asked : Nat, requests : Nat, unsent : Seq(Nat), got : Seq(Nat)]

SessionTypes ==
  /\ io \in {"none", "polling", "serving"}
  /\ reader \in [Readers -> Sessions]
  /\ round \in [reader : Readers, left : Nat]

(* The requests of client c the thread has read and not answered yet.      *)
Left(c) == IF io = "serving" /\ round.reader = c THEN round.left ELSE 0

(* Answers are numbered in the order of their requests: those a client has *)
(* got and those that wait follow each other.                              *)
Numbered(r) ==
  /\ \A n \in 1 .. Len(r.got) : r.got[n] = n
  /\ \A n \in 1 .. Len(r.unsent) : r.unsent[n] = Len(r.got) + n

(* Every request is still in the socket, in hand, answered or received.    *)
Counted(r, left) ==
  /\ r.at = "open" => Len(r.got) + Len(r.unsent) + r.requests + left = r.asked
  /\ r.at = "open" /\ r.eof => r.ended /\ r.requests = 0
  /\ r.at = "out" => r.got = <<>> /\ r.unsent = <<>> /\ r.asked = 0 /\ r.requests = 0 /\ ~r.eof
  /\ Len(r.got) <= r.asked
  /\ r.at = "done" => Len(r.got) = r.asked

ServingIsOpen ==
  /\ io = "serving" => reader[round.reader].at = "open"
  /\ io = "none" => \A c \in Readers : reader[c].at # "open"

NotTooMany == IsFiniteSet(Connected) /\ Cardinality(Connected) <= MaxReaders

SessionsInv ==
  /\ SessionTypes
  /\ \A c \in Readers : Numbered(reader[c]) /\ Counted(reader[c], Left(c))
  /\ ServingIsOpen
  /\ NotTooMany

LEMMA GoneIsSession ==
  ASSUME NEW r \in Sessions, NEW left \in Nat, NEW how \in {"dropped", "done"},
         Numbered(r), Counted(r, left), how = "done" => Len(r.got) = r.asked
  PROVE  /\ Gone(r, how) \in Sessions
         /\ Numbered(Gone(r, how)) /\ Counted(Gone(r, how), 0)
         /\ Gone(r, how).at = how
<1> DEFINE g == Gone(r, how)
<1>1. /\ g.at = how /\ g.requests = 0 /\ g.unsent = <<>> /\ g.got = r.got /\ g.asked = r.asked
      /\ g \in Sessions
  <2>1. <<>> \in Seq(Nat) OBVIOUS
  <2> QED BY <2>1 DEF Gone, Sessions
<1>2. Len(<<>>) = 0 OBVIOUS
<1> HIDE DEF g
<1>3. Numbered(g) BY <1>1, <1>2 DEF Numbered
<1>4. Counted(g, 0) BY <1>1 DEF Counted
<1> QED BY <1>1, <1>3, <1>4 DEF g

(* One session changes, the others stay as they are.                       *)
LEMMA OneSession ==
  ASSUME SessionsInv, NEW c \in Readers, NEW r \in Sessions,
         reader' = [reader EXCEPT ![c] = r], Numbered(r), Counted(r, Left(c)'),
         \A d \in Readers \ {c} : Left(d)' = Left(d)
  PROVE  /\ reader' \in [Readers -> Sessions]
         /\ reader'[c] = r /\ \A d \in Readers \ {c} : reader'[d] = reader[d]
         /\ \A d \in Readers : Numbered(reader'[d]) /\ Counted(reader'[d], Left(d)')
BY DEF SessionsInv, SessionTypes

(* Sessions that end or go on leave no more connected than there were.     *)
LEMMA FewerConnected ==
  ASSUME NotTooMany, \A d \in Readers : reader'[d].at = "open" => reader[d].at = "open"
  PROVE  NotTooMany'
<1>1. Connected' \subseteq Connected BY DEF Connected
<1>2. IsFiniteSet(Connected') /\ Cardinality(Connected') <= Cardinality(Connected)
  BY <1>1, FS_Subset DEF NotTooMany
<1>3. Cardinality(Connected) \in Nat /\ Cardinality(Connected') \in Nat
  BY <1>2, FS_CardinalityType DEF NotTooMany
<1> QED BY <1>2, <1>3, SessionsAssumption DEF NotTooMany

LEMMA OneMoreConnected ==
  ASSUME NotTooMany, NEW c \in Readers, Cardinality(Connected) < MaxReaders,
         \A d \in Readers \ {c} : reader'[d] = reader[d]
  PROVE  NotTooMany'
<1>1. IsFiniteSet(Connected \cup {c}) /\ Cardinality(Connected \cup {c}) <= Cardinality(Connected) + 1
  <2>1. Cardinality(Connected) \in Nat BY FS_CardinalityType DEF NotTooMany
  <2>2. /\ IsFiniteSet(Connected \cup {c})
        /\ \/ Cardinality(Connected \cup {c}) = Cardinality(Connected)
           \/ Cardinality(Connected \cup {c}) = Cardinality(Connected) + 1
    BY FS_AddElement DEF NotTooMany
  <2> QED BY <2>1, <2>2
<1>2. Connected' \subseteq Connected \cup {c} BY DEF Connected
<1>3. IsFiniteSet(Connected') /\ Cardinality(Connected') <= Cardinality(Connected \cup {c})
  BY <1>1, <1>2, FS_Subset
<1>4. Cardinality(Connected) \in Nat /\ Cardinality(Connected \cup {c}) \in Nat
      /\ Cardinality(Connected') \in Nat
  BY <1>1, <1>3, FS_CardinalityType DEF NotTooMany
<1> QED BY <1>1, <1>3, <1>4, SessionsAssumption DEF NotTooMany

(* The first n of the answers that wait are sent.                          *)
LEMMA SendingKeepsOrder ==
  ASSUME NEW r \in Sessions, Numbered(r), NEW n \in 0 .. Len(r.unsent),
         NEW s, s = [r EXCEPT !.got = r.got \o SubSeq(r.unsent, 1, n),
                              !.unsent = SubSeq(r.unsent, n + 1, Len(r.unsent))]
  PROVE  /\ s \in Sessions /\ Numbered(s)
         /\ Len(s.got) = Len(r.got) + n /\ Len(s.unsent) = Len(r.unsent) - n
         /\ s.at = r.at /\ s.ended = r.ended /\ s.eof = r.eof /\ s.asked = r.asked
         /\ s.requests = r.requests
<1> DEFINE now == SubSeq(r.unsent, 1, n)
           later == SubSeq(r.unsent, n + 1, Len(r.unsent))
<1>1. r.got \in Seq(Nat) /\ r.unsent \in Seq(Nat) BY DEF Sessions
<1>0. Len(r.got) \in Nat /\ Len(r.unsent) \in Nat /\ n \in Nat /\ n <= Len(r.unsent)
  BY <1>1
<1>2. now \in Seq(Nat) /\ Len(now) = n /\ \A i \in 1 .. n : now[i] = r.unsent[i]
  <2>1. \A i \in 1 .. n : r.unsent[i] \in Nat BY <1>0, <1>1
  <2>2. /\ now \in Seq(Nat) /\ Len(now) = IF 1 <= n THEN n - 1 + 1 ELSE 0
        /\ \A i \in 1 .. n - 1 + 1 : now[i] = r.unsent[1 + i - 1]
    BY <1>0, <2>1, SubSeqProperties
  <2> HIDE DEF now
  <2>3. Len(now) = n BY <1>0, <2>2
  <2>4. \A i \in 1 .. n : i \in 1 .. n - 1 + 1 /\ 1 + i - 1 = i BY <1>0
  <2>5. \A i \in 1 .. n : now[i] = r.unsent[i] BY <2>2, <2>4
  <2> QED BY <2>2, <2>3, <2>5
<1>3. /\ later \in Seq(Nat) /\ Len(later) = Len(r.unsent) - n
      /\ \A i \in 1 .. Len(later) : later[i] = r.unsent[n + i]
  <2> DEFINE from == n + 1
             to == Len(r.unsent)
  <2>1. \A i \in from .. to : r.unsent[i] \in Nat BY <1>0, <1>1
  <2>2. from \in Int /\ to \in Int BY <1>0
  <2>3. /\ SubSeq(r.unsent, from, to) \in Seq(Nat)
        /\ Len(SubSeq(r.unsent, from, to)) = IF from <= to THEN to - from + 1 ELSE 0
        /\ \A i \in 1 .. to - from + 1 : SubSeq(r.unsent, from, to)[i] = r.unsent[from + i - 1]
    <3> HIDE DEF from, to
    <3> QED BY <2>1, <2>2, SubSeqProperties
  <2>4. later = SubSeq(r.unsent, from, to) OBVIOUS
  <2> HIDE DEF later
  <2>5. Len(later) = Len(r.unsent) - n BY <1>0, <2>3, <2>4
  <2>6. ASSUME NEW i \in 1 .. Len(later) PROVE later[i] = r.unsent[n + i]
    <3>1. i \in 1 .. to - from + 1 /\ from + i - 1 = n + i BY <1>0, <2>5
    <3> HIDE DEF from, to
    <3> QED BY <2>3, <2>4, <3>1
  <2> QED BY <2>3, <2>4, <2>5, <2>6
<1>4. /\ r.got \o now \in Seq(Nat) /\ Len(r.got \o now) = Len(r.got) + n
      /\ \A i \in 1 .. Len(r.got) + n :
           (r.got \o now)[i] = IF i <= Len(r.got) THEN r.got[i] ELSE now[i - Len(r.got)]
  <2> HIDE DEF now
  <2> QED BY <1>1, <1>2, ConcatProperties
<1> HIDE DEF now, later
<1>5. s.got = r.got \o now /\ s.unsent = later BY DEF Sessions, now, later
<1>6. s \in Sessions BY <1>3, <1>4 DEF Sessions, now, later
<1>7. \A i \in 1 .. Len(r.got) + n : (r.got \o now)[i] = i
  <2> SUFFICES ASSUME NEW i \in 1 .. Len(r.got) + n PROVE (r.got \o now)[i] = i
    OBVIOUS
  <2>1. CASE i \in 1 .. Len(r.got)
    BY <1>4, <2>1 DEF Numbered
  <2>2. CASE i \notin 1 .. Len(r.got)
    <3> DEFINE j == i - Len(r.got)
    <3>1. Len(r.got) \in Nat /\ Len(r.unsent) \in Nat BY <1>1
    <3>2. j \in 1 .. n /\ i = Len(r.got) + j /\ ~(i <= Len(r.got)) /\ i - Len(r.got) = j
      BY <1>0, <2>2
    <3>3. j \in 1 .. Len(r.unsent) BY <3>1, <3>2
    <3> HIDE DEF j
    <3>4. (r.got \o now)[i] = now[i - Len(r.got)] BY <1>4, <3>2
    <3>5. (r.got \o now)[i] = r.unsent[j] BY <1>2, <3>2, <3>4
    <3> QED BY <3>2, <3>3, <3>5 DEF Numbered
  <2> QED BY <2>1, <2>2
<1>8. \A i \in 1 .. Len(s.got) : s.got[i] = i
  BY <1>4, <1>5, <1>7
<1>9. \A i \in 1 .. Len(s.unsent) : s.unsent[i] = Len(s.got) + i
  <2> SUFFICES ASSUME NEW i \in 1 .. Len(later) PROVE later[i] = Len(r.got) + n + i
    BY <1>4, <1>5
  <2>1. n + i \in 1 .. Len(r.unsent) BY <1>1, <1>3
  <2> QED BY <1>1, <1>3, <2>1 DEF Numbered
<1>10. Numbered(s) BY <1>8, <1>9 DEF Numbered
<1>11. s.at = r.at /\ s.ended = r.ended /\ s.eof = r.eof /\ s.asked = r.asked
       /\ s.requests = r.requests
  BY DEF Sessions
<1> QED BY <1>3, <1>4, <1>5, <1>6, <1>10, <1>11

-----------------------------------------------------------------------------
(* The thread starts, stops and dies.                                      *)

LEMMA ThreadEndsInOrder ==
  ASSUME SessionsInv, io' = "none", CloseReaders, round' = round
  PROVE  SessionsInv'
<1>1. reader \in [Readers -> Sessions] BY DEF SessionsInv, SessionTypes
<1>2. \A c \in Readers : Left(c) \in Nat BY DEF Left, SessionsInv, SessionTypes
<1>3. ASSUME NEW c \in Readers
      PROVE  /\ reader'[c] \in Sessions /\ reader'[c].at # "open"
             /\ Numbered(reader'[c]) /\ Counted(reader'[c], 0)
  <2>1. CASE c \in Connected
    <3>1. reader'[c] = Gone(reader[c], "dropped") BY <2>1 DEF CloseReaders
    <3> QED BY <1>1, <1>2, <3>1, GoneIsSession DEF SessionsInv
  <2>2. CASE c \notin Connected
    <3>1. reader'[c] = reader[c] /\ reader[c].at # "open" BY <2>2 DEF CloseReaders, Connected
    <3> QED BY <1>1, <3>1 DEF SessionsInv, Counted
  <2> QED BY <2>1, <2>2
<1>4. SessionTypes' BY <1>3 DEF CloseReaders, SessionsInv, SessionTypes
<1>5. \A c \in Readers : Left(c)' = 0 BY DEF Left
<1>6. ServingIsOpen' BY <1>3 DEF ServingIsOpen
<1>7. NotTooMany' BY <1>3, FewerConnected DEF SessionsInv
<1> QED BY <1>3, <1>4, <1>5, <1>6, <1>7 DEF SessionsInv

LEMMA ThreadIsInOrder ==
  ASSUME SessionsInv, StartIo \/ StopIo \/ IoStops \/ IoDies
  PROVE  SessionsInv'
<1>1. CASE StartIo \/ StopIo
  <2>1. UNCHANGED <<reader, round>> /\ io' \in {"none", "polling", io}
        /\ (io' = "none" => io = "none") /\ (io' = "serving" <=> io = "serving")
    BY <1>1 DEF StartIo, StopIo, SessionsInv, SessionTypes
  <2>2. SessionTypes' BY <2>1 DEF SessionsInv, SessionTypes
  <2>3. \A c \in Readers : Left(c)' = Left(c) BY <2>1 DEF Left
  <2>4. ServingIsOpen' BY <2>1 DEF SessionsInv, ServingIsOpen
  <2>5. NotTooMany' BY <2>1, FewerConnected DEF SessionsInv
  <2> QED BY <2>1, <2>2, <2>3, <2>4, <2>5 DEF SessionsInv
<1>2. CASE IoStops \/ IoDies
  BY <1>2, ThreadEndsInOrder DEF IoStops, IoDies
<1> QED BY <1>1, <1>2

-----------------------------------------------------------------------------
(* The clients, and what the thread does for one of them.                  *)

LEMMA ClientsAreInOrder ==
  ASSUME SessionsInv, NEW c \in Readers, AskReader(c) \/ EndReader(c) \/ AcceptReader(c)
  PROVE  SessionsInv'
<1>1. reader[c] \in Sessions /\ Numbered(reader[c]) /\ Counted(reader[c], Left(c))
  BY DEF SessionsInv, SessionTypes
<1>2. UNCHANGED <<io, round>> BY DEF AskReader, EndReader, AcceptReader
<1>3. \A d \in Readers : Left(d)' = Left(d) /\ Left(d) \in Nat
  BY <1>2 DEF Left, SessionsInv, SessionTypes
<1>4. PICK r \in Sessions :
        /\ reader' = [reader EXCEPT ![c] = r]
        /\ Numbered(r) /\ Counted(r, Left(c))
        /\ reader[c].at = "open" => r.at = "open"
        /\ r.at = "open" => \/ reader[c].at = "open"
                            \/ io = "polling" /\ Cardinality(Connected) < MaxReaders
  <2>1. CASE AskReader(c)
    <3> DEFINE r == [reader[c] EXCEPT !.asked = reader[c].asked + 1,
                                      !.requests = reader[c].requests + 1]
    <3>1. reader' = [reader EXCEPT ![c] = r] BY <2>1 DEF AskReader, SessionsInv, SessionTypes
    <3>2. /\ r \in Sessions /\ r.asked = reader[c].asked + 1
          /\ r.requests = reader[c].requests + 1 /\ r.at = "open" /\ ~r.ended
          /\ r.got = reader[c].got /\ r.unsent = reader[c].unsent /\ r.eof = reader[c].eof
      <4>1. reader[c].asked + 1 \in Nat /\ reader[c].requests + 1 \in Nat
        BY <1>1 DEF Sessions
      <4> QED BY <1>1, <2>1, <4>1 DEF AskReader, Sessions
    <3>3. reader[c].at = "open" /\ ~reader[c].ended BY <2>1 DEF AskReader
    <3>4. Len(r.got) \in Nat /\ Len(r.unsent) \in Nat /\ reader[c].asked \in Nat
          /\ reader[c].requests \in Nat
      BY <1>1, <3>2 DEF Sessions
    <3> HIDE DEF r
    <3>5. Numbered(r) BY <1>1, <3>2 DEF Numbered
    <3>6. Counted(r, Left(c))
      <4>1. /\ Len(reader[c].got) \in Nat /\ Len(reader[c].unsent) \in Nat
            /\ reader[c].requests \in Nat /\ Left(c) \in Nat /\ reader[c].asked \in Nat
        BY <1>1, <1>3 DEF Sessions
      <4>2. ~r.eof BY <1>1, <3>2, <3>3 DEF Counted
      <4>3. Len(reader[c].got) + Len(reader[c].unsent) + reader[c].requests + Left(c)
              = reader[c].asked
        BY <1>1, <3>3 DEF Counted
      <4>4. /\ Len(reader[c].got) + Len(reader[c].unsent) + (reader[c].requests + 1) + Left(c)
                 = reader[c].asked + 1
            /\ Len(reader[c].got) <= reader[c].asked + 1
        <5>1. PICK g \in Nat, u \in Nat, q \in Nat, l \in Nat, k \in Nat :
                /\ g = Len(reader[c].got) /\ u = Len(reader[c].unsent) /\ q = reader[c].requests
                /\ l = Left(c) /\ k = reader[c].asked
          BY <4>1
        <5>2. g + u + q + l = k BY <4>3, <5>1
        <5>3. g + u + (q + 1) + l = k + 1 /\ g <= k + 1 BY <5>2
        <5> QED BY <5>1, <5>3
      <4>5. Len(r.got) + Len(r.unsent) + r.requests + Left(c) = r.asked /\ Len(r.got) <= r.asked
        BY <3>2, <4>4
      <4> QED BY <3>2, <4>2, <4>5 DEF Counted
    <3> QED BY <3>1, <3>2, <3>3, <3>5, <3>6
  <2>2. CASE EndReader(c)
    <3> DEFINE r == [reader[c] EXCEPT !.ended = TRUE]
    <3>1. reader' = [reader EXCEPT ![c] = r] BY <2>2 DEF EndReader, SessionsInv, SessionTypes
    <3>2. /\ r \in Sessions /\ r.asked = reader[c].asked /\ r.requests = reader[c].requests
          /\ r.at = "open" /\ reader[c].at = "open" /\ r.ended
          /\ r.got = reader[c].got /\ r.unsent = reader[c].unsent /\ r.eof = reader[c].eof
      BY <1>1, <2>2 DEF EndReader, Sessions
    <3> HIDE DEF r
    <3>3. Numbered(r) BY <1>1, <3>2 DEF Numbered
    <3>4. Counted(r, Left(c)) BY <1>1, <3>2 DEF Counted
    <3> QED BY <3>1, <3>2, <3>3, <3>4
  <2>3. CASE AcceptReader(c)
    <3>1. PICK a \in {"open", "refused"} :
            /\ reader' = [reader EXCEPT ![c] = [reader[c] EXCEPT !.at = a]]
            /\ a = "open" => Cardinality(Connected) < MaxReaders
      BY <2>3 DEF AcceptReader, SessionsInv, SessionTypes
    <3> DEFINE r == [reader[c] EXCEPT !.at = a]
    <3>2. /\ r \in Sessions /\ r.asked = reader[c].asked /\ r.requests = reader[c].requests
          /\ r.at = a /\ r.got = reader[c].got /\ r.unsent = reader[c].unsent
          /\ r.eof = reader[c].eof
      BY <1>1 DEF Sessions
    <3>3. io = "polling" /\ reader[c].at = "out" BY <2>3 DEF AcceptReader
    <3>4. Left(c) = 0 /\ Len(<<>>) = 0 BY <3>3 DEF Left
    <3> HIDE DEF r
    <3>5. Numbered(r) BY <1>1, <3>2 DEF Numbered
    <3>6. /\ Len(r.got) = 0 /\ Len(r.unsent) = 0 /\ r.asked = 0 /\ r.requests = 0 /\ ~r.eof
          /\ r.at # "out" /\ r.at # "done"
      BY <1>1, <3>2, <3>3, <3>4 DEF Counted
    <3>7. Counted(r, Left(c)) BY <3>4, <3>6 DEF Counted
    <3> QED BY <3>1, <3>2, <3>3, <3>5, <3>7 DEF r
  <2> QED BY <2>1, <2>2, <2>3
<1>5. /\ reader' \in [Readers -> Sessions]
      /\ reader'[c] = r /\ \A d \in Readers \ {c} : reader'[d] = reader[d]
      /\ \A d \in Readers : Numbered(reader'[d]) /\ Counted(reader'[d], Left(d)')
  BY <1>3, <1>4, OneSession
<1>6. SessionTypes' BY <1>2, <1>5 DEF SessionsInv, SessionTypes
<1>7. ServingIsOpen' BY <1>2, <1>4, <1>5 DEF SessionsInv, SessionTypes, ServingIsOpen
<1>8. NotTooMany'
  <2>1. CASE r.at = "open" => reader[c].at = "open"
    BY <1>5, <2>1, FewerConnected DEF SessionsInv
  <2>2. CASE Cardinality(Connected) < MaxReaders
    BY <1>5, <2>2, OneMoreConnected DEF SessionsInv
  <2> QED BY <1>4, <2>1, <2>2
<1> QED BY <1>5, <1>6, <1>7, <1>8 DEF SessionsInv

LEMMA ServiceIsInOrder ==
  ASSUME SessionsInv, NEW c \in Readers, ServeReader(c)
  PROVE  SessionsInv'
<1> DEFINE r == [reader[c] EXCEPT !.requests = 0, !.eof = reader[c].ended]
<1>1. reader[c] \in Sessions /\ Numbered(reader[c]) /\ Counted(reader[c], Left(c))
  BY DEF SessionsInv, SessionTypes
<1>2. /\ io = "polling" /\ reader[c].at = "open" /\ io' = "serving"
      /\ round' = [reader |-> c, left |-> reader[c].requests]
      /\ reader' = [reader EXCEPT ![c] = r]
  BY DEF ServeReader, SessionsInv, SessionTypes
<1>3. /\ r \in Sessions /\ r.asked = reader[c].asked /\ r.requests = 0 /\ r.at = "open"
      /\ r.got = reader[c].got /\ r.unsent = reader[c].unsent /\ r.eof = reader[c].ended
      /\ r.ended = reader[c].ended
  BY <1>1, <1>2 DEF Sessions
<1> HIDE DEF r
<1>4. Left(c) = 0 /\ Left(c)' = reader[c].requests /\ reader[c].requests \in Nat
  BY <1>1, <1>2 DEF Left, Sessions
<1>5. \A d \in Readers \ {c} : Left(d)' = Left(d) BY <1>2 DEF Left
<1>6. Numbered(r) BY <1>1, <1>3 DEF Numbered
<1>7. Counted(r, Left(c)')
  <2>1. Len(r.got) \in Nat /\ Len(r.unsent) \in Nat BY <1>3 DEF Sessions
  <2>2. Len(r.got) + Len(r.unsent) + reader[c].requests + 0 = r.asked /\ Len(r.got) <= r.asked
    BY <1>1, <1>2, <1>3, <1>4 DEF Counted
  <2>3. Len(r.got) + Len(r.unsent) + r.requests + Left(c)' = r.asked
    <3>1. reader[c].requests \in Nat /\ 0 \in Nat /\ r.asked \in Nat BY <1>3, <1>4 DEF Sessions
    <3>2. Len(r.got) + Len(r.unsent) + 0 + (reader[c].requests + 0) = r.asked
      <4>1. PICK g \in Nat, u \in Nat, q \in Nat, k \in Nat :
              g = Len(r.got) /\ u = Len(r.unsent) /\ q = reader[c].requests /\ k = r.asked
        BY <2>1, <3>1
      <4>2. g + u + q + 0 = k BY <2>2, <4>1
      <4>3. g + u + 0 + (q + 0) = k BY <4>2
      <4> QED BY <4>1, <4>3
    <3>3. reader[c].requests + 0 = reader[c].requests BY <3>1
    <3> QED BY <1>3, <1>4, <3>2, <3>3
  <2> QED BY <1>3, <2>2, <2>3 DEF Counted
<1>8. /\ reader' \in [Readers -> Sessions]
      /\ reader'[c] = r /\ \A d \in Readers \ {c} : reader'[d] = reader[d]
      /\ \A d \in Readers : Numbered(reader'[d]) /\ Counted(reader'[d], Left(d)')
  BY <1>2, <1>3, <1>5, <1>6, <1>7, OneSession
<1>9. SessionTypes' BY <1>2, <1>4, <1>8 DEF SessionTypes
<1>10. ServingIsOpen' BY <1>2, <1>3, <1>8 DEF ServingIsOpen
<1>11. NotTooMany' BY <1>2, <1>8, FewerConnected DEF SessionsInv
<1> QED BY <1>8, <1>9, <1>10, <1>11 DEF SessionsInv

(* The session in hand ends or goes on, and the thread goes on.            *)
LEMMA InHand ==
  ASSUME SessionsInv, io = "serving", NEW r \in Sessions,
         reader' = [reader EXCEPT ![round.reader] = r],
         Numbered(r), Counted(r, Left(round.reader)'),
         io' \in {"polling", "serving"}, io' = "serving" => r.at = "open",
         round'.reader = round.reader, round' \in [reader : Readers, left : Nat]
  PROVE  SessionsInv'
<1>1. round.reader \in Readers BY DEF SessionsInv, SessionTypes
<1>2. reader[round.reader].at = "open" BY DEF SessionsInv, ServingIsOpen
<1>3. \A d \in Readers \ {round.reader} : Left(d)' = Left(d) BY DEF Left
<1>4. /\ reader' \in [Readers -> Sessions]
      /\ reader'[round.reader] = r
      /\ \A d \in Readers \ {round.reader} : reader'[d] = reader[d]
      /\ \A d \in Readers : Numbered(reader'[d]) /\ Counted(reader'[d], Left(d)')
  BY <1>1, <1>3, OneSession
<1>5. SessionTypes' BY <1>4 DEF SessionTypes
<1>6. ServingIsOpen' BY <1>1, <1>4 DEF ServingIsOpen
<1>7. NotTooMany' BY <1>2, <1>4, FewerConnected DEF SessionsInv
<1> QED BY <1>4, <1>5, <1>6, <1>7 DEF SessionsInv

LEMMA AnsweringIsInOrder ==
  ASSUME SessionsInv, AnswerReader
  PROVE  SessionsInv'
<1> DEFINE c == round.reader
           old == reader[c]
           number == Len(old.got) + Len(old.unsent) + 1
<1>1. /\ c \in Readers /\ old \in Sessions /\ Numbered(old) /\ Counted(old, Left(c))
      /\ round \in [reader : Readers, left : Nat]
  BY DEF SessionsInv, SessionTypes
<1>2. io = "serving" /\ round.left > 0 /\ old.at = "open" /\ Left(c) = round.left
  BY DEF AnswerReader, SessionsInv, ServingIsOpen, Left
<1>3. CASE /\ reader' = [reader EXCEPT ![c] = [old EXCEPT !.unsent = Append(old.unsent, number)]]
           /\ round' = [round EXCEPT !.left = round.left - 1] /\ UNCHANGED io
  <2> DEFINE r == [old EXCEPT !.unsent = Append(old.unsent, number)]
  <2>1. /\ Len(old.got) \in Nat /\ Len(old.unsent) \in Nat /\ number \in Nat
        /\ old.unsent \in Seq(Nat)
    <3> HIDE DEF old
    <3>1. old.got \in Seq(Nat) /\ old.unsent \in Seq(Nat) BY <1>1 DEF Sessions
    <3>2. Len(old.got) \in Nat /\ Len(old.unsent) \in Nat BY <3>1
    <3>3. number \in Nat
      <4>1. PICK g \in Nat, u \in Nat : g = Len(old.got) /\ u = Len(old.unsent) BY <3>2
      <4>2. g + u + 1 \in Nat OBVIOUS
      <4> QED BY <4>1, <4>2
    <3> QED BY <3>1, <3>2, <3>3
  <2>2. /\ Append(old.unsent, number) \in Seq(Nat)
        /\ Len(Append(old.unsent, number)) = Len(old.unsent) + 1
        /\ \A n \in 1 .. Len(old.unsent) : Append(old.unsent, number)[n] = old.unsent[n]
        /\ Append(old.unsent, number)[Len(old.unsent) + 1] = number
    <3> HIDE DEF number, old
    <3> QED BY <2>1
  <2>3. /\ r \in Sessions /\ r.at = "open" /\ r.asked = old.asked /\ r.requests = old.requests
        /\ r.got = old.got /\ r.eof = old.eof /\ r.ended = old.ended
        /\ r.unsent = Append(old.unsent, number)
    BY <1>1, <1>2, <2>2 DEF Sessions
  <2>8. reader' = [reader EXCEPT ![round.reader] = r] BY <1>3
  <2> HIDE DEF r, old
  <2>4. round' \in [reader : Readers, left : Nat] /\ round'.reader = c
        /\ round'.left = round.left - 1
    BY <1>1, <1>2, <1>3
  <2>5. Left(c)' = round.left - 1 BY <1>2, <1>3, <2>4 DEF Left
  <2>6. Numbered(r)
    <3>1. \A n \in 1 .. Len(r.got) : r.got[n] = n BY <1>1, <2>3 DEF Numbered
    <3>2. \A n \in 1 .. Len(old.unsent) : r.unsent[n] = Len(r.got) + n
      <4>1. \A n \in 1 .. Len(old.unsent) : old.unsent[n] = Len(old.got) + n
        BY <1>1 DEF Numbered
      <4> HIDE DEF number
      <4> QED BY <2>2, <2>3, <4>1
    <3>3. r.unsent[Len(old.unsent) + 1] = Len(r.got) + (Len(old.unsent) + 1)
      <4>1. number = Len(old.got) + (Len(old.unsent) + 1)
        <5>1. PICK g \in Nat, u \in Nat : g = Len(old.got) /\ u = Len(old.unsent) BY <2>1
        <5>2. g + u + 1 = g + (u + 1) OBVIOUS
        <5> QED BY <5>1, <5>2
      <4> HIDE DEF number
      <4>2. r.unsent[Len(old.unsent) + 1] = number BY <2>2, <2>3, Zenon
      <4> QED BY <2>3, <4>1, <4>2, Zenon
    <3>4. \A n \in 1 .. Len(r.unsent) : n \in 1 .. Len(old.unsent) \/ n = Len(old.unsent) + 1
      BY <2>1, <2>2, <2>3
    <3> QED BY <3>1, <3>2, <3>3, <3>4 DEF Numbered
  <2>7. Counted(r, Left(c)')
    <3>1. Len(old.got) + Len(old.unsent) + old.requests + round.left = old.asked
      BY <1>1, <1>2 DEF Counted
    <3>2. old.requests \in Nat /\ round.left \in Nat BY <1>1 DEF Sessions
    <3>3. Len(r.got) + Len(r.unsent) + r.requests + Left(c)' = r.asked
      <4>1. old.asked \in Nat BY <1>1 DEF Sessions
      <4>2. Len(old.got) + (Len(old.unsent) + 1) + old.requests + (round.left - 1) = old.asked
        <5>1. PICK g \in Nat, u \in Nat, q \in Nat, l \in Nat, k \in Nat :
                /\ g = Len(old.got) /\ u = Len(old.unsent) /\ q = old.requests
                /\ l = round.left /\ k = old.asked
          BY <2>1, <3>2, <4>1
        <5>2. g + u + q + l = k BY <3>1, <5>1
        <5>3. g + (u + 1) + q + (l - 1) = k BY <5>2
        <5> QED BY <5>1, <5>3
      <4> HIDE DEF number
      <4> QED BY <2>2, <2>3, <2>5, <4>2
    <3>4. Len(r.got) <= r.asked /\ (r.eof => r.ended /\ r.requests = 0)
      BY <1>1, <1>2, <2>3 DEF Counted
    <3> QED BY <2>3, <3>3, <3>4 DEF Counted
  <2> HIDE DEF r
  <2> QED BY <1>2, <1>3, <2>3, <2>4, <2>6, <2>7, <2>8, InHand
<1>4. CASE CloseReader(c, "dropped") /\ io' = "polling" /\ round' = [round EXCEPT !.left = 0]
  <2>1. reader' = [reader EXCEPT ![round.reader] = Gone(old, "dropped")]
    BY <1>4 DEF CloseReader, SessionsInv, SessionTypes
  <2>2. Left(c)' = 0 /\ Left(c) \in Nat BY <1>1, <1>2, <1>4 DEF Left
  <2>3. /\ Gone(old, "dropped") \in Sessions /\ Numbered(Gone(old, "dropped"))
        /\ Counted(Gone(old, "dropped"), 0)
    BY <1>1, <2>2, GoneIsSession
  <2>4. round' \in [reader : Readers, left : Nat] /\ round'.reader = c BY <1>1, <1>4
  <2> QED BY <1>2, <1>4, <2>1, <2>2, <2>3, <2>4, InHand
<1>5. reader[round.reader] = old OBVIOUS
<1>6. \/ /\ reader' = [reader EXCEPT ![c] = [old EXCEPT !.unsent = Append(old.unsent, number)]]
         /\ round' = [round EXCEPT !.left = round.left - 1] /\ UNCHANGED io
      \/ CloseReader(c, "dropped") /\ io' = "polling" /\ round' = [round EXCEPT !.left = 0]
  BY <1>1 DEF AnswerReader, SessionsInv, SessionTypes
<1> QED BY <1>3, <1>4, <1>6

LEMMA SendingIsInOrder ==
  ASSUME SessionsInv, SendReader
  PROVE  SessionsInv'
<1> DEFINE c == round.reader
           old == reader[c]
<1>1. /\ c \in Readers /\ old \in Sessions /\ Numbered(old) /\ Counted(old, Left(c))
      /\ round \in [reader : Readers, left : Nat]
  BY DEF SessionsInv, SessionTypes
<1>2. /\ io = "serving" /\ old.at = "open" /\ Left(c) = 0 /\ io' = "polling" /\ round' = round
  BY DEF SendReader, SessionsInv, ServingIsOpen, Left
<1>3. PICK n \in 0 .. Len(old.unsent) :
        LET sent == [old EXCEPT !.got = old.got \o SubSeq(old.unsent, 1, n),
                                !.unsent = SubSeq(old.unsent, n + 1, Len(old.unsent))]
        IN reader' = [reader EXCEPT ![c] = IF sent.eof /\ sent.unsent = <<>> THEN Gone(sent, "done")
                                           ELSE sent]
  BY <1>1 DEF SendReader
<1> DEFINE s == [old EXCEPT !.got = old.got \o SubSeq(old.unsent, 1, n),
                            !.unsent = SubSeq(old.unsent, n + 1, Len(old.unsent))]
<1>4. /\ s \in Sessions /\ Numbered(s)
      /\ Len(s.got) = Len(old.got) + n /\ Len(s.unsent) = Len(old.unsent) - n
      /\ s.at = old.at /\ s.ended = old.ended /\ s.eof = old.eof /\ s.asked = old.asked
      /\ s.requests = old.requests
  <2> HIDE DEF old
  <2> QED BY <1>1, SendingKeepsOrder
<1>5. reader' = [reader EXCEPT ![c] = IF s.eof /\ s.unsent = <<>> THEN Gone(s, "done") ELSE s]
  BY <1>3
<1> HIDE DEF s, old
<1>6. Len(s.got) + Len(s.unsent) + s.requests + 0 = s.asked /\ Len(s.got) <= s.asked
  <2>1. old.got \in Seq(Nat) /\ old.unsent \in Seq(Nat) /\ old.requests \in Nat /\ old.asked \in Nat
    BY <1>1 DEF Sessions
  <2>2. PICK g \in Nat, u \in Nat, q \in Nat, k \in Nat :
          g = Len(old.got) /\ u = Len(old.unsent) /\ q = old.requests /\ k = old.asked
    BY <2>1
  <2>3. g + u + q + 0 = k BY <1>1, <1>2, <2>2 DEF Counted
  <2>4. n \in Nat /\ n <= u BY <2>2
  <2>5. (g + n) + (u - n) + q + 0 = k /\ g + n <= k BY <2>3, <2>4
  <2> QED BY <1>4, <2>2, <2>5
<1>7. Counted(s, 0) BY <1>1, <1>2, <1>4, <1>6 DEF Counted
<1>8. CASE s.eof /\ s.unsent = <<>>
  <2>1. s.requests = 0 /\ Len(s.unsent) = 0 BY <1>2, <1>4, <1>7, <1>8 DEF Counted
  <2>2. Len(s.got) = s.asked
    <3>1. s.got \in Seq(Nat) /\ s.asked \in Nat BY <1>4 DEF Sessions
    <3>2. PICK g \in Nat, k \in Nat : g = Len(s.got) /\ k = s.asked BY <3>1
    <3>3. g + 0 + 0 + 0 = k BY <1>6, <2>1, <3>2
    <3>4. g = k BY <3>3
    <3> QED BY <3>2, <3>4
  <2>3. /\ Gone(s, "done") \in Sessions /\ Numbered(Gone(s, "done"))
        /\ Counted(Gone(s, "done"), 0)
    BY <1>4, <1>7, <2>2, GoneIsSession
  <2>4. reader' = [reader EXCEPT ![round.reader] = Gone(s, "done")] BY <1>5, <1>8
  <2>5. Left(c)' = 0 BY <1>2 DEF Left
  <2> QED BY <1>1, <1>2, <2>3, <2>4, <2>5, InHand
<1>9. CASE ~(s.eof /\ s.unsent = <<>>)
  <2>1. reader' = [reader EXCEPT ![round.reader] = s] BY <1>5, <1>9
  <2>2. Left(c)' = 0 BY <1>2 DEF Left
  <2> QED BY <1>1, <1>2, <1>4, <1>7, <2>1, <2>2, InHand
<1> QED BY <1>8, <1>9

LEMMA DroppingIsInOrder ==
  ASSUME SessionsInv, NEW c \in Readers, DropReader(c)
  PROVE  SessionsInv'
<1>1. reader[c] \in Sessions /\ Numbered(reader[c]) /\ Counted(reader[c], Left(c))
  BY DEF SessionsInv, SessionTypes
<1>2. io = "polling" /\ UNCHANGED <<io, round>> /\ reader[c].at = "open" BY DEF DropReader
<1>3. \A d \in Readers : Left(d) = 0 /\ Left(d)' = 0 BY <1>2 DEF Left
<1>4. reader' = [reader EXCEPT ![c] = Gone(reader[c], "dropped")]
  BY DEF DropReader, CloseReader, SessionsInv, SessionTypes
<1>5. /\ Gone(reader[c], "dropped") \in Sessions /\ Numbered(Gone(reader[c], "dropped"))
      /\ Counted(Gone(reader[c], "dropped"), 0) /\ Gone(reader[c], "dropped").at = "dropped"
  BY <1>1, <1>3, GoneIsSession
<1>6. /\ reader' \in [Readers -> Sessions]
      /\ reader'[c] = Gone(reader[c], "dropped")
      /\ \A d \in Readers \ {c} : reader'[d] = reader[d]
      /\ \A d \in Readers : Numbered(reader'[d]) /\ Counted(reader'[d], Left(d)')
  BY <1>3, <1>4, <1>5, OneSession
<1>7. SessionTypes' BY <1>2, <1>6 DEF SessionsInv, SessionTypes
<1>8. ServingIsOpen' BY <1>2 DEF ServingIsOpen
<1>9. NotTooMany' BY <1>2, <1>6, FewerConnected DEF SessionsInv
<1> QED BY <1>6, <1>7, <1>8, <1>9 DEF SessionsInv

-----------------------------------------------------------------------------
LEMMA SessionsInvHolds == SessionsSpec => []SessionsInv
<1>1. SessionsInit => SessionsInv
  <2> SUFFICES ASSUME SessionsInit PROVE SessionsInv
    OBVIOUS
  <2>1. <<>> \in Seq(Nat) /\ Len(<<>>) = 0 OBVIOUS
  <2>2. SessionTypes BY <2>1 DEF SessionsInit, SessionTypes, Sessions
  <2>3. \A c \in Readers : Numbered(reader[c]) /\ Counted(reader[c], Left(c))
    BY <2>1 DEF SessionsInit, Numbered, Counted
  <2>4. ServingIsOpen BY DEF SessionsInit, ServingIsOpen
  <2>5. NotTooMany
    <3>1. Connected = {} BY DEF SessionsInit, Connected
    <3> QED BY <3>1, FS_EmptySet, SessionsAssumption DEF NotTooMany
  <2> QED BY <2>2, <2>3, <2>4, <2>5 DEF SessionsInv
<1>2. SessionsInv /\ [SessionsNext]_sessionVars => SessionsInv'
  <2>1. SessionsInv /\ SessionsNext => SessionsInv'
    BY ThreadIsInOrder, ClientsAreInOrder, ServiceIsInOrder, AnsweringIsInOrder, SendingIsInOrder,
       DroppingIsInOrder DEF SessionsNext
  <2>2. ASSUME SessionsInv, UNCHANGED sessionVars PROVE SessionsInv'
    <3>1. UNCHANGED <<io, reader, round>> BY <2>2 DEF sessionVars
    <3>2. \A c \in Readers : Left(c)' = Left(c) BY <3>1 DEF Left
    <3>3. NotTooMany' BY <2>2, <3>1, FewerConnected DEF SessionsInv
    <3> QED BY <2>2, <3>1, <3>2, <3>3 DEF SessionsInv, SessionTypes, ServingIsOpen
  <2> QED BY <2>1, <2>2
<1> QED BY <1>1, <1>2, PTL DEF SessionsSpec

(* Every client gets the answers to its requests in their order, and all   *)
(* of them when it has only ended its side; there are never more clients   *)
(* than allowed, and none is left when the thread has ended: for any       *)
(* clients, limits of the buffer and failures (ModbusTcpServer).           *)
THEOREM ReadersStayAnswered == SessionsSpec => []ReadersAreAnswered
<1>1. SessionsInv => ReadersAreAnswered
  <2> SUFFICES ASSUME SessionsInv PROVE ReadersAreAnswered
    OBVIOUS
  <2>1. ASSUME NEW c \in Readers
        PROVE  /\ reader[c].got = [n \in 1 .. Len(reader[c].got) |-> n]
               /\ Len(reader[c].got) <= reader[c].asked
               /\ reader[c].at = "done" => Len(reader[c].got) = reader[c].asked
    <3>1. reader[c].got \in Seq(Nat) BY DEF SessionsInv, SessionTypes, Sessions
    <3>2. Numbered(reader[c]) /\ Counted(reader[c], Left(c)) BY DEF SessionsInv
    <3>3. reader[c].got = [n \in 1 .. Len(reader[c].got) |-> reader[c].got[n]]
      BY <3>1, SeqDef
    <3>4. [n \in 1 .. Len(reader[c].got) |-> reader[c].got[n]] = [n \in 1 .. Len(reader[c].got) |-> n]
      BY <3>2 DEF Numbered
    <3> QED BY <3>2, <3>3, <3>4 DEF Counted
  <2>2. io = "none" => Connected = {} BY DEF SessionsInv, ServingIsOpen, Connected
  <2> QED BY <2>1, <2>2 DEF ReadersAreAnswered, SessionsInv, NotTooMany
<1> QED BY <1>1, SessionsInvHolds, PTL

-----------------------------------------------------------------------------
(* ModbusServing.                                                          *)

Form == Mapping \cup {Absent}
Forms == [Mappings -> Form]
Kinds == {"not produced", "disabled", "good", "invalid", "offline", "target missing"}
Value == [conv : Conversions \cup {"none"}, v : Nat]
Banks == [forms : Forms, value : [Mappings -> Value], quality : [Mappings -> Kinds]]

IsDevice(d) == d = [v |-> d.v, kind |-> d.kind] /\ d.v \in Nat /\ d.kind \in [Mappings -> Kinds]

IsEdit(e) ==
  /\ e = [at |-> e.at, former |-> e.former, forms |-> e.forms, snapshot |-> e.snapshot,
          undoing |-> e.undoing]
  /\ e.former \in Forms /\ e.forms \in Forms /\ IsDevice(e.snapshot)

IsPublication(p) == p = [at |-> p.at, missing |-> p.missing, todo |-> p.todo]

(* The bank that is fed is the last one; the server has it too unless the  *)
(* exchange is just between the two, and so has the backend when no edit   *)
(* is under way.  Whoever writes into a bank holds update_mutex_.          *)
ServingInv ==
  /\ banks \in Seq(Banks) /\ fed = Len(banks) /\ fed \in Nat /\ fed # 0
  /\ served \in 1 .. fed
  /\ IsDevice(device) /\ IsEdit(edit) /\ IsPublication(publication) /\ table \in Forms
  /\ edit.at # "fed" => served = fed
  /\ edit.at \notin {"fed", "served"} => owned = fed
  /\ updating = "publication" <=> publication.at = "feeding"
  /\ updating = "edit" <=> edit.at \in {"building", "fed"}
  /\ publication.at # "feeding" => publication.missing = {} /\ publication.todo = {}
  /\ publication.missing \subseteq publication.todo /\ publication.todo \subseteq Mappings

LEMMA FormFields ==
  ASSUME NEW f \in Form
  PROVE  /\ f.conv \in Conversions \cup {"none"}
         /\ f # Absent <=> f.conv # "none"
BY ServingAssumption DEF Form, Mapping, Absent

LEMMA BankFields ==
  ASSUME NEW b \in Banks
  PROVE  /\ b = [forms |-> b.forms, value |-> b.value, quality |-> b.quality]
         /\ b.forms \in Forms /\ b.value \in [Mappings -> Value] /\ b.quality \in [Mappings -> Kinds]
         /\ \A m \in Mappings : b.forms[m] \in Form /\ b.value[m] \in Value /\ b.value[m].v \in Nat
BY DEF Banks, Forms, Value

LEMMA BankOf ==
  ASSUME NEW f \in Forms, NEW v \in [Mappings -> Value], NEW q \in [Mappings -> Kinds]
  PROVE  [forms |-> f, value |-> v, quality |-> q] \in Banks
BY DEF Banks

LEMMA ValueOf ==
  ASSUME NEW c \in Conversions \cup {"none"}, NEW v \in Nat
  PROVE  [conv |-> c, v |-> v] \in Value
BY DEF Value

(* What feeding a status makes of a bank ...                               *)
LEMMA FedIsBank ==
  ASSUME NEW b \in Banks, NEW m \in Mappings, NEW d, IsDevice(d)
  PROVE  Fed(b, m, d) \in Banks /\ Fed(b, m, d).forms = b.forms
<1>0. PICK c : c = Fed(b, m, d)
  OBVIOUS
<1>1. /\ b = [forms |-> b.forms, value |-> b.value, quality |-> b.quality]
      /\ b.forms \in Forms /\ b.value \in [Mappings -> Value] /\ b.quality \in [Mappings -> Kinds]
      /\ b.forms[m] \in Form
  BY BankFields
<1>2. d.kind[m] \in Kinds /\ d.v \in Nat
  BY DEF IsDevice
<1>3. CASE d.kind[m] = "good"
  <2>1. c = [b EXCEPT !.value[m] = [conv |-> b.forms[m].conv, v |-> d.v], !.quality[m] = "good"]
    BY <1>0, <1>3 DEF Fed
  <2>2. /\ c = [forms |-> c.forms, value |-> c.value, quality |-> c.quality]
        /\ c.forms = b.forms
        /\ c.value = [b.value EXCEPT ![m] = [conv |-> b.forms[m].conv, v |-> d.v]]
        /\ c.quality = [b.quality EXCEPT ![m] = "good"]
    BY <1>1, <2>1
  <2>3. [conv |-> b.forms[m].conv, v |-> d.v] \in Value
    BY <1>1, <1>2, FormFields, ValueOf
  <2>4. c.value \in [Mappings -> Value] /\ c.quality \in [Mappings -> Kinds]
    BY <1>1, <1>2, <1>3, <2>2, <2>3
  <2>5. c \in Banks
    BY <1>1, <2>2, <2>4, BankOf
  <2> QED BY <1>0, <1>3, <2>2, <2>5
<1>4. CASE d.kind[m] # "good"
  <2>1. c = [b EXCEPT !.quality[m] = d.kind[m]]
    BY <1>0, <1>4 DEF Fed
  <2>2. /\ c = [forms |-> c.forms, value |-> c.value, quality |-> c.quality]
        /\ c.forms = b.forms /\ c.value = b.value
        /\ c.quality = [b.quality EXCEPT ![m] = d.kind[m]]
    BY <1>1, <2>1
  <2>3. c.quality \in [Mappings -> Kinds]
    BY <1>1, <1>2, <2>2
  <2>4. c \in Banks
    BY <1>1, <2>2, <2>3, BankOf
  <2>5. [b.value EXCEPT ![m] = b.value[m]] = b.value
    BY <1>1
  <2> QED BY <1>0, <1>4, <2>2, <2>4, <2>5
<1> QED BY <1>3, <1>4


LEMMA FedParts ==
  ASSUME NEW b \in Banks, NEW m \in Mappings, NEW d
  PROVE  /\ Fed(b, m, d).quality = [b.quality EXCEPT ![m] = d.kind[m]]
         /\ Fed(b, m, d).value = [b.value EXCEPT ![m] =
              IF d.kind[m] = "good" THEN [conv |-> b.forms[m].conv, v |-> d.v] ELSE @]
<1>1. /\ b = [forms |-> b.forms, value |-> b.value, quality |-> b.quality]
      /\ b.forms \in Forms /\ b.value \in [Mappings -> Value] /\ b.quality \in [Mappings -> Kinds]
  BY BankFields
<1>2. PICK c : c = Fed(b, m, d)
  OBVIOUS
<1>3. CASE d.kind[m] = "good"
  <2>1. c = [b EXCEPT !.value[m] = [conv |-> b.forms[m].conv, v |-> d.v], !.quality[m] = "good"]
    BY <1>2, <1>3 DEF Fed
  <2>2. /\ c.value = [b.value EXCEPT ![m] = [conv |-> b.forms[m].conv, v |-> d.v]]
        /\ c.quality = [b.quality EXCEPT ![m] = "good"]
    BY <1>1, <2>1
  <2> QED BY <1>2, <1>3, <2>2
<1>4. CASE d.kind[m] # "good"
  <2>1. c = [b EXCEPT !.quality[m] = d.kind[m]]
    BY <1>2, <1>4 DEF Fed
  <2>2. c.value = b.value /\ c.quality = [b.quality EXCEPT ![m] = d.kind[m]]
    BY <1>1, <2>1
  <2>3. [b.value EXCEPT ![m] = b.value[m]] = b.value
    BY <1>1
  <2> QED BY <1>2, <1>4, <2>2, <2>3
<1> QED BY <1>3, <1>4

(* ... what marking a target as missing does ...                           *)
LEMMA MarkedBank ==
  ASSUME NEW b \in Banks, NEW m \in Mappings, NEW c, c = [b EXCEPT !.quality[m] = "target missing"]
  PROVE  /\ c \in Banks /\ c.forms = b.forms /\ c.value = b.value
         /\ c.quality = [b.quality EXCEPT ![m] = "target missing"]
<1>1. /\ b = [forms |-> b.forms, value |-> b.value, quality |-> b.quality]
      /\ b.forms \in Forms /\ b.value \in [Mappings -> Value] /\ b.quality \in [Mappings -> Kinds]
  BY BankFields
<1>2. /\ c = [forms |-> c.forms, value |-> c.value, quality |-> c.quality]
      /\ c.forms = b.forms /\ c.value = b.value
      /\ c.quality = [b.quality EXCEPT ![m] = "target missing"]
  BY <1>1
<1>3. c.quality \in [Mappings -> Kinds]
  BY <1>1, <1>2 DEF Kinds
<1>4. [forms |-> c.forms, value |-> c.value, quality |-> c.quality] \in Banks
  BY <1>1, <1>2, <1>3, BankOf
<1> QED BY <1>2, <1>4

(* ... and what a new bank starts with.                                    *)
LEMMA BuiltBank ==
  ASSUME NEW f \in Forms, NEW b \in Banks, NEW d, NEW c, IsDevice(d), c = Built(f, b, d)
  PROVE  /\ c \in Banks /\ c.forms = f
         /\ \A m \in Enabled(f) : c.quality[m] = d.kind[m]
         /\ \A m \in Mappings :
              c.value[m] = IF m \in Enabled(f) /\ d.kind[m] = "good"
                           THEN [conv |-> f[m].conv, v |-> d.v]
                           ELSE IF Carries(m, b, f) THEN b.value[m] ELSE NoValue
<1> DEFINE vals == [m \in Mappings |-> IF Carries(m, b, f) THEN b.value[m] ELSE NoValue]
           quals == [m \in Mappings |-> IF f[m].on THEN "not produced" ELSE "disabled"]
           carried == [NewBank(f) EXCEPT !.value = vals]
<1>1. NoValue \in Value
  BY ValueOf DEF NoValue
<1>2. vals \in [Mappings -> Value] /\ quals \in [Mappings -> Kinds]
  BY <1>1, BankFields DEF Kinds
<1>3. carried = [forms |-> f, value |-> vals, quality |-> quals]
  <2> DEFINE none == [m \in Mappings |-> NoValue]
  <2>1. NewBank(f) = [forms |-> f, value |-> none, quality |-> quals]
    BY DEF NewBank
  <2> HIDE DEF vals, quals, none
  <2> QED BY <2>1
<1>4. carried \in Banks /\ carried.forms = f /\ carried.value = vals /\ carried.quality = quals
  <2> HIDE DEF vals, quals, carried
  <2>1. [forms |-> f, value |-> vals, quality |-> quals] \in Banks
    BY <1>2, BankOf
  <2> QED BY <1>3, <2>1
<1>5. c = [carried EXCEPT
             !.value = [m \in Mappings |-> IF m \in Enabled(f) THEN Fed(carried, m, d).value[m]
                                           ELSE carried.value[m]],
             !.quality = [m \in Mappings |-> IF m \in Enabled(f) THEN Fed(carried, m, d).quality[m]
                                             ELSE carried.quality[m]]]
  BY DEF Built
<1> HIDE DEF carried
<1>6. /\ c = [forms |-> c.forms, value |-> c.value, quality |-> c.quality] /\ c.forms = f
      /\ c.value = [m \in Mappings |-> IF m \in Enabled(f) THEN Fed(carried, m, d).value[m]
                                       ELSE vals[m]]
      /\ c.quality = [m \in Mappings |-> IF m \in Enabled(f) THEN Fed(carried, m, d).quality[m]
                                         ELSE quals[m]]
  <2> HIDE DEF vals, quals
  <2> DEFINE newValue == [m \in Mappings |-> IF m \in Enabled(f) THEN Fed(carried, m, d).value[m]
                                             ELSE carried.value[m]]
             newQuality == [m \in Mappings |-> IF m \in Enabled(f) THEN Fed(carried, m, d).quality[m]
                                               ELSE carried.quality[m]]
  <2>1. c = [carried EXCEPT !.value = newValue, !.quality = newQuality]
    BY <1>5
  <2>2. /\ newValue = [m \in Mappings |-> IF m \in Enabled(f) THEN Fed(carried, m, d).value[m]
                                          ELSE vals[m]]
        /\ newQuality = [m \in Mappings |-> IF m \in Enabled(f) THEN Fed(carried, m, d).quality[m]
                                            ELSE quals[m]]
    BY <1>4
  <2> HIDE DEF newValue, newQuality
  <2>3. /\ c = [forms |-> c.forms, value |-> c.value, quality |-> c.quality] /\ c.forms = f
        /\ c.value = newValue /\ c.quality = newQuality
    BY <1>3, <2>1
  <2> QED BY <2>2, <2>3
<1>7. ASSUME NEW m \in Mappings
      PROVE  /\ Fed(carried, m, d).quality[m] = d.kind[m] /\ d.kind[m] \in Kinds
             /\ Fed(carried, m, d).value[m] =
                  IF d.kind[m] = "good" THEN [conv |-> f[m].conv, v |-> d.v] ELSE vals[m]
             /\ Fed(carried, m, d).value[m] \in Value
  <2> HIDE DEF vals, quals
  <2> DEFINE x == Fed(carried, m, d)
  <2>0. IsDevice(d) /\ x = Fed(carried, m, d)
    OBVIOUS
  <2> HIDE DEF x, carried
  <2>1. /\ x \in Banks
        /\ x.quality = [carried.quality EXCEPT ![m] = d.kind[m]]
        /\ x.value = [carried.value EXCEPT ![m] =
             IF d.kind[m] = "good" THEN [conv |-> carried.forms[m].conv, v |-> d.v] ELSE @]
    <3>1. PICK k : k = carried
      OBVIOUS
    <3>2. k \in Banks /\ x = Fed(k, m, d)
      BY <1>4, <2>0, <3>1
    <3> QED BY <2>0, <3>1, <3>2, FedIsBank, FedParts
  <2>2. x.value[m] \in Value
    BY <2>1, BankFields
  <2>3. d.kind[m] \in Kinds
    BY DEF IsDevice
  <2> QED BY <1>2, <1>4, <2>1, <2>2, <2>3 DEF x
<1>8. c.value \in [Mappings -> Value] /\ c.quality \in [Mappings -> Kinds]
  <2> HIDE DEF vals, quals
  <2> QED BY <1>2, <1>6, <1>7
<1>9. c \in Banks
  <2>1. [forms |-> f, value |-> c.value, quality |-> c.quality] \in Banks
    BY <1>8, BankOf
  <2>2. c = [forms |-> f, value |-> c.value, quality |-> c.quality]
    <3> HIDE DEF vals, quals
    <3> QED BY <1>6
  <2> QED BY <2>1, <2>2
<1>10. Enabled(f) \subseteq Mappings
  BY DEF Enabled, InUse
<1> QED BY <1>6, <1>7, <1>9, <1>10

(* What is common to the steps that leave the banks alone.                 *)
LEMMA ServingSame ==
  ASSUME ServingInv, UNCHANGED <<banks, fed>>, served' \in 1 .. fed, IsDevice(device'),
         IsEdit(edit'), IsPublication(publication'), table' \in Forms
  PROVE  /\ banks' \in Seq(Banks) /\ fed' = Len(banks') /\ fed' \in Nat /\ fed' # 0
         /\ served' \in 1 .. fed'
         /\ IsDevice(device') /\ IsEdit(edit') /\ IsPublication(publication') /\ table' \in Forms
BY DEF ServingInv

(* What is common to the steps that write into the bank that is fed.       *)
LEMMA ServingWrite ==
  ASSUME ServingInv, fed' = fed, NEW c \in Banks, banks' = [banks EXCEPT ![fed] = c],
         c.forms = banks[fed].forms
  PROVE  /\ banks' \in Seq(Banks) /\ Len(banks') = Len(banks) /\ fed \in 1 .. Len(banks)
         /\ banks'[fed] = c
         /\ \A b \in 1 .. Len(banks) : b # fed => banks'[b] = banks[b]
         /\ \A b \in 1 .. Len(banks) : banks'[b].forms = banks[b].forms
BY DEF ServingInv

LEMMA NoEditIs == IsEdit(NoEdit) /\ NoEdit.at = "none" /\ NoEdit.snapshot.v = 0
<1> DEFINE forms == [m \in Mappings |-> Absent]
           kinds == [m \in Mappings |-> "not produced"]
<1>1. forms \in Forms
  BY DEF Forms, Form
<1>2. kinds \in [Mappings -> Kinds]
  BY DEF Kinds
<1>3. NoEdit = [at |-> "none", former |-> forms, forms |-> forms,
                snapshot |-> [v |-> 0, kind |-> kinds], undoing |-> FALSE]
  BY DEF NoEdit
<1> HIDE DEF forms, kinds
<1>4. IsDevice([v |-> 0, kind |-> kinds])
  BY <1>2 DEF IsDevice
<1> QED BY <1>1, <1>3, <1>4 DEF IsEdit

LEMMA ServingStart == ServingInit => ServingInv
<1> SUFFICES ASSUME ServingInit PROVE ServingInv
  OBVIOUS
<1>1. table \in Forms
  BY DEF ServingInit, Forms, Form
<1>2. NewBank(table) \in Banks
  <2> DEFINE vals == [m \in Mappings |-> NoValue]
             quals == [m \in Mappings |-> IF table[m].on THEN "not produced" ELSE "disabled"]
  <2>1. vals \in [Mappings -> Value]
    BY ValueOf DEF NoValue
  <2>2. quals \in [Mappings -> Kinds]
    BY DEF Kinds
  <2>3. NewBank(table) = [forms |-> table, value |-> vals, quality |-> quals]
    BY DEF NewBank
  <2> HIDE DEF vals, quals
  <2> QED BY <1>1, <2>1, <2>2, <2>3, BankOf
<1>3. IsDevice(device)
  <2> DEFINE kinds == [m \in Mappings |-> "not produced"]
  <2>1. kinds \in [Mappings -> Kinds] /\ device = [v |-> 0, kind |-> kinds]
    BY DEF Kinds, ServingInit
  <2> HIDE DEF kinds
  <2> QED BY <2>1 DEF IsDevice
<1>4. IsPublication(publication) /\ publication.at = "free" /\ publication.missing = {}
      /\ publication.todo = {}
  BY DEF NoPublication, IsPublication, ServingInit
<1>5. banks \in Seq(Banks) /\ Len(banks) = 1
  <2>1. banks = <<NewBank(table)>>
    BY DEF ServingInit
  <2> QED BY <1>2, <2>1
<1>6. /\ updating = "none" /\ fed = 1 /\ served = 1 /\ owned = 1 /\ edit = NoEdit
  BY DEF ServingInit
<1> QED BY <1>1, <1>3, <1>4, <1>5, <1>6, NoEditIs DEF ServingInv

LEMMA ServingStep == ServingInv /\ [ServingNext]_servingVars => ServingInv'
<1> SUFFICES ASSUME ServingInv, [ServingNext]_servingVars PROVE ServingInv'
  OBVIOUS
<1>0. /\ banks \in Seq(Banks) /\ fed = Len(banks) /\ fed \in Nat /\ fed # 0 /\ served \in 1 .. fed
      /\ IsDevice(device) /\ IsEdit(edit) /\ IsPublication(publication) /\ table \in Forms
  BY DEF ServingInv
<1>1. CASE PublishValues
  <2>1. PICK good \in SUBSET Mappings :
          device' = [v |-> device.v + 1,
                     kind |-> [m \in Mappings |-> IF m \in good THEN "good" ELSE "invalid"]]
    BY <1>1 DEF PublishValues
  <2>2. IsDevice(device')
    <3> DEFINE kinds == [m \in Mappings |-> IF m \in good THEN "good" ELSE "invalid"]
    <3>1. kinds \in [Mappings -> Kinds] /\ device' = [v |-> device.v + 1, kind |-> kinds]
      BY <2>1 DEF Kinds
    <3> HIDE DEF kinds
    <3> QED BY <1>0, <3>1 DEF IsDevice
  <2>3. IsPublication(publication') /\ publication'.at = "stored"
        /\ publication'.missing = publication.missing /\ publication'.todo = publication.todo
    BY <1>0, <1>1 DEF PublishValues, IsPublication
  <2> QED BY <1>0, <1>1, <2>2, <2>3, ServingSame DEF PublishValues, ExportOnly, ServingInv
<1>2. CASE ExpireValues
  <2>2. IsDevice(device')
    <3> DEFINE kinds == [m \in Mappings |-> "offline"]
    <3>1. kinds \in [Mappings -> Kinds] /\ device' = [device EXCEPT !.kind = kinds]
      BY <1>2 DEF Kinds, ExpireValues
    <3> HIDE DEF kinds
    <3> QED BY <1>0, <3>1 DEF IsDevice
  <2>3. IsPublication(publication') /\ publication'.at = "stored"
        /\ publication'.missing = publication.missing /\ publication'.todo = publication.todo
    BY <1>0, <1>2 DEF ExpireValues, IsPublication
  <2> QED BY <1>0, <1>2, <2>2, <2>3, ServingSame DEF ExpireValues, ExportOnly, ServingInv
<1>3. CASE EmptyDevices
  <2>2. IsDevice(device')
    <3> DEFINE kinds == [m \in Mappings |-> "not produced"]
    <3>1. kinds \in [Mappings -> Kinds] /\ device' = [device EXCEPT !.kind = kinds]
      BY <1>3 DEF Kinds, EmptyDevices
    <3> HIDE DEF kinds
    <3> QED BY <1>0, <3>1 DEF IsDevice
  <2>3. IsPublication(publication') /\ publication'.at = "emptied"
        /\ publication'.missing = publication.missing /\ publication'.todo = publication.todo
    BY <1>0, <1>3 DEF EmptyDevices, IsPublication
  <2> QED BY <1>0, <1>3, <2>2, <2>3, ServingSame DEF EmptyDevices, ExportOnly, ServingInv
<1>4. CASE FeedBegin
  <2>1. PICK todo : todo = Enabled(banks[fed].forms)
    OBVIOUS
  <2>2. todo \subseteq Mappings
    BY <2>1 DEF Enabled, InUse
  <2>3. /\ IsPublication(publication') /\ publication'.at = "feeding" /\ publication'.todo = todo
        /\ publication'.missing \subseteq todo
    BY <1>4, <2>1 DEF FeedBegin, IsPublication
  <2> QED BY <1>0, <1>4, <2>2, <2>3, ServingSame DEF FeedBegin, ExportOnly, ServingInv
<1>5. CASE FeedEnd
  <2>1. /\ IsPublication(publication') /\ publication'.at = "free" /\ publication'.todo = {}
        /\ publication'.missing = {}
    BY <1>5 DEF FeedEnd, NoPublication, IsPublication
  <2> QED BY <1>0, <1>5, <2>1, ServingSame DEF FeedEnd, ExportOnly, ServingInv
<1>6. ASSUME NEW m \in Mappings, MarkMissing(m) PROVE ServingInv'
  <2>0. PICK b : b = banks[fed]
    OBVIOUS
  <2>1. PICK c : c = [b EXCEPT !.quality[m] = "target missing"]
    OBVIOUS
  <2>2. b \in Banks
    BY <1>0, <2>0
  <2>3. c \in Banks /\ c.forms = b.forms /\ c.value = b.value
    BY <2>1, <2>2, MarkedBank
  <2>4. banks' = [banks EXCEPT ![fed] = c]
    BY <1>0, <1>6, <2>0, <2>1 DEF MarkMissing
  <2>5. /\ IsPublication(publication') /\ publication'.at = publication.at
        /\ publication'.missing = publication.missing \ {m} /\ publication'.todo = publication.todo
    BY <1>0, <1>6 DEF MarkMissing, IsPublication
  <2> QED BY <1>0, <1>6, <2>0, <2>3, <2>4, <2>5, ServingWrite DEF MarkMissing, ExportOnly, ServingInv
<1>7. ASSUME NEW m \in Mappings, FeedOne(m) PROVE ServingInv'
  <2>0. PICK b : b = banks[fed]
    OBVIOUS
  <2>1. PICK c : c = Fed(b, m, device)
    OBVIOUS
  <2>2. b \in Banks
    BY <1>0, <2>0
  <2>3. c \in Banks /\ c.forms = b.forms
    <3>1. PICK d : d = device
      OBVIOUS
    <3>2. IsDevice(d) /\ c = Fed(b, m, d)
      BY <1>0, <2>1, <3>1
    <3> QED BY <2>2, <3>2, FedIsBank
  <2>4. banks' = [banks EXCEPT ![fed] = c]
    BY <1>0, <1>7, <2>0, <2>1 DEF FeedOne
  <2>5. /\ IsPublication(publication') /\ publication'.at = publication.at
        /\ publication'.missing = publication.missing /\ publication'.todo = publication.todo \ {m}
    BY <1>0, <1>7 DEF FeedOne, IsPublication
  <2>6. publication.missing = {}
    BY <1>7 DEF FeedOne
  <2> QED BY <1>0, <1>7, <2>0, <2>3, <2>4, <2>5, <2>6, ServingWrite DEF FeedOne, ExportOnly, ServingInv
<1>8. CASE SaveMapping
  <2>1. PICK m \in Mappings, f \in Mapping \cup {Absent} : table' = [table EXCEPT ![m] = f]
    BY <1>8 DEF SaveMapping
  <2>2. table' \in Forms
    BY <1>0, <2>1 DEF Forms, Form
  <2>3. IsEdit(edit') /\ edit'.at = "saved"
    <3>1. edit' = [NoEdit EXCEPT !.at = "saved", !.former = table]
      BY <1>8 DEF SaveMapping
    <3> QED BY <1>0, <3>1, NoEditIs DEF IsEdit
  <2> QED BY <1>0, <1>8, <2>2, <2>3, ServingSame DEF SaveMapping, ServerAlone, ServingInv
<1>9. CASE LoadMappings
  <2>1. IsEdit(edit') /\ edit'.at = "loaded"
    BY <1>0, <1>9 DEF LoadMappings, IsEdit
  <2> QED BY <1>0, <1>9, <2>1, ServingSame DEF LoadMappings, ServerAlone, ServingInv
<1>10. CASE TakeSnapshot
  <2>1. IsEdit(edit') /\ edit'.at = "building"
    BY <1>0, <1>10 DEF TakeSnapshot, IsEdit
  <2> QED BY <1>0, <1>10, <2>1, ServingSame DEF TakeSnapshot, ServerAlone, ServingInv
<1>11. CASE SwitchFed
  <2>1. PICK c : c = Built(edit.forms, banks[fed], edit.snapshot)
    OBVIOUS
  <2>2. banks[fed] \in Banks /\ edit.forms \in Forms /\ IsDevice(edit.snapshot)
    BY <1>0 DEF IsEdit
  <2>3. c \in Banks
    BY <2>1, <2>2, BuiltBank
  <2>4. banks' = Append(banks, c) /\ fed' = Len(banks) + 1
    BY <1>11, <2>1 DEF SwitchFed
  <2>5. banks' \in Seq(Banks) /\ Len(banks') = Len(banks) + 1
    BY <1>0, <2>3, <2>4
  <2>6. IsEdit(edit') /\ edit'.at = "fed"
    BY <1>0, <1>11 DEF SwitchFed, IsEdit
  <2> QED BY <1>0, <1>11, <2>4, <2>5, <2>6 DEF SwitchFed, ServerAlone, ServingInv
<1>12. CASE SwitchServed
  <2>1. IsEdit(edit') /\ edit'.at = "served"
    BY <1>0, <1>12 DEF SwitchServed, IsEdit
  <2> QED BY <1>0, <1>12, <2>1, ServingSame DEF SwitchServed, ServerAlone, ServingInv
<1>13. CASE AdoptBank
  <2> QED BY <1>0, <1>13, NoEditIs, ServingSame DEF AdoptBank, ServerAlone, ServingInv
<1>14. CASE ReloadMappingsFails
  <2>1. IsEdit(edit') /\ edit'.at \in {"none", "undoing"}
    <3>1. CASE edit.undoing
      BY <1>14, <3>1, NoEditIs DEF ReloadMappingsFails
    <3>2. CASE ~edit.undoing
      <4>1. edit' = [edit EXCEPT !.at = "undoing"]
        BY <1>14, <3>2 DEF ReloadMappingsFails
      <4> QED BY <1>0, <4>1 DEF IsEdit
    <3> QED BY <3>1, <3>2
  <2> QED BY <1>0, <1>14, <2>1, ServingSame DEF ReloadMappingsFails, ServerAlone, ServingInv
<1>15. CASE UndoMapping
  <2>1. IsEdit(edit') /\ edit'.at \in {"none", "saved"} /\ table' \in Forms
    <3>1. CASE table' = edit.former /\ edit' = [edit EXCEPT !.at = "saved", !.undoing = TRUE]
      BY <1>0, <3>1 DEF IsEdit
    <3>2. CASE edit' = NoEdit /\ UNCHANGED table
      BY <1>0, <3>2, NoEditIs
    <3> QED BY <1>15, <3>1, <3>2 DEF UndoMapping
  <2> QED BY <1>0, <1>15, <2>1, ServingSame DEF UndoMapping, ServerAlone, ServingInv
<1>16. CASE StopServer
  <2>1. IsEdit(edit') /\ edit'.at = "stopped"
    <3>1. edit' = [NoEdit EXCEPT !.at = "stopped"]
      BY <1>16 DEF StopServer
    <3> QED BY <3>1, NoEditIs DEF IsEdit
  <2> QED BY <1>0, <1>16, <2>1, ServingSame DEF StopServer, BanksAlone, ServingInv
<1>17. CASE StartServer
  <2>1. IsEdit(edit') /\ edit'.at \in {"none", "stopped"}
    <3>1. CASE edit' = NoEdit
      BY <3>1, NoEditIs
    <3>2. CASE edit' = [edit EXCEPT !.undoing = TRUE]
      BY <1>0, <1>17, <3>2 DEF IsEdit, StartServer
    <3> QED BY <1>17, <3>1, <3>2 DEF StartServer
  <2>2. edit.at = "stopped" /\ served' = fed /\ owned = fed
    BY <1>17 DEF StartServer, ServingInv
  <2>3. UNCHANGED <<table, device, publication, updating, banks, fed, owned>>
    BY <1>17 DEF StartServer, BanksAlone
  <2> QED BY <1>0, <2>1, <2>2, <2>3, ServingSame DEF ServingInv
<1>18. CASE ServerDies
  BY <1>0, <1>18, ServingSame DEF ServerDies, BanksAlone, ServingInv
<1>19. CASE AnswerRequest
  BY <1>0, <1>19, ServingSame DEF AnswerRequest, BanksAlone, ServingInv
<1>20. CASE UNCHANGED servingVars
  BY <1>0, <1>20, ServingSame DEF servingVars, ServingInv
<1> QED
  BY <1>1, <1>2, <1>3, <1>4, <1>5, <1>6, <1>7, <1>8, <1>9, <1>10, <1>11, <1>12, <1>13, <1>14,
     <1>15, <1>16, <1>17, <1>18, <1>19, <1>20 DEF ServingNext

-----------------------------------------------------------------------------
(* A bank fits a device at a mapping when it has the quality of its point  *)
(* and, if that is good, its value.                                        *)
Fits(b, m, d) ==
  /\ b.quality[m] = d.kind[m]
  /\ d.kind[m] = "good" => b.value[m] = [conv |-> b.forms[m].conv, v |-> d.v]

(* While a publication is fed, what it has not come to is the only thing   *)
(* that may not fit; while a bank is built and nobody publishes, the       *)
(* snapshot it is built from is what is published.                         *)
FreshInv ==
  /\ publication.at = "free" => \A m \in Enabled(banks[fed].forms) : Fits(banks[fed], m, device)
  /\ publication.at = "free" /\ edit.at = "building" => edit.snapshot = device
  /\ publication.at = "feeding" =>
       /\ publication.todo \subseteq Enabled(banks[fed].forms)
       /\ \A m \in Enabled(banks[fed].forms) \ publication.todo : Fits(banks[fed], m, device)

LEMMA FreshSame ==
  ASSUME FreshInv, UNCHANGED <<publication, device, banks, fed>>,
         edit'.at = "building" => edit'.snapshot = device \/ edit' = edit
  PROVE  FreshInv'
BY DEF FreshInv

LEMMA FreshStart == ServingInit => FreshInv
<1> SUFFICES ASSUME ServingInit PROVE FreshInv
  OBVIOUS
<1>1. PICK b : b = NewBank(table)
  OBVIOUS
<1>2. publication.at = "free" /\ edit.at = "none" /\ banks[fed] = b
  <2>1. banks = <<b>> /\ fed = 1
    BY <1>1 DEF ServingInit
  <2>2. edit = NoEdit /\ publication.at = "free"
    BY DEF ServingInit, NoPublication
  <2> QED BY <2>1, <2>2, NoEditIs
<1>3. ASSUME NEW m \in Enabled(b.forms) PROVE Fits(b, m, device)
  <2>1. b.forms = table
    BY <1>1 DEF NewBank
  <2>2. m \in Mappings /\ table[m].on
    BY <1>3, <2>1 DEF Enabled, InUse
  <2>3. b.quality[m] = "not produced"
    BY <1>1, <2>2 DEF NewBank
  <2>4. device.kind[m] = "not produced"
    BY <2>2 DEF ServingInit
  <2> QED BY <2>3, <2>4 DEF Fits
<1> QED BY <1>2, <1>3 DEF FreshInv

LEMMA FreshStep == ServingInv /\ FreshInv /\ [ServingNext]_servingVars => FreshInv'
<1> SUFFICES ASSUME ServingInv, FreshInv, [ServingNext]_servingVars PROVE FreshInv'
  OBVIOUS
<1>0. /\ banks \in Seq(Banks) /\ fed = Len(banks) /\ fed \in Nat /\ fed # 0
      /\ IsDevice(device) /\ IsEdit(edit) /\ IsPublication(publication)
  BY DEF ServingInv
<1>1. CASE PublishValues
  <2>1. publication'.at = "stored"
    BY <1>0, <1>1 DEF PublishValues, IsPublication
  <2> QED BY <2>1 DEF FreshInv
<1>2. CASE ExpireValues
  <2>1. publication'.at = "stored"
    BY <1>0, <1>2 DEF ExpireValues, IsPublication
  <2> QED BY <2>1 DEF FreshInv
<1>3. CASE EmptyDevices
  <2>1. publication'.at = "emptied"
    BY <1>0, <1>3 DEF EmptyDevices, IsPublication
  <2> QED BY <2>1 DEF FreshInv
<1>4. CASE FeedBegin
  <2>1. publication'.at = "feeding" /\ publication'.todo = Enabled(banks[fed].forms)
    BY <1>4 DEF FeedBegin
  <2>2. UNCHANGED <<device, banks, fed, edit>>
    BY <1>4 DEF FeedBegin, ExportOnly
  <2> QED BY <2>1, <2>2 DEF FreshInv
<1>5. CASE FeedEnd
  <2>1. publication'.at = "free" /\ publication.at = "feeding" /\ publication.todo = {}
    BY <1>5 DEF FeedEnd, NoPublication
  <2>2. UNCHANGED <<device, banks, fed, edit>>
    BY <1>5 DEF FeedEnd, ExportOnly
  <2>3. edit.at # "building"
    BY <2>1 DEF ServingInv
  <2> QED BY <2>1, <2>2, <2>3 DEF FreshInv
<1>6. ASSUME NEW m \in Mappings, MarkMissing(m) PROVE FreshInv'
  <2>0. PICK b : b = banks[fed]
    OBVIOUS
  <2>1. PICK c : c = [b EXCEPT !.quality[m] = "target missing"]
    OBVIOUS
  <2>2. b \in Banks
    BY <1>0, <2>0
  <2>3. /\ c \in Banks /\ c.forms = b.forms /\ c.value = b.value
        /\ c.quality = [b.quality EXCEPT ![m] = "target missing"]
    BY <2>1, <2>2, MarkedBank
  <2>4. banks' = [banks EXCEPT ![fed] = c] /\ UNCHANGED <<device, fed, edit>>
    BY <1>0, <1>6, <2>0, <2>1 DEF MarkMissing, ExportOnly
  <2>5. banks'[fed] = c
    BY <1>0, <2>4
  <2>6. /\ m \in publication.todo /\ publication.at = "feeding"
        /\ publication'.at = "feeding" /\ publication'.todo = publication.todo
    BY <1>0, <1>6 DEF MarkMissing, IsPublication, ServingInv
  <2>7. ASSUME NEW n \in Enabled(c.forms) \ publication.todo PROVE Fits(c, n, device)
    <3>1. n # m /\ n \in Mappings /\ Fits(b, n, device)
      BY <2>0, <2>3, <2>6, <2>7 DEF FreshInv, Enabled, InUse
    <3>2. c.quality[n] = b.quality[n]
      BY <2>2, <2>3, <3>1 DEF Banks
    <3> QED BY <2>3, <3>1, <3>2 DEF Fits
  <2> QED BY <2>0, <2>3, <2>4, <2>5, <2>6, <2>7 DEF FreshInv
<1>7. ASSUME NEW m \in Mappings, FeedOne(m) PROVE FreshInv'
  <2>0. PICK b, d : b = banks[fed] /\ d = device
    OBVIOUS
  <2>1. PICK c : c = Fed(b, m, d)
    OBVIOUS
  <2>2. b \in Banks /\ IsDevice(d)
    BY <1>0, <2>0
  <2>3. /\ c \in Banks /\ c.forms = b.forms
        /\ c.quality = [b.quality EXCEPT ![m] = d.kind[m]]
        /\ c.value = [b.value EXCEPT ![m] =
             IF d.kind[m] = "good" THEN [conv |-> b.forms[m].conv, v |-> d.v] ELSE @]
    <3>1. c \in Banks /\ c.forms = b.forms
      BY <2>1, <2>2, FedIsBank
    <3>2. /\ Fed(b, m, d).quality = [b.quality EXCEPT ![m] = d.kind[m]]
          /\ Fed(b, m, d).value = [b.value EXCEPT ![m] =
               IF d.kind[m] = "good" THEN [conv |-> b.forms[m].conv, v |-> d.v] ELSE @]
      BY <2>2, FedParts
    <3> QED BY <2>1, <3>1, <3>2
  <2>4. banks' = [banks EXCEPT ![fed] = c] /\ UNCHANGED <<device, fed, edit>>
    BY <1>0, <1>7, <2>0, <2>1 DEF FeedOne, ExportOnly
  <2>5. banks'[fed] = c
    BY <1>0, <2>4
  <2>6. /\ publication.at = "feeding"
        /\ publication'.at = "feeding" /\ publication'.todo = publication.todo \ {m}
    BY <1>0, <1>7 DEF FeedOne, IsPublication, ServingInv
  <2>7. ASSUME NEW n \in Enabled(c.forms) \ publication'.todo PROVE Fits(c, n, d)
    <3>1. n \in Mappings /\ n \in Enabled(b.forms)
      BY <2>3, <2>7 DEF Enabled, InUse
    <3>2. b.value \in [Mappings -> Value] /\ b.quality \in [Mappings -> Kinds]
      BY <2>2, BankFields
    <3>3. CASE n = m
      BY <2>3, <3>1, <3>2, <3>3 DEF Fits
    <3>4. CASE n # m
      <4>1. Fits(b, n, d)
        BY <2>0, <2>6, <2>7, <3>1, <3>4 DEF FreshInv
      <4>2. c.quality[n] = b.quality[n] /\ c.value[n] = b.value[n]
        BY <2>3, <3>1, <3>2, <3>4
      <4> QED BY <2>3, <4>1, <4>2 DEF Fits
    <3> QED BY <3>3, <3>4
  <2>8. publication'.todo \subseteq Enabled(c.forms)
    BY <2>0, <2>3, <2>6 DEF FreshInv
  <2> QED BY <2>0, <2>4, <2>5, <2>6, <2>7, <2>8 DEF FreshInv
<1>8. CASE SaveMapping
  <2>1. edit'.at = "saved"
    BY <1>8, NoEditIs DEF SaveMapping, IsEdit
  <2> QED BY <1>8, <2>1, FreshSame DEF SaveMapping
<1>9. CASE LoadMappings
  <2>1. edit'.at = "loaded"
    BY <1>0, <1>9 DEF LoadMappings, IsEdit
  <2> QED BY <1>9, <2>1, FreshSame DEF LoadMappings
<1>10. CASE TakeSnapshot
  <2>1. edit'.snapshot = device
    BY <1>0, <1>10 DEF TakeSnapshot, IsEdit
  <2> QED BY <1>10, <2>1, FreshSame DEF TakeSnapshot
<1>11. CASE SwitchFed
  <2>0. PICK f, b, d : f = edit.forms /\ b = banks[fed] /\ d = edit.snapshot
    OBVIOUS
  <2>1. PICK c : c = Built(f, b, d)
    OBVIOUS
  <2>2. b \in Banks /\ f \in Forms /\ IsDevice(d)
    BY <1>0, <2>0 DEF IsEdit
  <2>3. /\ c.forms = f
        /\ \A m \in Enabled(f) : c.quality[m] = d.kind[m]
        /\ \A m \in Mappings :
             c.value[m] = IF m \in Enabled(f) /\ d.kind[m] = "good"
                          THEN [conv |-> f[m].conv, v |-> d.v]
                          ELSE IF Carries(m, b, f) THEN b.value[m] ELSE NoValue
    BY <2>1, <2>2, BuiltBank
  <2>4. ASSUME NEW m \in Enabled(f) PROVE Fits(c, m, d)
    <3>1. m \in Mappings
      BY <2>4 DEF Enabled, InUse
    <3> QED BY <2>3, <2>4, <3>1 DEF Fits
  <2>5. banks' = Append(banks, c) /\ fed' = Len(banks) + 1
    BY <1>11, <2>0, <2>1 DEF SwitchFed
  <2>6. banks'[fed'] = c
    BY <1>0, <2>5
  <2>7. /\ edit.at = "building" /\ edit'.at = "fed" /\ UNCHANGED <<device, publication>>
        /\ publication.at # "feeding"
    BY <1>0, <1>11 DEF SwitchFed, IsEdit, ServingInv
  <2>8. publication.at = "free" => d = device
    BY <2>0, <2>7 DEF FreshInv
  <2> QED BY <2>3, <2>4, <2>6, <2>7, <2>8 DEF FreshInv
<1>12. CASE SwitchServed
  <2>1. edit'.at = "served"
    BY <1>0, <1>12 DEF SwitchServed, IsEdit
  <2> QED BY <1>12, <2>1, FreshSame DEF SwitchServed
<1>13. CASE AdoptBank
  BY <1>13, NoEditIs, FreshSame DEF AdoptBank
<1>14. CASE ReloadMappingsFails
  <2>1. edit'.at \in {"none", "undoing"}
    BY <1>0, <1>14, NoEditIs DEF ReloadMappingsFails, IsEdit
  <2> QED BY <1>14, <2>1, FreshSame DEF ReloadMappingsFails
<1>15. CASE UndoMapping
  <2>1. edit'.at \in {"none", "saved"}
    BY <1>0, <1>15, NoEditIs DEF UndoMapping, IsEdit
  <2> QED BY <1>15, <2>1, FreshSame DEF UndoMapping
<1>16. CASE StopServer
  <2>1. edit'.at = "stopped"
    BY <1>16, NoEditIs DEF StopServer, IsEdit
  <2> QED BY <1>16, <2>1, FreshSame DEF StopServer, BanksAlone
<1>17. CASE StartServer
  <2>1. edit'.at \in {"none", "stopped"}
    BY <1>0, <1>17, NoEditIs DEF StartServer, IsEdit
  <2> QED BY <1>17, <2>1, FreshSame DEF StartServer, BanksAlone
<1>18. CASE ServerDies
  BY <1>18, FreshSame DEF ServerDies, BanksAlone
<1>19. CASE AnswerRequest
  BY <1>19, FreshSame DEF AnswerRequest, BanksAlone
<1>20. CASE UNCHANGED servingVars
  BY <1>20, FreshSame DEF servingVars
<1> QED
  BY <1>1, <1>2, <1>3, <1>4, <1>5, <1>6, <1>7, <1>8, <1>9, <1>10, <1>11, <1>12, <1>13, <1>14,
     <1>15, <1>16, <1>17, <1>18, <1>19, <1>20 DEF ServingNext

(* While nobody publishes and no bank is exchanged, the server answers from*)
(* the registers that are fed, and these have the quality and the value of *)
(* every point exported (feed and the exchange under update_mutex_).       *)
THEOREM ServedStaysPublished == ServingSpec => []ServedIsPublished
<1>1. ServingInit => ServingInv /\ FreshInv
  BY ServingStart, FreshStart
<1>2. ServingInv /\ FreshInv /\ [ServingNext]_servingVars => (ServingInv /\ FreshInv)'
  BY ServingStep, FreshStep
<1>3. ServingInv /\ FreshInv => ServedIsPublished
  BY DEF ServingInv, FreshInv, Fits, ServedIsPublished
<1> QED BY <1>1, <1>2, <1>3, PTL DEF ServingSpec

-----------------------------------------------------------------------------
(* The value of a mapping never goes back from a bank to a later one that  *)
(* converts it the same way, and none is ahead of what was published or,   *)
(* while a bank is built, of the snapshot it is built from.                *)
SameConv(a, n, m) == \A b \in a .. n : banks[b].forms[m].conv = banks[a].forms[m].conv

ForwardInv ==
  /\ edit.snapshot.v <= device.v
  /\ \A n \in 1 .. fed, m \in Mappings : banks[n].value[m].v <= device.v
  /\ edit.at = "building" => \A m \in Mappings : banks[fed].value[m].v <= edit.snapshot.v
  /\ \A n \in 1 .. fed : \A a \in 1 .. n : \A m \in InUse(banks[a].forms) :
       SameConv(a, n, m) => banks[a].value[m].v <= banks[n].value[m].v

(* An answer is of a bank no later than the one that is served, and has    *)
(* nothing that this bank does not have by now.                            *)
Registered == [value : Value, quality : Kinds]
Answers == [bank : Nat, registers : UNION {[some -> Registered] : some \in SUBSET Mappings}]

AnswersInv ==
  /\ answers \in Seq(Answers)
  /\ \A i \in 1 .. Len(answers) :
       /\ answers[i].bank \in 1 .. served
       /\ \A m \in DOMAIN answers[i].registers :
            /\ m \in InUse(banks[answers[i].bank].forms)
            /\ answers[i].registers[m].value.v <= banks[answers[i].bank].value[m].v
  /\ \A j \in 1 .. Len(answers) : \A i \in 1 .. j - 1 : answers[i].bank <= answers[j].bank
  /\ AnswersGoForward

LEMMA InUseIn == ASSUME NEW f, NEW m \in InUse(f) PROVE m \in Mappings /\ f[m] # Absent
BY DEF InUse

LEMMA ValuesAreNat ==
  ASSUME ServingInv
  PROVE  /\ \A n \in 1 .. fed : banks[n] \in Banks
         /\ \A n \in 1 .. fed, m \in Mappings : banks[n].value[m].v \in Nat
         /\ device.v \in Nat /\ edit.snapshot.v \in Nat
<1>1. \A n \in 1 .. fed : banks[n] \in Banks
  BY DEF ServingInv
<1>2. device.v \in Nat /\ edit.snapshot.v \in Nat
  BY DEF ServingInv, IsDevice, IsEdit
<1> QED BY <1>1, <1>2, BankFields

LEMMA ForwardSame ==
  ASSUME ServingInv, ServingInv', ForwardInv, UNCHANGED <<banks, fed>>, device'.v >= device.v,
         \/ edit'.snapshot = edit.snapshot /\ (edit'.at = "building" => edit.at = "building")
         \/ edit'.snapshot.v = 0 /\ edit'.at # "building"
  PROVE  ForwardInv'
<1>1. /\ device.v \in Nat /\ edit.snapshot.v \in Nat /\ device'.v \in Nat /\ edit'.snapshot.v \in Nat
      /\ \A n \in 1 .. fed, m \in Mappings : banks[n].value[m].v \in Nat
  <2>1. device'.v \in Nat /\ edit'.snapshot.v \in Nat
    BY DEF ServingInv, IsDevice, IsEdit
  <2> QED BY <2>1, ValuesAreNat
<1> QED BY <1>1 DEF ForwardInv, SameConv

LEMMA ForwardStart == ServingInit => ForwardInv
<1> SUFFICES ASSUME ServingInit PROVE ForwardInv
  OBVIOUS
<1>1. PICK b : b = NewBank(table)
  OBVIOUS
<1>2. banks = <<b>> /\ fed = 1 /\ edit = NoEdit /\ device.v = 0
  BY <1>1 DEF ServingInit
<1>3. ASSUME NEW m \in Mappings PROVE b.value[m].v = 0
  BY <1>1, <1>3 DEF NewBank, NoValue
<1>4. \A n \in 1 .. fed : n = 1 /\ banks[n] = b
  BY <1>2
<1> QED BY <1>2, <1>3, <1>4, NoEditIs, InUseIn DEF ForwardInv

LEMMA ForwardStep == ServingInv /\ ForwardInv /\ [ServingNext]_servingVars => ForwardInv'
<1> SUFFICES ASSUME ServingInv, ForwardInv, [ServingNext]_servingVars PROVE ForwardInv'
  OBVIOUS
<1>a. ServingInv'
  BY ServingStep
<1>0. /\ banks \in Seq(Banks) /\ fed = Len(banks) /\ fed \in Nat /\ fed # 0
      /\ IsDevice(device) /\ IsEdit(edit) /\ IsPublication(publication)
      /\ \A n \in 1 .. fed, m \in Mappings : banks[n].value[m].v \in Nat
      /\ device.v \in Nat /\ edit.snapshot.v \in Nat
  <2>1. /\ banks \in Seq(Banks) /\ fed = Len(banks) /\ fed \in Nat /\ fed # 0
        /\ IsDevice(device) /\ IsEdit(edit) /\ IsPublication(publication)
    BY DEF ServingInv
  <2> QED BY <2>1, ValuesAreNat
<1>1. CASE PublishValues
  <2>1. device'.v = device.v + 1
    BY <1>1 DEF PublishValues
  <2> QED BY <1>0, <1>1, <1>a, <2>1, ForwardSame DEF PublishValues, ExportOnly
<1>2. CASE ExpireValues
  <2>1. device'.v = device.v
    BY <1>0, <1>2 DEF ExpireValues, IsDevice
  <2> QED BY <1>0, <1>2, <1>a, <2>1, ForwardSame DEF ExpireValues, ExportOnly
<1>3. CASE EmptyDevices
  <2>1. device'.v = device.v
    BY <1>0, <1>3 DEF EmptyDevices, IsDevice
  <2>2. UNCHANGED <<banks, fed, edit>>
    BY <1>3 DEF EmptyDevices, ExportOnly
  <2> QED BY <1>0, <1>a, <2>1, <2>2, ForwardSame
<1>4. CASE FeedBegin
  BY <1>0, <1>4, <1>a, ForwardSame DEF FeedBegin, ExportOnly
<1>5. CASE FeedEnd
  BY <1>0, <1>5, <1>a, ForwardSame DEF FeedEnd, ExportOnly
<1>6. ASSUME NEW m \in Mappings, MarkMissing(m) PROVE ForwardInv'
  <2>0. PICK b : b = banks[fed]
    OBVIOUS
  <2>1. PICK c : c = [b EXCEPT !.quality[m] = "target missing"]
    OBVIOUS
  <2>2. b \in Banks
    BY <1>0, <2>0
  <2>3. c.forms = b.forms /\ c.value = b.value
    BY <2>1, <2>2, MarkedBank
  <2>4. banks' = [banks EXCEPT ![fed] = c] /\ UNCHANGED <<device, fed, edit>>
    BY <1>0, <1>6, <2>0, <2>1 DEF MarkMissing, ExportOnly
  <2>5. \A n \in 1 .. fed : banks'[n].forms = banks[n].forms /\ banks'[n].value = banks[n].value
    BY <1>0, <2>0, <2>3, <2>4
  <2>6. \A n \in 1 .. fed : \A a \in 1 .. n : \A k : SameConv(a, n, k)' => SameConv(a, n, k)
    BY <1>0, <2>5 DEF SameConv
  <2> QED BY <1>0, <2>4, <2>5, <2>6 DEF ForwardInv
<1>7. ASSUME NEW m \in Mappings, FeedOne(m) PROVE ForwardInv'
  <2>0. PICK b, d : b = banks[fed] /\ d = device
    OBVIOUS
  <2>1. PICK c : c = Fed(b, m, d)
    OBVIOUS
  <2>2. b \in Banks /\ IsDevice(d)
    BY <1>0, <2>0
  <2>3. /\ c.forms = b.forms
        /\ c.value = [b.value EXCEPT ![m] =
             IF d.kind[m] = "good" THEN [conv |-> b.forms[m].conv, v |-> d.v] ELSE @]
    <3>1. c \in Banks /\ c.forms = b.forms
      BY <2>1, <2>2, FedIsBank
    <3>2. /\ Fed(b, m, d).quality = [b.quality EXCEPT ![m] = d.kind[m]]
          /\ Fed(b, m, d).value = [b.value EXCEPT ![m] =
               IF d.kind[m] = "good" THEN [conv |-> b.forms[m].conv, v |-> d.v] ELSE @]
      BY <2>2, FedParts
    <3> QED BY <2>1, <3>1, <3>2
  <2>4. banks' = [banks EXCEPT ![fed] = c] /\ UNCHANGED <<device, fed, edit>>
    BY <1>0, <1>7, <2>0, <2>1 DEF FeedOne, ExportOnly
  <2>5. b.value \in [Mappings -> Value]
    BY <2>2, BankFields
  <2>6. \A k \in Mappings : /\ b.value[k].v <= c.value[k].v /\ c.value[k].v <= d.v
                            /\ c.value[k].v \in Nat
    <3>1. \A k \in Mappings : b.value[k].v \in Nat /\ b.value[k].v <= d.v /\ d.v \in Nat
      BY <1>0, <2>0 DEF ForwardInv
    <3> QED BY <2>3, <2>5, <3>1
  <2>7. \A n \in 1 .. fed : banks'[n].forms = banks[n].forms
    BY <1>0, <2>0, <2>3, <2>4
  <2>8. \A n \in 1 .. fed : n # fed => banks'[n] = banks[n]
    BY <1>0, <2>4
  <2>9. banks'[fed] = c
    BY <1>0, <2>4
  <2>10. \A n \in 1 .. fed : \A a \in 1 .. n : \A k : SameConv(a, n, k)' => SameConv(a, n, k)
    BY <1>0, <2>7 DEF SameConv
  <2>11. edit.at # "building"
    BY <1>7 DEF FeedOne, ServingInv
  <2>12. ASSUME NEW n \in 1 .. fed, NEW a \in 1 .. n, NEW k \in InUse(banks'[a].forms),
                SameConv(a, n, k)'
         PROVE  banks'[a].value[k].v <= banks'[n].value[k].v
    <3>1. a \in 1 .. fed /\ k \in Mappings /\ k \in InUse(banks[a].forms) /\ SameConv(a, n, k)
      <4>1. a \in 1 .. fed
        BY <1>0
      <4>2. banks'[a].forms = banks[a].forms
        BY <2>7, <4>1
      <4>3. SameConv(a, n, k)
        BY <2>10, <2>12
      <4> QED BY <4>1, <4>2, <4>3, InUseIn
    <3>2. banks[a].value[k].v <= banks[n].value[k].v
      BY <3>1 DEF ForwardInv
    <3>3. CASE a = fed
      <4>1. a = n
        BY <1>0, <3>3
      <4> QED BY <2>6, <2>9, <3>1, <3>3, <4>1
    <3>4. CASE a # fed /\ n # fed
      BY <2>8, <3>1, <3>2, <3>4
    <3>5. CASE a # fed /\ n = fed
      <4>1. banks'[a] = banks[a]
        BY <2>8, <3>1, <3>5
      <4>2. banks[a].value[k].v \in Nat /\ b.value[k].v \in Nat
        BY <1>0, <2>0, <3>1
      <4> QED BY <2>0, <2>6, <2>9, <3>1, <3>2, <3>5, <4>1, <4>2
    <3> QED BY <3>3, <3>4, <3>5
  <2>13. ASSUME NEW n \in 1 .. fed, NEW k \in Mappings PROVE banks'[n].value[k].v <= device'.v
    BY <2>0, <2>4, <2>6, <2>8, <2>9 DEF ForwardInv
  <2> QED BY <2>4, <2>11, <2>12, <2>13 DEF ForwardInv
<1>8. CASE SaveMapping
  <2>1. edit'.at = "saved" /\ edit'.snapshot.v = 0
    BY <1>8, NoEditIs DEF SaveMapping, IsEdit
  <2> QED BY <1>0, <1>8, <1>a, <2>1, ForwardSame DEF SaveMapping
<1>9. CASE LoadMappings
  <2>1. edit'.at = "loaded" /\ edit'.snapshot = edit.snapshot
    BY <1>0, <1>9 DEF LoadMappings, IsEdit
  <2> QED BY <1>0, <1>9, <1>a, <2>1, ForwardSame DEF LoadMappings
<1>10. CASE TakeSnapshot
  <2>1. edit'.snapshot = device
    BY <1>0, <1>10 DEF TakeSnapshot, IsEdit
  <2>2. UNCHANGED <<banks, fed, device>>
    BY <1>10 DEF TakeSnapshot
  <2>3. \A m \in Mappings : banks[fed].value[m].v <= device.v
    BY <1>0 DEF ForwardInv
  <2> QED BY <1>0, <2>1, <2>2, <2>3 DEF ForwardInv, SameConv
<1>11. CASE SwitchFed
  <2>0. PICK f, b, d : f = edit.forms /\ b = banks[fed] /\ d = edit.snapshot
    OBVIOUS
  <2>1. PICK c : c = Built(f, b, d)
    OBVIOUS
  <2>2. b \in Banks /\ f \in Forms /\ IsDevice(d)
    BY <1>0, <2>0 DEF IsEdit
  <2>3. /\ c.forms = f
        /\ \A m \in Mappings :
             c.value[m] = IF m \in Enabled(f) /\ d.kind[m] = "good"
                          THEN [conv |-> f[m].conv, v |-> d.v]
                          ELSE IF Carries(m, b, f) THEN b.value[m] ELSE NoValue
    BY <2>1, <2>2, BuiltBank
  <2>4. banks' = Append(banks, c) /\ fed' = fed + 1
    BY <1>0, <1>11, <2>0, <2>1 DEF SwitchFed
  <2>5. banks'[fed'] = c /\ \A n \in 1 .. fed : banks'[n] = banks[n]
    BY <1>0, <2>4
  <2>6. /\ edit.at = "building" /\ edit'.at = "fed" /\ edit'.snapshot = edit.snapshot
        /\ device' = device
    BY <1>0, <1>11 DEF SwitchFed, IsEdit
  <2>7. \A m \in Mappings : /\ b.value[m].v \in Nat /\ b.value[m].v <= d.v
                            /\ d.v \in Nat /\ d.v <= device.v
    BY <1>0, <2>0, <2>6 DEF ForwardInv
  <2>a. ASSUME NEW m \in Mappings
        PROVE  /\ c.value[m].v \in Nat /\ c.value[m].v <= d.v
               /\ Carries(m, b, f) => b.value[m].v <= c.value[m].v
    <3>1. /\ b.value[m].v \in Nat /\ b.value[m].v <= d.v /\ d.v \in Nat
      BY <2>7
    <3>2. \/ c.value[m] = [conv |-> f[m].conv, v |-> d.v]
          \/ c.value[m] = b.value[m]
          \/ c.value[m] = NoValue /\ ~Carries(m, b, f)
      BY <2>3
    <3>3. CASE c.value[m] = [conv |-> f[m].conv, v |-> d.v]
      <4>1. c.value[m].v = d.v
        BY <3>3
      <4> QED BY <3>1, <4>1
    <3>4. CASE c.value[m] = b.value[m]
      BY <3>1, <3>4
    <3>5. CASE c.value[m] = NoValue /\ ~Carries(m, b, f)
      <4>1. c.value[m].v = 0
        BY <3>5 DEF NoValue
      <4> QED BY <3>1, <3>5, <4>1
    <3> QED BY <3>2, <3>3, <3>4, <3>5
  <2>8. \A m \in Mappings : c.value[m].v \in Nat /\ c.value[m].v <= d.v
    BY <2>a
  <2>9. ASSUME NEW m \in Mappings, Carries(m, b, f) PROVE b.value[m].v <= c.value[m].v
    BY <2>9, <2>a
  <2>10. ASSUME NEW n \in 1 .. fed', NEW k \in Mappings PROVE banks'[n].value[k].v <= device'.v
    <3>1. CASE n = fed'
      BY <1>0, <2>5, <2>6, <2>7, <2>8, <3>1
    <3>2. CASE n \in 1 .. fed
      BY <2>5, <2>6, <3>2 DEF ForwardInv
    <3> QED BY <1>0, <2>4, <3>1, <3>2
  <2>11. ASSUME NEW n \in 1 .. fed', NEW a \in 1 .. n, NEW m \in InUse(banks'[a].forms),
                SameConv(a, n, m)'
         PROVE  banks'[a].value[m].v <= banks'[n].value[m].v
    <3>0. m \in Mappings
      BY InUseIn
    <3>1. CASE n \in 1 .. fed
      <4>1. a \in 1 .. fed /\ banks'[a] = banks[a] /\ banks'[n] = banks[n]
        BY <1>0, <2>5, <3>1
      <4>2. SameConv(a, n, m)
        BY <1>0, <2>5, <2>11, <3>1, <4>1 DEF SameConv
      <4> QED BY <2>11, <3>1, <4>1, <4>2 DEF ForwardInv
    <3>2. CASE n = fed' /\ a = fed'
      BY <2>5, <2>8, <3>0, <3>2
    <3>3. CASE n = fed' /\ a \in 1 .. fed
      <4>1. banks'[a] = banks[a] /\ banks'[fed] = b
        BY <1>0, <2>0, <2>5, <3>3
      <4>2. \A k \in a .. fed : banks[k].forms[m].conv = banks[a].forms[m].conv
        <5> TAKE k \in a .. fed
        <5>1. k \in a .. n /\ k \in 1 .. fed
          BY <1>0, <2>4, <3>3
        <5> QED BY <2>5, <2>11, <4>1, <5>1 DEF SameConv
      <4>3. SameConv(a, fed, m)
        BY <4>2 DEF SameConv
      <4>4. banks[a].value[m].v <= b.value[m].v
        BY <1>0, <2>0, <2>11, <3>3, <4>1, <4>3 DEF ForwardInv
      <4>5. c.forms[m].conv = banks[a].forms[m].conv
        <5>1. fed' \in a .. n
          BY <1>0, <2>4, <3>3
        <5> QED BY <2>5, <2>11, <4>1, <5>1 DEF SameConv
      <4>6. b.forms[m].conv = banks[a].forms[m].conv
        BY <1>0, <2>0, <3>3, <4>2
      <4>7. /\ banks[a].forms[m] \in Form /\ banks[a].forms[m] # Absent
            /\ b.forms[m] \in Form /\ f[m] \in Form
        <5>1. banks[a] \in Banks
          BY <1>0, <3>3
        <5>2. banks[a].forms \in Forms /\ b.forms \in Forms
          BY <2>2, <5>1, BankFields
        <5> QED BY <2>2, <2>11, <3>0, <4>1, <5>2, InUseIn DEF Forms
      <4>8. Carries(m, b, f)
        BY <2>3, <4>5, <4>6, <4>7, FormFields DEF Carries
      <4>9. b.value[m].v <= c.value[m].v
        BY <2>9, <3>0, <4>8
      <4>10. banks[a].value[m].v \in Nat
        BY <1>0, <3>0, <3>3
      <4> QED BY <2>5, <2>7, <2>8, <3>0, <3>3, <4>1, <4>4, <4>9, <4>10
    <3> QED BY <1>0, <2>4, <3>1, <3>2, <3>3
  <2> QED BY <1>0, <2>6, <2>10, <2>11 DEF ForwardInv
<1>12. CASE SwitchServed
  <2>1. edit'.at = "served" /\ edit'.snapshot = edit.snapshot
    BY <1>0, <1>12 DEF SwitchServed, IsEdit
  <2> QED BY <1>0, <1>12, <1>a, <2>1, ForwardSame DEF SwitchServed
<1>13. CASE AdoptBank
  BY <1>0, <1>13, <1>a, NoEditIs, ForwardSame DEF AdoptBank
<1>14. CASE ReloadMappingsFails
  <2>1. \/ edit' = NoEdit
        \/ edit'.at = "undoing" /\ edit'.snapshot = edit.snapshot
    BY <1>0, <1>14 DEF ReloadMappingsFails, IsEdit
  <2> QED BY <1>0, <1>14, <1>a, <2>1, NoEditIs, ForwardSame DEF ReloadMappingsFails
<1>15. CASE UndoMapping
  <2>1. \/ edit' = NoEdit
        \/ edit'.at = "saved" /\ edit'.snapshot = edit.snapshot
    BY <1>0, <1>15 DEF UndoMapping, IsEdit
  <2> QED BY <1>0, <1>15, <1>a, <2>1, NoEditIs, ForwardSame DEF UndoMapping
<1>16. CASE StopServer
  <2>1. edit'.at = "stopped" /\ edit'.snapshot.v = 0
    BY <1>16, NoEditIs DEF StopServer, IsEdit
  <2> QED BY <1>0, <1>16, <1>a, <2>1, ForwardSame DEF StopServer, BanksAlone
<1>17. CASE StartServer
  <2>1. \/ edit' = NoEdit
        \/ edit'.at = "stopped" /\ edit'.snapshot = edit.snapshot
    BY <1>0, <1>17 DEF StartServer, IsEdit
  <2> QED BY <1>0, <1>17, <1>a, <2>1, NoEditIs, ForwardSame DEF StartServer, BanksAlone
<1>18. CASE ServerDies
  BY <1>0, <1>18, <1>a, ForwardSame DEF ServerDies, BanksAlone
<1>19. CASE AnswerRequest
  BY <1>0, <1>19, <1>a, ForwardSame DEF AnswerRequest, BanksAlone
<1>20. CASE UNCHANGED servingVars
  BY <1>0, <1>20, <1>a, ForwardSame DEF servingVars
<1> QED
  BY <1>1, <1>2, <1>3, <1>4, <1>5, <1>6, <1>7, <1>8, <1>9, <1>10, <1>11, <1>12, <1>13, <1>14,
     <1>15, <1>16, <1>17, <1>18, <1>19, <1>20 DEF ServingNext

LEMMA AnswersGrow ==
  ASSUME ServingInv, AnswersInv, UNCHANGED answers, served' \in Nat, served' >= served,
         \A n \in 1 .. fed : banks'[n].forms = banks[n].forms,
         \A n \in 1 .. fed, m \in Mappings :
           banks'[n].value[m].v \in Nat /\ banks[n].value[m].v <= banks'[n].value[m].v
  PROVE  AnswersInv'
<1>1. served \in Nat /\ fed \in Nat /\ served <= fed
  BY DEF ServingInv
<1>2. ASSUME NEW i \in 1 .. Len(answers)
      PROVE  answers[i].bank \in 1 .. served' /\ answers[i].bank \in 1 .. fed
  BY <1>1 DEF AnswersInv
<1>3. ASSUME NEW i \in 1 .. Len(answers), NEW m \in DOMAIN answers[i].registers
      PROVE  /\ m \in InUse(banks'[answers[i].bank].forms)
             /\ answers[i].registers[m].value.v <= banks'[answers[i].bank].value[m].v
  <2>1. /\ m \in InUse(banks[answers[i].bank].forms)
        /\ answers[i].registers[m].value.v <= banks[answers[i].bank].value[m].v
    BY DEF AnswersInv
  <2>2. m \in Mappings /\ m \in InUse(banks'[answers[i].bank].forms)
    BY <1>2, <2>1, InUseIn
  <2>3. banks[answers[i].bank].value[m].v <= banks'[answers[i].bank].value[m].v
    BY <1>2, <2>2
  <2>4. /\ banks[answers[i].bank].value[m].v \in Nat /\ banks'[answers[i].bank].value[m].v \in Nat
    BY <1>2, <2>2, ValuesAreNat
  <2>5. answers[i].registers[m].value.v \in Nat
    <3>1. answers[i] \in Answers
      BY DEF AnswersInv
    <3>2. PICK some \in SUBSET Mappings : answers[i].registers \in [some -> Registered]
      BY <3>1 DEF Answers
    <3>3. answers[i].registers[m] \in Registered
      BY <3>2
    <3> QED BY <3>3 DEF Registered, Value
  <2> QED BY <2>1, <2>2, <2>3, <2>4, <2>5
<1>4. AnswersGoForward'
  <2> SUFFICES ASSUME NEW j \in DOMAIN answers, NEW i \in 1 .. j - 1,
                      NEW m \in DOMAIN answers[i].registers \cap DOMAIN answers[j].registers,
                      \A b \in answers[i].bank .. answers[j].bank :
                        banks'[b].forms[m].conv = banks'[answers[i].bank].forms[m].conv
               PROVE  answers[i].registers[m].value.v <= answers[j].registers[m].value.v
    BY DEF AnswersGoForward
  <2>1. i \in 1 .. Len(answers) /\ j \in 1 .. Len(answers)
    BY DEF AnswersInv
  <2>2. answers[i].bank \in 1 .. fed /\ answers[j].bank \in 1 .. fed
    BY <1>2, <2>1
  <2>3. \A b \in answers[i].bank .. answers[j].bank :
          banks[b].forms[m].conv = banks[answers[i].bank].forms[m].conv
    <3> TAKE b \in answers[i].bank .. answers[j].bank
    <3>1. b \in 1 .. fed
      BY <1>1, <2>2
    <3> QED BY <2>2, <3>1
  <2> QED BY <2>3 DEF AnswersInv, AnswersGoForward
<1> QED BY <1>2, <1>3, <1>4 DEF AnswersInv

LEMMA AnswersStart == ServingInit => AnswersInv
<1> SUFFICES ASSUME ServingInit PROVE AnswersInv
  OBVIOUS
<1>1. answers = <<>>
  BY DEF ServingInit
<1> QED BY <1>1 DEF AnswersInv, AnswersGoForward

(* A step either answers or leaves the answers, and then no bank changes   *)
(* its mappings or goes back, and no older one is served.                  *)
LEMMA BanksGrow ==
  ASSUME ServingInv, ForwardInv, [ServingNext]_servingVars
  PROVE  \/ AnswerRequest
         \/ /\ UNCHANGED answers /\ served' \in Nat /\ served' >= served
            /\ \A n \in 1 .. fed : banks'[n].forms = banks[n].forms
            /\ \A n \in 1 .. fed, m \in Mappings :
                 banks'[n].value[m].v \in Nat /\ banks[n].value[m].v <= banks'[n].value[m].v
<1>0. /\ banks \in Seq(Banks) /\ fed = Len(banks) /\ fed \in Nat /\ fed # 0 /\ served \in 1 .. fed
      /\ IsDevice(device)
      /\ \A n \in 1 .. fed, m \in Mappings : banks[n].value[m].v \in Nat
      /\ device.v \in Nat
  <2>1. /\ banks \in Seq(Banks) /\ fed = Len(banks) /\ fed \in Nat /\ fed # 0 /\ served \in 1 .. fed
        /\ IsDevice(device)
    BY DEF ServingInv
  <2> QED BY <2>1, ValuesAreNat
<1>1. CASE UNCHANGED <<banks, answers>> /\ served' = served
  BY <1>0, <1>1
<1>2. CASE UNCHANGED <<banks, answers>> /\ served' = fed
  BY <1>0, <1>2
<1>3. CASE SwitchFed
  <2>1. PICK c : banks' = Append(banks, c)
    BY <1>3 DEF SwitchFed
  <2>2. \A n \in 1 .. fed : banks'[n] = banks[n]
    BY <1>0, <2>1
  <2>3. served' = served /\ UNCHANGED answers
    BY <1>3 DEF SwitchFed, ServerAlone
  <2>4. \A n \in 1 .. fed, m \in Mappings :
          banks'[n].value[m].v \in Nat /\ banks[n].value[m].v <= banks'[n].value[m].v
    BY <1>0, <2>2
  <2> QED BY <1>0, <2>2, <2>3, <2>4
<1>4. ASSUME NEW c \in Banks, banks' = [banks EXCEPT ![fed] = c], c.forms = banks[fed].forms,
             \A m \in Mappings : banks[fed].value[m].v <= c.value[m].v,
             UNCHANGED <<served, answers>>
      PROVE  /\ UNCHANGED answers /\ served' \in Nat /\ served' >= served
             /\ \A n \in 1 .. fed : banks'[n].forms = banks[n].forms
             /\ \A n \in 1 .. fed, m \in Mappings :
                  banks'[n].value[m].v \in Nat /\ banks[n].value[m].v <= banks'[n].value[m].v
  <2>1. banks'[fed] = c /\ \A n \in 1 .. fed : n # fed => banks'[n] = banks[n]
    BY <1>0, <1>4
  <2>2. \A m \in Mappings : c.value[m].v \in Nat
    BY <1>4, BankFields
  <2>3. ASSUME NEW n \in 1 .. fed, NEW m \in Mappings
        PROVE  banks'[n].value[m].v \in Nat /\ banks[n].value[m].v <= banks'[n].value[m].v
    <3>1. CASE n = fed
      BY <1>4, <2>1, <2>2, <3>1
    <3>2. CASE n # fed
      <4>1. banks'[n] = banks[n] /\ banks[n].value[m].v \in Nat
        BY <1>0, <2>1, <3>2
      <4> QED BY <4>1
    <3> QED BY <3>1, <3>2
  <2> QED BY <1>0, <1>4, <2>1, <2>3
<1>5. ASSUME NEW m \in Mappings, MarkMissing(m)
      PROVE  \E c \in Banks : /\ banks' = [banks EXCEPT ![fed] = c] /\ c.forms = banks[fed].forms
                              /\ \A k \in Mappings : banks[fed].value[k].v <= c.value[k].v
                              /\ UNCHANGED <<served, answers>>
  <2>0. PICK b : b = banks[fed]
    OBVIOUS
  <2>1. PICK c : c = [b EXCEPT !.quality[m] = "target missing"]
    OBVIOUS
  <2>2. b \in Banks
    BY <1>0, <2>0
  <2>3. c \in Banks /\ c.forms = b.forms /\ c.value = b.value
    BY <2>1, <2>2, MarkedBank
  <2>4. banks' = [banks EXCEPT ![fed] = c] /\ UNCHANGED <<served, answers>>
    BY <1>0, <1>5, <2>0, <2>1 DEF MarkMissing, ExportOnly
  <2>5. \A k \in Mappings : banks[fed].value[k].v <= c.value[k].v
    BY <1>0, <2>0, <2>3
  <2> QED BY <2>0, <2>3, <2>4, <2>5
<1>6. ASSUME NEW m \in Mappings, FeedOne(m)
      PROVE  \E c \in Banks : /\ banks' = [banks EXCEPT ![fed] = c] /\ c.forms = banks[fed].forms
                              /\ \A k \in Mappings : banks[fed].value[k].v <= c.value[k].v
                              /\ UNCHANGED <<served, answers>>
  <2>0. PICK b, d : b = banks[fed] /\ d = device
    OBVIOUS
  <2>1. PICK c : c = Fed(b, m, d)
    OBVIOUS
  <2>2. b \in Banks /\ IsDevice(d)
    BY <1>0, <2>0
  <2>3. c \in Banks /\ c.forms = b.forms
    BY <2>1, <2>2, FedIsBank
  <2>4. c.value = [b.value EXCEPT ![m] =
             IF d.kind[m] = "good" THEN [conv |-> b.forms[m].conv, v |-> d.v] ELSE @]
    <3>1. /\ Fed(b, m, d).quality = [b.quality EXCEPT ![m] = d.kind[m]]
          /\ Fed(b, m, d).value = [b.value EXCEPT ![m] =
               IF d.kind[m] = "good" THEN [conv |-> b.forms[m].conv, v |-> d.v] ELSE @]
      BY <2>2, FedParts
    <3> QED BY <2>1, <3>1
  <2>5. banks' = [banks EXCEPT ![fed] = c] /\ UNCHANGED <<served, answers>>
    BY <1>0, <1>6, <2>0, <2>1 DEF FeedOne, ExportOnly
  <2>6. \A k \in Mappings : b.value[k].v <= c.value[k].v
    <3>1. b.value \in [Mappings -> Value]
      BY <2>2, BankFields
    <3>2. \A k \in Mappings : b.value[k].v \in Nat /\ b.value[k].v <= d.v /\ d.v \in Nat
      BY <1>0, <2>0 DEF ForwardInv
    <3> QED BY <2>4, <3>1, <3>2
  <2> QED BY <2>0, <2>3, <2>5, <2>6
<1>7. ASSUME NEW m \in Mappings, MarkMissing(m) \/ FeedOne(m)
      PROVE  /\ UNCHANGED answers /\ served' \in Nat /\ served' >= served
             /\ \A n \in 1 .. fed : banks'[n].forms = banks[n].forms
             /\ \A n \in 1 .. fed, k \in Mappings :
                  banks'[n].value[k].v \in Nat /\ banks[n].value[k].v <= banks'[n].value[k].v
  <2>1. PICK c \in Banks : /\ banks' = [banks EXCEPT ![fed] = c] /\ c.forms = banks[fed].forms
                           /\ \A k \in Mappings : banks[fed].value[k].v <= c.value[k].v
                           /\ UNCHANGED <<served, answers>>
    BY <1>5, <1>6, <1>7
  <2> QED BY <1>4, <2>1
<1>8. CASE PublishValues \/ ExpireValues \/ EmptyDevices
  BY <1>1, <1>8 DEF PublishValues, ExpireValues, EmptyDevices, ExportOnly
<1>9. CASE FeedBegin \/ FeedEnd
  BY <1>1, <1>9 DEF FeedBegin, FeedEnd, ExportOnly
<1>10. CASE SaveMapping \/ LoadMappings \/ TakeSnapshot \/ AdoptBank \/ ReloadMappingsFails \/ UndoMapping
  BY <1>1, <1>10
     DEF SaveMapping, LoadMappings, TakeSnapshot, AdoptBank, ReloadMappingsFails, UndoMapping, ServerAlone
<1>11. CASE SwitchServed
  BY <1>2, <1>11 DEF SwitchServed, ServerAlone
<1>12. CASE StartServer
  <2>1. served' = fed /\ UNCHANGED <<banks, answers>>
    BY <1>12 DEF StartServer, BanksAlone, ServingInv
  <2> QED BY <1>2, <2>1
<1>13. CASE StopServer \/ ServerDies
  BY <1>1, <1>13 DEF StopServer, ServerDies, BanksAlone
<1>14. CASE UNCHANGED servingVars
  BY <1>1, <1>14 DEF servingVars
<1> QED
  BY <1>3, <1>7, <1>8, <1>9, <1>10, <1>11, <1>12, <1>13, <1>14 DEF ServingNext

(* An answer has what the bank that is served has of mappings in use.      *)
LEMMA AnswerIs ==
  ASSUME NEW b \in Banks, NEW places, NEW r, r = Registers(b, places)
  PROVE  /\ \E some \in SUBSET Mappings : r \in [some -> Registered]
         /\ \A m \in DOMAIN r : m \in InUse(b.forms) /\ m \in Mappings /\ r[m].value = b.value[m]
<1> DEFINE used == {b.forms[m].cell : m \in InUse(b.forms)}
           some == {n \in InUse(b.forms) : b.forms[n].cell \in places /\ places \subseteq used}
<1>1. r = [m \in some |-> [value |-> b.value[m], quality |-> b.quality[m]]]
  BY DEF Registers
<1>2. some \subseteq InUse(b.forms) /\ some \subseteq Mappings
  BY DEF InUse
<1>3. b.value \in [Mappings -> Value] /\ b.quality \in [Mappings -> Kinds]
  BY BankFields
<1> HIDE DEF some
<1>4. \A m \in some : [value |-> b.value[m], quality |-> b.quality[m]] \in Registered
  BY <1>2, <1>3 DEF Registered
<1>5. r \in [some -> Registered] /\ DOMAIN r = some
  BY <1>1, <1>4
<1>6. \A m \in some : r[m].value = b.value[m]
  BY <1>1
<1> QED BY <1>2, <1>5, <1>6

LEMMA AnswersStep ==
  ServingInv /\ ForwardInv /\ AnswersInv /\ [ServingNext]_servingVars => AnswersInv'
<1> SUFFICES ASSUME ServingInv, ForwardInv, AnswersInv, [ServingNext]_servingVars PROVE AnswersInv'
  OBVIOUS
<1>1. CASE ~AnswerRequest
  BY <1>1, BanksGrow, AnswersGrow
<1>2. CASE AnswerRequest
  <2>0. PICK b : b = banks[served]
    OBVIOUS
  <2>1. PICK places \in SUBSET Cells \ {{}} :
          answers' = Append(answers, [bank |-> served, registers |-> Registers(b, places)])
    BY <1>2, <2>0 DEF AnswerRequest
  <2>2. PICK r : r = Registers(b, places)
    OBVIOUS
  <2>3. b \in Banks /\ served \in Nat /\ served \in 1 .. fed /\ fed \in Nat
    BY <2>0 DEF ServingInv
  <2>4. PICK some \in SUBSET Mappings : r \in [some -> Registered]
    BY <2>2, <2>3, AnswerIs
  <2>5. \A m \in DOMAIN r : m \in InUse(b.forms) /\ m \in Mappings /\ r[m].value = b.value[m]
    BY <2>2, <2>3, AnswerIs
  <2>6. PICK a : a = [bank |-> served, registers |-> r]
    OBVIOUS
  <2>7. a \in Answers /\ a.bank = served /\ a.registers = r
    BY <2>3, <2>4, <2>6 DEF Answers
  <2>8. answers' = Append(answers, a) /\ answers \in Seq(Answers)
    BY <2>1, <2>2, <2>6 DEF AnswersInv
  <2> DEFINE n == Len(answers)
  <2>9. /\ answers' \in Seq(Answers) /\ n \in Nat /\ Len(answers') = n + 1 /\ answers'[n + 1] = a
        /\ \A i \in 1 .. n : answers'[i] = answers[i]
    BY <2>7, <2>8
  <2>10. UNCHANGED <<banks, served>>
    BY <1>2 DEF AnswerRequest, BanksAlone
  <2> HIDE DEF n
  <2>11. \A i \in 1 .. n : answers[i].bank \in 1 .. served
    BY DEF AnswersInv, n
  <2>12. ASSUME NEW i \in 1 .. n + 1
         PROVE  /\ answers'[i].bank \in 1 .. served
                /\ \A m \in DOMAIN answers'[i].registers :
                     /\ m \in InUse(banks[answers'[i].bank].forms)
                     /\ answers'[i].registers[m].value.v <= banks[answers'[i].bank].value[m].v
    <3>1. CASE i = n + 1
      <4>1. \A m \in DOMAIN r : r[m].value.v <= b.value[m].v
        <5>1. \A m \in Mappings : b.value[m].v \in Nat
          BY <2>3, BankFields
        <5> QED BY <2>5, <5>1
      <4> QED BY <2>0, <2>3, <2>5, <2>7, <2>9, <3>1, <4>1
    <3>2. CASE i \in 1 .. n
      BY <2>9, <3>2 DEF AnswersInv, n
    <3> QED BY <2>9, <3>1, <3>2
  <2>13. ASSUME NEW j \in 1 .. n + 1, NEW i \in 1 .. j - 1
         PROVE  answers'[i].bank <= answers'[j].bank
    <3>1. i \in 1 .. n /\ answers'[i] = answers[i]
      BY <2>9
    <3>2. CASE j = n + 1
      BY <2>3, <2>7, <2>9, <2>11, <3>1, <3>2
    <3>3. CASE j \in 1 .. n
      BY <2>9, <3>1, <3>3 DEF AnswersInv, n
    <3> QED BY <2>9, <3>2, <3>3
  <2>14. AnswersGoForward'
    <3> SUFFICES ASSUME NEW j \in 1 .. n + 1, NEW i \in 1 .. j - 1,
                        NEW m \in DOMAIN answers'[i].registers \cap DOMAIN answers'[j].registers,
                        \A k \in answers'[i].bank .. answers'[j].bank :
                          banks[k].forms[m].conv = banks[answers'[i].bank].forms[m].conv
                 PROVE  answers'[i].registers[m].value.v <= answers'[j].registers[m].value.v
      <4>1. DOMAIN answers' = 1 .. n + 1
        BY <2>9
      <4> QED BY <2>10, <4>1 DEF AnswersGoForward
    <3>1. i \in 1 .. n /\ answers'[i] = answers[i]
      BY <2>9
    <3>2. CASE j \in 1 .. n
      <4>1. answers'[j] = answers[j] /\ j \in DOMAIN answers
        BY <2>8, <2>9, <3>2 DEF n
      <4> QED BY <3>1, <4>1 DEF AnswersInv, AnswersGoForward
    <3>3. CASE j = n + 1
      <4>1. answers'[j].bank = served /\ answers'[j].registers = r
        BY <2>7, <2>9, <3>3
      <4>2. PICK h : h = answers[i].bank
        OBVIOUS
      <4>3. /\ h \in 1 .. served /\ m \in InUse(banks[h].forms)
            /\ answers[i].registers[m].value.v <= banks[h].value[m].v
        BY <3>1, <4>2 DEF AnswersInv, n
      <4>4. SameConv(h, served, m)
        BY <3>1, <4>1, <4>2 DEF SameConv
      <4>5. banks[h].value[m].v <= banks[served].value[m].v
        BY <2>3, <4>3, <4>4 DEF ForwardInv
      <4>6. r[m].value.v = banks[served].value[m].v
        BY <2>0, <2>5, <4>1
      <4>7. m \in Mappings /\ h \in 1 .. fed
        BY <2>3, <4>3, InUseIn
      <4>8. banks[h].value[m].v \in Nat /\ banks[served].value[m].v \in Nat
        BY <2>3, <4>7, ValuesAreNat
      <4>9. answers[i].registers[m].value.v \in Nat
        <5>1. answers[i] \in Answers
          BY <2>8, <3>1 DEF n
        <5>2. PICK s \in SUBSET Mappings : answers[i].registers \in [s -> Registered]
          BY <5>1 DEF Answers
        <5>3. answers[i].registers[m] \in Registered
          BY <3>1, <5>2
        <5> QED BY <5>3 DEF Registered, Value
      <4> QED BY <3>1, <4>1, <4>3, <4>5, <4>6, <4>8, <4>9
    <3> QED BY <2>9, <3>2, <3>3
  <2> QED BY <2>9, <2>10, <2>12, <2>13, <2>14 DEF AnswersInv
<1> QED BY <1>1, <1>2

(* What clients read of a mapping never goes back, over an exchange of the *)
(* banks too, while it is converted the same way: the exchange carries last*)
(* values over and takes its snapshot under update_mutex_.                 *)
THEOREM AnswersKeepGoingForward == ServingSpec => []AnswersGoForward
<1>1. ServingInit => ServingInv /\ ForwardInv /\ AnswersInv
  BY ServingStart, ForwardStart, AnswersStart
<1>2. ServingInv /\ ForwardInv /\ AnswersInv /\ [ServingNext]_servingVars
        => (ServingInv /\ ForwardInv /\ AnswersInv)'
  BY ServingStep, ForwardStep, AnswersStep
<1>3. AnswersInv => AnswersGoForward
  BY DEF AnswersInv
<1> QED BY <1>1, <1>2, <1>3, PTL DEF ServingSpec
=============================================================================
