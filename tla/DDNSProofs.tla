----------------------------- MODULE DDNSProofs -----------------------------
(***************************************************************************)
(* Theorems about DDNS: what the rows and the DNS records of a name say of  *)
(* each other, whatever fails, whoever races, however many rows a name has  *)
(* and however much of the zone a list of it shows.                         *)
(***************************************************************************)
EXTENDS DDNS, FiniteSetTheorems, TLAPS

-----------------------------------------------------------------------------
(* The inductive invariant.                                                 *)

\* A thread in state s has begun to change something.
Changes(s) == s.pc \notin {"idle", "loop", "detect", "hung", "page"}

\* What a thread's own fields say of each other.
Formed(s) ==
  /\ s.pc \notin {"idle", "loop", "page"} => s.id # 0
  /\ Changes(s) => s.ip \in Addr \ {s.snap.cur}
  /\ s.pc = "putById" => s.snap.rid # 0
  /\ s.pc = "put" => s.rec # 0

ThreadsOK == th \in [Thread -> ThreadState] /\ \A t \in Thread : Formed(th[t])

\* The copies l that the updater has still to look at are of different rows,
\* none of which is i, the row it works on.
Fits(l, i) ==
  /\ l \subseteq [id : RowId, snap : Row]
  /\ \A e, f \in l : e.id = f.id => e = f
  /\ \A e \in l : e.id # i

ListOK == Fits(list, th[Updater].id)

DbOK == rows \subseteq RowId /\ row \in [RowId -> Row] /\ lastId \in 0..MaxRow

ZoneOK ==
  /\ cf \in [RecId -> Addr \cup {NoAddr}] /\ lastRec \in 0..MaxRec
  /\ \A r \in RecId : cf[r] # NoAddr => r <= lastRec

UsedOK ==
  used \in [move : 0..MaxMove, fault : 0..MaxFault,
            remote : 0..MaxRemote, req : 0..MaxReq]

HistOK == off \subseteq RowId /\ dirty \subseteq RowId /\ blind \in BOOLEAN

\* TypeOK by the variables it is about.
TInv ==
  ThreadsOK /\ ListOK /\ DbOK /\ ZoneOK /\ UsedOK /\ HistOK /\ addr \in Addr

\* Of two threads at work each knows that it races.
RaceInv ==
  \A t, u \in Thread : t # u /\ Busy(t) /\ Busy(u) => th[t].raced

\* What a thread in state s that has been alone since it began may count on,
\* where R is the set of rows, W their content and C the DNS records: the row
\* names the record its copy names; what it is going to write, or what the row
\* says once it has written, is what Cloudflare has.
Counts(s, R, W, C) ==
  /\ s.pc \in {"detect", "putById"} /\ s.id \in R =>
       W[s.id].rid = s.snap.rid
  /\ s.pc = "page" /\ s.snap.rid # 0 =>
       C[s.snap.rid] = s.snap.cur /\ s.snap.cur # NoAddr
  /\ s.pc = "post" /\ s.listed => \A r \in RecId : C[r] = NoAddr
  /\ s.pc = "saveRow" => s.snap.rid # 0 /\ C[s.snap.rid] = s.ip
  /\ s.pc = "saveIP" /\ ~s.refused /\ s.id \in R =>
       W[s.id].rid # 0 /\ C[W[s.id].rid] = s.ip

\* The updater may count on the copies it has still to look at as well.
Copies(l, R, W) == \A e \in l : e.id \in R => W[e.id].rid = e.snap.rid

AloneInv ==
  \A t \in Thread :
    Busy(t) /\ ~th[t].raced =>
      Counts(th[t], rows, row, cf) /\ (t = Updater => Copies(list, rows, row))

\* Row i says what its DNS record has.
Right(i) ==
  row[i].rid # 0 => cf[row[i].rid] = row[i].cur /\ row[i].cur # NoAddr

\* A row that is not dirty is right, or somebody is about to make it so.
TruthInv ==
  \A i \in rows \ dirty :
    Right(i) \/ \E t \in Thread : Changes(th[t]) /\ th[t].id = i

\* OneRecordPerName without the cardinality.
AtMostOne(b, C) ==
  ~b => \A r, q \in RecId : C[r] # NoAddr /\ C[q] # NoAddr => r = q

Inv == TInv /\ RaceInv /\ AloneInv /\ TruthInv /\ AtMostOne(blind, cf)

LEMMA Facts ==
  /\ MaxRow \in Nat /\ MaxRec \in Nat /\ MaxMove \in Nat /\ MaxFault \in Nat
  /\ MaxRemote \in Nat /\ MaxReq \in Nat /\ MaxRec > 0
  /\ NoAddr \notin Addr /\ Updater \notin Req /\ Updater \in Thread
  /\ RecId = 1..MaxRec /\ 1 \in RecId /\ RowId = 1..MaxRow
<1>1. {MaxRow, MaxRec, MaxMove, MaxFault, MaxRemote, MaxReq} \subseteq Nat
  BY DDNSAssumption
<1> QED
  BY <1>1, DDNSAssumption DEF RecId, RowId, Thread

LEMMA TypesFit == TInv => TypeOK
  BY DEF TInv, TypeOK, ThreadsOK, ListOK, Fits, DbOK, ZoneOK, UsedOK, HistOK,
     Formed, Changes

\* A thread that does nothing.
LEMMA IdleOK ==
  /\ IdleThread \in ThreadState /\ Formed(IdleThread)
  /\ IdleThread.pc = "idle" /\ IdleThread.id = 0
<1>1. MaxRow \in Nat /\ MaxRec \in Nat
  BY Facts
<1> QED
  BY <1>1 DEF IdleThread, ThreadState, Label, Row, BlankRow, Formed, Changes

\* A bound is used up by one.
LEMMA UseUpOK ==
  ASSUME UsedOK, NEW b, NEW max,
         <<b, max>> \in {<<"move", MaxMove>>, <<"fault", MaxFault>>,
                         <<"remote", MaxRemote>>, <<"req", MaxReq>>},
         UseUp(b, max)
  PROVE  UsedOK'
<1>1. MaxMove \in Nat /\ MaxFault \in Nat /\ MaxRemote \in Nat /\ MaxReq \in Nat
  BY Facts
<1>2. used' = [used EXCEPT ![b] = used[b] + 1] /\ used[b] < max
  BY DEF UseUp
<1>3. CASE b = "move" /\ max = MaxMove
  BY <1>1, <1>2, <1>3 DEF UsedOK
<1>4. CASE b = "fault" /\ max = MaxFault
  BY <1>1, <1>2, <1>4 DEF UsedOK
<1>5. CASE b = "remote" /\ max = MaxRemote
  BY <1>1, <1>2, <1>5 DEF UsedOK
<1>6. CASE b = "req" /\ max = MaxReq
  BY <1>1, <1>2, <1>6 DEF UsedOK
<1> QED
  BY <1>3, <1>4, <1>5, <1>6

\* What stays typed.
LEMMA Stays ==
  ASSUME TInv
  PROVE  /\ UNCHANGED db => DbOK'
         /\ UNCHANGED zone => ZoneOK'
         /\ UNCHANGED used => UsedOK'
         /\ UNCHANGED hist => HistOK'
  BY DEF TInv, DbOK, ZoneOK, UsedOK, HistOK, db, zone, hist

\* The threads after a step in which one that is at work goes on from what
\* it may count on, or stops.  What it writes can surprise only those that
\* race with it.
LEMMA GoOn ==
  ASSUME TInv, RaceInv, AloneInv, NEW t \in Thread, Busy(t),
         NEW s \in ThreadState, th' = [th EXCEPT ![t] = s], Formed(s),
         s.pc \notin {"idle", "hung"} =>
           /\ s.raced = th[t].raced
           /\ ~s.raced => /\ Counts(s, rows', row', cf')
                          /\ t = Updater => Copies(list', rows', row')
  PROVE  /\ ThreadsOK' /\ RaceInv' /\ AloneInv'
         /\ th'[t] = s /\ \A u \in Thread \ {t} : th'[u] = th[u]
<1>1. /\ th \in [Thread -> ThreadState]
      /\ \A u \in Thread : Formed(th[u])
  BY DEF TInv, ThreadsOK
<1>2. /\ th'[t] = s /\ \A u \in Thread \ {t} : th'[u] = th[u]
      /\ th' \in [Thread -> ThreadState]
  BY <1>1
<1>3. ASSUME NEW u \in Thread
      PROVE  Formed(th'[u])
  BY <1>1, <1>2
<1>4. ThreadsOK'
  BY <1>2, <1>3 DEF ThreadsOK, Formed, Changes
<1>5. ASSUME NEW u \in Thread, NEW v \in Thread, u # v, Busy(u)', Busy(v)'
      PROVE  th'[u].raced
  <2>1. Busy(u) /\ Busy(v)
    BY <1>2, <1>5 DEF Busy
  <2>2. th[u].raced
    BY <2>1, <1>5 DEF RaceInv
  <2> QED
    BY <2>2, <1>2, <1>5 DEF Busy
<1>6. RaceInv'
  BY <1>5 DEF RaceInv, Busy
<1>7. ASSUME NEW u \in Thread, Busy(u)', ~th'[u].raced
      PROVE  /\ Counts(th'[u], rows', row', cf')
             /\ u = Updater => Copies(list', rows', row')
  <2>1. CASE u = t
    BY <2>1, <1>2, <1>7 DEF Busy
  <2>2. CASE u # t
    <3>1. Busy(u) /\ ~th[u].raced
      BY <2>2, <1>2, <1>7 DEF Busy
    <3>2. th[u].raced
      BY <2>2, <3>1 DEF RaceInv
    <3> QED
      BY <3>1, <3>2
  <2> QED
    BY <2>1, <2>2
<1>8. AloneInv'
  BY <1>7 DEF AloneInv, Busy, Counts, Copies
<1> QED
  BY <1>2, <1>4, <1>6, <1>8

\* The threads after one begins to work.
LEMMA Begin ==
  ASSUME TInv, RaceInv, AloneInv, NEW t \in Thread, ~Busy(t),
         NEW s \in ThreadState, Enter(t, s), Formed(s),
         s.pc \notin {"idle", "hung"},
         ~s.raced => /\ Counts(s, rows, row, cf)
                     /\ t = Updater => Copies(list', rows, row),
         UNCHANGED <<rows, row, cf>>
  PROVE  /\ ThreadsOK' /\ RaceInv' /\ AloneInv'
         /\ th'[t].pc = s.pc /\ th'[t].id = s.id
         /\ \A u \in Thread \ {t} :
              th'[u].pc = th[u].pc /\ th'[u].id = th[u].id
<1> DEFINE others == {u \in Thread \ {t} : Busy(u)}
           r == s.raced \/ others # {}
<1>1. /\ th \in [Thread -> ThreadState]
      /\ \A u \in Thread : Formed(th[u])
  BY DEF TInv, ThreadsOK
<1>2. th' = [u \in Thread |->
               IF u = t THEN [s EXCEPT !.raced = r]
               ELSE IF u \in others THEN [th[u] EXCEPT !.raced = TRUE]
               ELSE th[u]]
  BY Zenon DEF Enter
<1>3. /\ th'[t] = [s EXCEPT !.raced = r]
      /\ \A u \in others : th'[u] = [th[u] EXCEPT !.raced = TRUE]
      /\ \A u \in Thread \ {t} : u \notin others => th'[u] = th[u]
  BY <1>2
<1>4. r \in BOOLEAN /\ others \subseteq Thread \ {t}
      /\ \A u \in Thread \ {t} : Busy(u) <=> u \in others
  OBVIOUS
<1>a. (s.raced => r) /\ (others # {} => r)
  OBVIOUS
<1>b. s.raced \in BOOLEAN
  BY DEF ThreadState
<1> HIDE DEF r, others
<1>5. th' \in [Thread -> ThreadState]
  <2>1. [s EXCEPT !.raced = r] \in ThreadState
    BY <1>4 DEF ThreadState
  <2>2. ASSUME NEW u \in others
        PROVE  [th[u] EXCEPT !.raced = TRUE] \in ThreadState
    BY <1>1, <1>4 DEF ThreadState
  <2> QED
    BY <1>1, <1>2, <2>1, <2>2
<1>6. ASSUME NEW x \in ThreadState, NEW b \in BOOLEAN, NEW y,
             y = [x EXCEPT !.raced = b]
      PROVE  /\ y.pc = x.pc /\ y.id = x.id /\ y.raced = b
             /\ Formed(x) => Formed(y)
             /\ Counts(x, rows, row, cf) => Counts(y, rows, row, cf)
  <2>1. /\ y.pc = x.pc /\ y.raced = b /\ y.id = x.id /\ y.snap = x.snap
        /\ y.ip = x.ip /\ y.rec = x.rec /\ y.listed = x.listed
        /\ y.refused = x.refused
    BY <1>6 DEF ThreadState
  <2> QED
    BY <2>1 DEF Formed, Counts, Changes
<1>7. /\ th'[t].pc = s.pc /\ th'[t].id = s.id /\ th'[t].raced = r
      /\ Formed(th'[t])
      /\ Counts(s, rows, row, cf) => Counts(th'[t], rows, row, cf)
  <2>1. PICK y : y = [s EXCEPT !.raced = r]
    OBVIOUS
  <2> QED
    BY <2>1, <1>3, <1>4, <1>6
<1>8. ASSUME NEW u \in others
      PROVE  /\ th'[u].pc = th[u].pc /\ th'[u].id = th[u].id
             /\ th'[u].raced /\ Formed(th'[u])
  <2>1. PICK y : y = [th[u] EXCEPT !.raced = TRUE]
    OBVIOUS
  <2>2. u \in Thread /\ th[u] \in ThreadState /\ Formed(th[u])
    BY <1>1, <1>4
  <2> QED
    BY <2>1, <2>2, <1>3, <1>6
<1>9. ThreadsOK'
  <2>1. ASSUME NEW u \in Thread
        PROVE  Formed(th'[u])
    BY <1>1, <1>3, <1>7, <1>8
  <2> QED
    BY <1>5, <2>1 DEF ThreadsOK, Formed, Changes
<1>10. \A u \in Thread \ {t} : th'[u].pc = th[u].pc /\ th'[u].id = th[u].id
  BY <1>3, <1>8
<1>11. ASSUME NEW u \in Thread, NEW v \in Thread, u # v, Busy(u)', Busy(v)'
       PROVE  th'[u].raced
  <2>1. CASE u = t
    <3>1. v \in others
      BY <2>1, <1>4, <1>10, <1>11 DEF Busy
    <3> QED
      BY <2>1, <3>1, <1>7, <1>a
  <2>2. CASE u # t
    BY <2>2, <1>4, <1>8, <1>10, <1>11 DEF Busy
  <2> QED
    BY <2>1, <2>2
<1>12. ASSUME NEW u \in Thread, Busy(u)', ~th'[u].raced
       PROVE  /\ Counts(th'[u], rows', row', cf')
              /\ u = Updater => Copies(list', rows', row')
  <2>1. CASE u = t
    <3>1. ~s.raced
      BY <2>1, <1>7, <1>12, <1>a
    <3> QED
      BY <2>1, <3>1, <1>7
  <2>2. CASE u # t
    BY <2>2, <1>4, <1>8, <1>10, <1>12 DEF Busy
  <2> QED
    BY <2>1, <2>2
<1>13. RaceInv' /\ AloneInv'
  BY <1>11, <1>12 DEF RaceInv, AloneInv, Busy, Counts, Copies
<1> QED
  BY <1>7, <1>9, <1>10, <1>13

-----------------------------------------------------------------------------
(* What the rows say.                                                       *)

\* Steps of threads that have changed nothing, and change nothing.
LEMMA SameTruth ==
  ASSUME TruthInv, UNCHANGED <<rows, row, cf, dirty>>,
         \A u \in Thread : Changes(th[u]) =>
           th'[u].pc = th[u].pc /\ th'[u].id = th[u].id
  PROVE  TruthInv'
<1> SUFFICES ASSUME NEW i \in rows \ dirty, ~Right(i)
             PROVE  \E u \in Thread : Changes(th'[u]) /\ th'[u].id = i
  BY DEF TruthInv, Right, Changes
<1>1. PICK u \in Thread : Changes(th[u]) /\ th[u].id = i
  BY DEF TruthInv
<1> QED
  BY <1>1 DEF Changes

\* A DNS record is written: the other rows it belongs to are dirty.
LEMMA OthersRight ==
  ASSUME TInv, NEW r \in RecId, NEW a, cf' = [cf EXCEPT ![r] = a],
         UNCHANGED <<rows, row>>, NEW k,
         dirty \subseteq dirty', Owners(r, k) \subseteq dirty',
         NEW i \in rows' \ dirty', i # k
  PROVE  i \in rows \ dirty /\ (Right(i) => Right(i)')
<1>1. cf \in [RecId -> Addr \cup {NoAddr}] /\ row[i] \in Row
  BY DEF TInv, ZoneOK, DbOK
<1>2. i \in rows /\ i \notin dirty /\ row[i].rid # r
  BY DEF Owners
<1>3. row[i].rid # 0 => row[i].rid \in RecId
  BY <1>1, Facts DEF Row
<1>4. row[i].rid # 0 => cf'[row[i].rid] = cf[row[i].rid]
  BY <1>1, <1>2, <1>3
<1> QED
  BY <1>2, <1>4 DEF Right

-----------------------------------------------------------------------------
(* Threads that begin.                                                      *)

\* A thread takes copies of rows, or a page is opened.
LEMMA BeginStep ==
  ASSUME Inv, NEW t \in Thread, ~Busy(t),
         NEW s \in ThreadState, Enter(t, s), Formed(s),
         s.pc \in {"loop", "detect", "page"},
         ~s.raced => /\ Counts(s, rows, row, cf)
                     /\ t = Updater => Copies(list', rows, row),
         Fits(list', IF t = Updater THEN s.id ELSE th[Updater].id),
         UsedOK', UNCHANGED <<db, zone, addr, hist>>
  PROVE  Inv'
<1>1. TInv /\ RaceInv /\ AloneInv /\ TruthInv /\ AtMostOne(blind, cf)
  BY DEF Inv
<1>2. UNCHANGED <<rows, row, lastId, cf, lastRec, addr, off, dirty, blind>>
  BY DEF db, zone, hist
<1>3. /\ ThreadsOK' /\ RaceInv' /\ AloneInv'
      /\ th'[t].pc = s.pc /\ th'[t].id = s.id
      /\ \A u \in Thread \ {t} : th'[u].pc = th[u].pc /\ th'[u].id = th[u].id
  BY <1>1, <1>2, Begin
<1>4. ListOK'
  <2>1. th'[Updater].id = IF t = Updater THEN s.id ELSE th[Updater].id
    BY <1>3, Facts
  <2> QED
    BY <2>1, Zenon DEF ListOK, Fits
<1>5. TInv'
  BY <1>1, <1>2, <1>3, <1>4, Stays DEF TInv
<1>6. ~Changes(th[t])
  BY DEF Busy, Changes
<1>7. TruthInv'
  BY <1>1, <1>2, <1>3, <1>6, SameTruth
<1>8. AtMostOne(blind, cf)'
  BY <1>1, <1>2 DEF AtMostOne
<1> QED
  BY <1>3, <1>5, <1>7, <1>8 DEF Inv

\* The copies the updater begins with.
LEMMA TickInv == Inv /\ Tick => Inv'
<1> SUFFICES ASSUME Inv, Tick PROVE Inv'
  OBVIOUS
<1>1. TInv /\ DbOK
  BY DEF Inv, TInv
<1>2. PICK s : s = [IdleThread EXCEPT !.pc = "loop"]
  OBVIOUS
<1>3. /\ Updater \in Thread /\ ~Busy(Updater) /\ Enter(Updater, s)
      /\ UNCHANGED <<db, zone, addr, used, hist>>
      /\ list' = {[id |-> i, snap |-> row[i]] : i \in
                                                {j \in rows : row[j].enabled}}
  BY <1>2, Facts DEF Tick, Busy
<1>4. /\ s \in ThreadState /\ s.pc = "loop" /\ s.id = 0
  BY <1>2, IdleOK DEF ThreadState, Label
<1>5. Formed(s) /\ Counts(s, rows, row, cf)
  BY <1>4 DEF Formed, Changes, Counts
<1>6. \A e \in list' : \E i \in rows : e = [id |-> i, snap |-> row[i]]
  BY <1>3
<1>7. Copies(list', rows, row)
  BY <1>6 DEF Copies
<1>8. Fits(list', s.id)
  <2>1. \A i \in rows : i \in RowId /\ row[i] \in Row /\ i # 0
    BY <1>1, Facts DEF DbOK
  <2>2. list' \subseteq [id : RowId, snap : Row]
    BY <1>6, <2>1
  <2>3. \A e \in list' : e.snap = row[e.id] /\ e.id # 0
    BY <1>6, <2>1
  <2>4. \A e, f \in list' : e.id = f.id => e = f
    BY <2>3, <1>6
  <2> QED
    BY <2>2, <2>3, <2>4, <1>4 DEF Fits
<1> QED
  BY <1>1, <1>3, <1>4, <1>5, <1>7, <1>8, Stays, BeginStep

\* A page, or a manual update: the updater's list stays as it is.
LEMMA RequestStep ==
  ASSUME Inv, NEW t \in Req, ~Busy(t),
         NEW s \in ThreadState, Enter(t, s), Formed(s),
         s.pc \in {"detect", "page"}, Counts(s, rows, row, cf),
         UseUp("req", MaxReq), UNCHANGED <<db, zone, addr, list, hist>>
  PROVE  Inv'
<1>1. TInv /\ UsedOK /\ Fits(list, th[Updater].id)
  BY DEF Inv, TInv, ListOK
<1>2. t \in Thread /\ t # Updater
  BY Facts DEF Thread
<1>3. UsedOK'
  BY <1>1, UseUpOK
<1> QED
  BY <1>1, <1>2, <1>3, BeginStep

LEMMA UpdateRequestInv ==
  ASSUME NEW t \in Req, Inv, UpdateRequest(t)
  PROVE  Inv'
<1>1. PICK i \in rows :
        Enter(t, [IdleThread EXCEPT !.pc = "detect", !.id = i,
                                    !.snap = row[i]])
  BY DEF UpdateRequest
<1>2. PICK s : s = [IdleThread EXCEPT !.pc = "detect", !.id = i,
                                      !.snap = row[i]]
  OBVIOUS
<1>3. i \in RowId /\ i \in 0..MaxRow /\ i # 0 /\ row[i] \in Row
  BY Facts DEF Inv, TInv, DbOK
<1>4. /\ s \in ThreadState /\ s.pc = "detect" /\ s.id = i /\ s.snap = row[i]
  BY <1>2, <1>3, IdleOK DEF ThreadState, Label
<1>5. Formed(s) /\ Counts(s, rows, row, cf)
  BY <1>3, <1>4 DEF Formed, Changes, Counts
<1>6. /\ ~Busy(t) /\ Enter(t, s) /\ UseUp("req", MaxReq)
      /\ UNCHANGED <<db, zone, addr, list, hist>>
  BY <1>1, <1>2 DEF UpdateRequest, Busy
<1> QED
  BY <1>4, <1>5, <1>6, RequestStep

\* What a page is opened with is what the zone has.
LEMMA OpenPageInv ==
  ASSUME NEW t \in Req, Inv, OpenPage(t)
  PROVE  Inv'
<1>1. PICK i \in rows \cup {0}, r \in RecId \cup {0} :
        /\ r # 0 => cf[r] # NoAddr
        /\ Enter(t, [IdleThread EXCEPT !.pc = "page", !.id = i,
                       !.snap = [cur |-> IF r = 0 THEN NoAddr ELSE cf[r],
                                 rid |-> r, enabled |-> TRUE]])
  BY DEF OpenPage
<1> DEFINE c == IF r = 0 THEN NoAddr ELSE cf[r]
           d == [cur |-> c, rid |-> r, enabled |-> TRUE]
<1>2. /\ cf \in [RecId -> Addr \cup {NoAddr}] /\ rows \subseteq RowId
      /\ MaxRow \in Nat /\ MaxRec \in Nat
      /\ RecId = 1..MaxRec /\ RowId = 1..MaxRow
  BY Facts DEF Inv, TInv, ZoneOK, DbOK
<1>3. /\ c \in Addr \cup {NoAddr} /\ r \in 0..MaxRec /\ i \in 0..MaxRow
      /\ r # 0 => c = cf[r] /\ c # NoAddr
  BY <1>1, <1>2
<1>4. PICK s : s = [IdleThread EXCEPT !.pc = "page", !.id = i, !.snap = d]
  OBVIOUS
<1>5. /\ ~Busy(t) /\ Enter(t, s) /\ UseUp("req", MaxReq)
      /\ UNCHANGED <<db, zone, addr, list, hist>>
  BY <1>1, <1>4 DEF OpenPage, Busy
<1> HIDE DEF c
<1>6. d \in Row /\ d.cur = c /\ d.rid = r
  BY <1>3 DEF Row
<1> HIDE DEF d
<1>7. s \in ThreadState /\ s.pc = "page" /\ s.snap = d
  BY <1>3, <1>4, <1>6, IdleOK DEF ThreadState, Label
<1>8. Formed(s) /\ Counts(s, rows, row, cf)
  BY <1>3, <1>6, <1>7 DEF Formed, Changes, Counts
<1> QED
  BY <1>5, <1>7, <1>8, RequestStep

\* A read that hung goes on: its thread has raced.
LEMMA RouterAnswersInv ==
  ASSUME NEW t \in Thread, Inv, RouterAnswers(t)
  PROVE  Inv'
<1>1. TInv /\ th[t] \in ThreadState /\ Formed(th[t])
  BY DEF Inv, TInv, ThreadsOK
<1>2. PICK s : s = [th[t] EXCEPT !.pc = "detect", !.raced = TRUE]
  OBVIOUS
<1>3. /\ th[t].pc = "hung" /\ ~Busy(t) /\ Enter(t, s)
      /\ UNCHANGED <<db, zone, addr, list, used, hist>>
  BY <1>2 DEF RouterAnswers, Busy
<1>4. /\ s \in ThreadState /\ s.pc = "detect" /\ s.id = th[t].id /\ s.raced
  BY <1>1, <1>2 DEF ThreadState, Label
<1>5. Formed(s)
  BY <1>1, <1>3, <1>4 DEF Formed, Changes
<1>6. Fits(list', IF t = Updater THEN s.id ELSE th[Updater].id)
  BY <1>1, <1>3, <1>4, Zenon DEF TInv, ListOK
<1> QED
  BY <1>1, <1>3, <1>4, <1>5, <1>6, Stays, BeginStep

-----------------------------------------------------------------------------
(* Threads at work.                                                         *)

\* A thread goes on to another label.
LEMMA GotoMoves ==
  ASSUME TInv, NEW t \in Thread, NEW l \in Label, Goto(t, l),
         NEW s, s = [th[t] EXCEPT !.pc = l]
  PROVE  /\ th' = [th EXCEPT ![t] = s] /\ s \in ThreadState
         /\ s.pc = l /\ s.id = th[t].id /\ s.snap = th[t].snap
         /\ s.ip = th[t].ip /\ s.rec = th[t].rec
         /\ s.listed = th[t].listed /\ s.refused = th[t].refused
         /\ s.raced = th[t].raced
<1>1. th[t] \in ThreadState
  BY DEF TInv, ThreadsOK
<1> QED
  BY <1>1 DEF Goto, ThreadState

\* A thread stops, or the updater goes on with its list.
LEMMA LeaveMoves ==
  ASSUME TInv, NEW t \in Thread, Leave(t)
  PROVE  \E s \in ThreadState :
           /\ th' = [th EXCEPT ![t] = s] /\ Formed(s) /\ s.id = 0
           /\ s.pc \in {"idle", "loop"}
           /\ s.pc = "loop" => s.raced = th[t].raced
<1>1. th[t].raced \in BOOLEAN
  BY DEF TInv, ThreadsOK, ThreadState
<1>2. CASE t = Updater /\ list # {}
  <2>1. PICK s : s = [IdleThread EXCEPT !.pc = "loop", !.raced = th[t].raced]
    OBVIOUS
  <2>2. th' = [th EXCEPT ![t] = s]
    BY <1>2, <2>1 DEF Leave
  <2>3. /\ s \in ThreadState /\ s.pc = "loop" /\ s.id = 0
        /\ s.raced = th[t].raced
    BY <1>1, <2>1, IdleOK DEF ThreadState, Label
  <2> QED
    BY <2>2, <2>3 DEF Formed, Changes
<1>3. CASE ~(t = Updater /\ list # {})
  <2>1. th' = [th EXCEPT ![t] = IdleThread]
    BY <1>3 DEF Leave
  <2> QED
    BY <2>1, IdleOK
<1> QED
  BY <1>2, <1>3

\* A thread that is at work makes a step that is right for itself.
LEMMA WorkStep ==
  ASSUME Inv, NEW t \in Thread, Busy(t),
         NEW s \in ThreadState, th' = [th EXCEPT ![t] = s], Formed(s),
         s.id \in {0, th[t].id}, list' = list,
         s.pc \notin {"idle", "hung"} =>
           /\ s.raced = th[t].raced
           /\ ~s.raced => Counts(s, rows', row', cf'),
         t = Updater =>
           /\ rows' = rows
           /\ \A j \in RowId \ {th[t].id} : row'[j].rid = row[j].rid,
         DbOK', ZoneOK', UsedOK', HistOK', addr' = addr,
         AtMostOne(blind', cf'),
         \A i \in rows' \ dirty' :
           \/ Right(i)'
           \/ Changes(s) /\ s.id = i
           \/ /\ i \in rows \ dirty /\ (Right(i) => Right(i)')
              /\ Changes(th[t]) => i # th[t].id
  PROVE  Inv'
<1>1. TInv /\ RaceInv /\ AloneInv /\ TruthInv /\ ListOK
  BY DEF Inv, TInv
<1>2. ASSUME t = Updater, ~th[t].raced
      PROVE  Copies(list', rows', row')
  <2>1. /\ Copies(list, rows, row) /\ list \subseteq [id : RowId, snap : Row]
        /\ \A e \in list : e.id # th[t].id
    BY <1>1, <1>2 DEF AloneInv, ListOK, Fits
  <2> QED
    BY <2>1, <1>2 DEF Copies
<1>3. /\ ThreadsOK' /\ RaceInv' /\ AloneInv'
      /\ th'[t] = s /\ \A u \in Thread \ {t} : th'[u] = th[u]
  BY <1>1, <1>2, GoOn
<1>4. ListOK'
  <2>1. \A e \in list : e.id # 0
    BY <1>1, Facts DEF ListOK, Fits
  <2>2. th'[Updater].id \in {0, th[Updater].id}
    BY <1>3, Facts
  <2> QED
    BY <1>1, <2>1, <2>2 DEF ListOK, Fits
<1>5. TInv'
  BY <1>1, <1>3, <1>4 DEF TInv
<1>6. TruthInv'
  <2> SUFFICES ASSUME NEW i \in rows' \ dirty', ~Right(i)'
               PROVE  \E u \in Thread : Changes(th'[u]) /\ th'[u].id = i
    BY DEF TruthInv, Right, Changes
  <2>1. CASE Changes(s) /\ s.id = i
    BY <2>1, <1>3
  <2>2. CASE /\ i \in rows \ dirty /\ (Right(i) => Right(i)')
             /\ Changes(th[t]) => i # th[t].id
    <3>1. PICK u \in Thread : Changes(th[u]) /\ th[u].id = i
      BY <2>2, <1>1 DEF TruthInv
    <3> QED
      BY <3>1, <2>2, <1>3
  <2> QED
    BY <2>1, <2>2
<1>7. AtMostOne(blind, cf)'
  BY DEF AtMostOne
<1> QED
  BY <1>3, <1>5, <1>6, <1>7 DEF Inv

\* A thread makes a step, and writes nothing.
LEMMA QuietStep ==
  ASSUME Inv, NEW t \in Thread, Busy(t),
         NEW s \in ThreadState, th' = [th EXCEPT ![t] = s], Formed(s),
         s.id \in {0, th[t].id}, list' = list,
         s.pc \notin {"idle", "hung"} =>
           /\ s.raced = th[t].raced
           /\ ~s.raced => Counts(s, rows, row, cf),
         Changes(th[t]) => Changes(s) /\ s.id = th[t].id,
         UsedOK', UNCHANGED <<db, zone, addr, hist>>
  PROVE  Inv'
<1>1. TInv /\ AtMostOne(blind, cf)
  BY DEF Inv
<1>2. UNCHANGED <<rows, row, lastId, cf, lastRec, addr, off, dirty, blind>>
  BY DEF db, zone, hist
<1>3. DbOK' /\ ZoneOK' /\ HistOK' /\ AtMostOne(blind', cf')
  BY <1>1, <1>2, Stays
<1>4. ASSUME NEW i \in rows' \ dirty'
      PROVE  \/ Changes(s) /\ s.id = i
             \/ /\ i \in rows \ dirty /\ (Right(i) => Right(i)')
                /\ Changes(th[t]) => i # th[t].id
  BY <1>2 DEF Right
<1> QED
  BY <1>2, <1>3, <1>4, WorkStep

\* A thread that has changed nothing stops.
LEMMA LeaveStep ==
  ASSUME Inv, NEW t \in Thread, th[t].pc \in {"detect", "page"}, Leave(t),
         UsedOK', UNCHANGED <<db, zone, addr, list, hist>>
  PROVE  Inv'
<1>1. TInv /\ Busy(t) /\ ~Changes(th[t])
  BY DEF Inv, Busy, Changes
<1>2. PICK s \in ThreadState :
        /\ th' = [th EXCEPT ![t] = s] /\ Formed(s) /\ s.id = 0
        /\ s.pc \in {"idle", "loop"}
        /\ s.pc = "loop" => s.raced = th[t].raced
  BY <1>1, LeaveMoves
<1>3. Counts(s, rows, row, cf)
  BY <1>2 DEF Counts
<1> QED
  BY <1>1, <1>2, <1>3, QuietStep

\* A thread that has changed something, or may have, stops: its row is dirty.
LEMMA AbortStep ==
  ASSUME Inv, NEW t \in Thread, Changes(th[t]), NEW spoilt \in SUBSET rows,
         Abort(t, spoilt), ZoneOK', UsedOK', AtMostOne(blind', cf'),
         blind' \in BOOLEAN, UNCHANGED <<db, addr, list, off>>,
         \A i \in rows' \ dirty' : i # th[t].id =>
           i \in rows \ dirty /\ (Right(i) => Right(i)')
  PROVE  Inv'
<1>1. /\ TInv /\ Busy(t) /\ DbOK /\ HistOK
      /\ th[t] \in ThreadState /\ Formed(th[t])
  BY DEF Inv, TInv, ThreadsOK, Busy, Changes
<1>2. PICK s \in ThreadState :
        /\ th' = [th EXCEPT ![t] = s] /\ Formed(s) /\ s.id = 0
        /\ s.pc \in {"idle", "loop"}
        /\ s.pc = "loop" => s.raced = th[t].raced
  BY <1>1, LeaveMoves DEF Abort
<1>3. Counts(s, rows', row', cf')
  BY <1>2 DEF Counts
<1>4. DbOK' /\ UNCHANGED <<rows, row>>
  BY <1>1, Stays DEF db
<1>5. th[t].id \in RowId /\ dirty' = dirty \cup {th[t].id} \cup spoilt
  BY <1>1, Facts DEF Abort, Formed, Changes, ThreadState
<1>6. HistOK'
  BY <1>1, <1>4, <1>5 DEF HistOK, DbOK
<1> QED
  BY <1>1, <1>2, <1>3, <1>4, <1>5, <1>6, WorkStep

LEMMA ClosePageInv ==
  ASSUME NEW t \in Req, Inv, ClosePage(t)
  PROVE  Inv'
<1>1. t \in Thread /\ UNCHANGED used /\ TInv
  BY DEF ClosePage, Thread, Inv
<1> QED
  BY <1>1, Stays, LeaveStep DEF ClosePage

LEMMA DetectFailsInv ==
  ASSUME NEW t \in Thread, Inv, DetectFails(t)
  PROVE  Inv'
<1>1. UsedOK'
  BY UseUpOK DEF DetectFails, Inv, TInv
<1> QED
  BY <1>1, LeaveStep DEF DetectFails

LEMMA DetectHangsInv ==
  ASSUME NEW t \in Thread, Inv, DetectHangs(t)
  PROVE  Inv'
<1>1. TInv /\ UsedOK /\ Formed(th[t])
  BY DEF Inv, TInv, ThreadsOK
<1>2. PICK s : s = [th[t] EXCEPT !.pc = "hung"]
  OBVIOUS
<1>3. /\ th[t].pc = "detect" /\ Busy(t) /\ ~Changes(th[t])
      /\ Goto(t, "hung") /\ UseUp("fault", MaxFault)
      /\ UNCHANGED <<db, zone, addr, list, hist>>
  BY DEF DetectHangs, Busy, Changes
<1>4. /\ th' = [th EXCEPT ![t] = s] /\ s \in ThreadState
      /\ s.pc = "hung" /\ s.id = th[t].id
  BY <1>1, <1>2, <1>3, GotoMoves DEF Label
<1>5. Formed(s) /\ UsedOK'
  BY <1>1, <1>3, <1>4, UseUpOK DEF Formed, Changes
<1> QED
  BY <1>3, <1>4, <1>5, QuietStep

\* The updater takes a copy from its list.
LEMMA NextRecordInv == Inv /\ NextRecord => Inv'
<1> SUFFICES ASSUME Inv, NextRecord PROVE Inv'
  OBVIOUS
<1>1. /\ TInv /\ RaceInv /\ AloneInv /\ TruthInv /\ AtMostOne(blind, cf)
      /\ ListOK /\ th \in [Thread -> ThreadState]
      /\ Updater \in Thread /\ th[Updater] \in ThreadState
  BY Facts DEF Inv, TInv, ThreadsOK
<1>2. PICK e \in list :
        /\ list' = list \ {e}
        /\ th' = [th EXCEPT ![Updater] = [IdleThread EXCEPT
                    !.pc = "detect", !.id = e.id, !.snap = e.snap,
                    !.raced = th[Updater].raced]]
  BY Zenon DEF NextRecord
<1>3. /\ th[Updater].pc = "loop" /\ Busy(Updater) /\ ~Changes(th[Updater])
      /\ UNCHANGED <<db, zone, addr, used, hist>>
      /\ UNCHANGED <<rows, row, lastId, cf, lastRec, addr, off, dirty, blind>>
  BY DEF NextRecord, Busy, Changes, db, zone, hist
<1>4. PICK s : s = [IdleThread EXCEPT
                      !.pc = "detect", !.id = e.id, !.snap = e.snap,
                      !.raced = th[Updater].raced]
  OBVIOUS
<1>5. /\ e.id \in RowId /\ e.snap \in Row /\ e.id \in 0..MaxRow /\ e.id # 0
      /\ \A f \in list \ {e} : f.id # e.id
  BY <1>1, Facts DEF ListOK, Fits
<1>6. th[Updater].raced \in BOOLEAN
  BY <1>1 DEF ThreadState
<1>7. /\ s \in ThreadState /\ s.pc = "detect" /\ s.id = e.id
      /\ s.snap = e.snap /\ s.raced = th[Updater].raced
  BY <1>4, <1>5, <1>6, IdleOK DEF ThreadState, Label
<1>8. Formed(s)
  BY <1>5, <1>7 DEF Formed, Changes
<1>9. ASSUME ~s.raced
      PROVE  Counts(s, rows', row', cf') /\ Copies(list', rows', row')
  <2>1. Copies(list, rows, row)
    BY <1>1, <1>3, <1>7, <1>9 DEF AloneInv
  <2> QED
    BY <2>1, <1>2, <1>3, <1>7 DEF Copies, Counts
<1>10. /\ ThreadsOK' /\ RaceInv' /\ AloneInv' /\ th'[Updater] = s
       /\ \A u \in Thread \ {Updater} : th'[u] = th[u]
  BY <1>1, <1>2, <1>3, <1>4, <1>7, <1>8, <1>9, GoOn
<1>11. ListOK'
  BY <1>1, <1>2, <1>5, <1>7, <1>10 DEF ListOK, Fits
<1>12. TInv'
  BY <1>1, <1>3, <1>10, <1>11, Stays DEF TInv
<1>13. TruthInv'
  BY <1>1, <1>3, <1>10, SameTruth
<1>14. AtMostOne(blind, cf)'
  BY <1>1, <1>3 DEF AtMostOne
<1> QED
  BY <1>10, <1>12, <1>13, <1>14 DEF Inv

LEMMA DetectInv ==
  ASSUME NEW t \in Thread, Inv, Detect(t)
  PROVE  Inv'
<1>1. /\ TInv /\ AloneInv /\ addr \in Addr
      /\ th[t] \in ThreadState /\ Formed(th[t])
  BY DEF Inv, TInv, ThreadsOK
<1>2. /\ th[t].pc = "detect" /\ Busy(t) /\ ~Changes(th[t])
      /\ UNCHANGED <<db, zone, addr, list, used, hist>>
  BY DEF Detect, Busy, Changes
<1>3. UsedOK'
  BY <1>1, <1>2, Stays
<1>4. CASE th[t].snap.cur = addr
  <2>1. Leave(t)
    BY <1>4 DEF Detect
  <2> QED
    BY <2>1, <1>2, <1>3, LeaveStep
<1>5. CASE th[t].snap.cur # addr
  <2> DEFINE l == IF th[t].snap.rid # 0 THEN "putById" ELSE "find"
             s == [th[t] EXCEPT !.ip = addr, !.pc = l]
  <2>1. th' = [th EXCEPT ![t].ip = addr, ![t].pc = l]
    BY <1>5, Zenon DEF Detect
  <2>2. th' = [th EXCEPT ![t] = s]
    BY <2>1, <1>1 DEF TInv, ThreadsOK
  <2>3. /\ l \in {"putById", "find"} /\ l \in Label
        /\ (l = "putById" => th[t].snap.rid # 0)
    BY DEF Label
  <2> HIDE DEF l
  <2>4. /\ s \in ThreadState /\ s.pc = l /\ s.ip = addr
        /\ s.id = th[t].id /\ s.snap = th[t].snap /\ s.raced = th[t].raced
    BY <2>3, <1>1 DEF ThreadState
  <2> HIDE DEF s
  <2>5. Formed(s)
    BY <2>3, <2>4, <1>1, <1>2, <1>5 DEF Formed, Changes
  <2>6. ~s.raced => Counts(s, rows, row, cf)
    <3>1. ~s.raced => Counts(th[t], rows, row, cf)
      BY <2>4, <1>1, <1>2 DEF AloneInv
    <3> QED
      BY <3>1, <2>3, <2>4, <1>2 DEF Counts
  <2> QED
    BY <2>2, <2>3, <2>4, <2>5, <2>6, <1>2, <1>3, QuietStep
<1> QED
  BY <1>4, <1>5

\* A DNS record that is there gets another address, or goes.
LEMMA Overwritten ==
  ASSUME TInv, AtMostOne(blind, cf), NEW r \in RecId, cf[r] # NoAddr,
         NEW a \in Addr \cup {NoAddr}, cf' = [cf EXCEPT ![r] = a],
         lastRec' = lastRec
  PROVE  ZoneOK' /\ AtMostOne(blind, cf') /\ cf'[r] = a
<1>1. ZoneOK /\ cf \in [RecId -> Addr \cup {NoAddr}]
  BY DEF TInv, ZoneOK
<1>2. cf'[r] = a /\ \A q \in RecId : cf'[q] # NoAddr => cf[q] # NoAddr
  BY <1>1
<1>3. ZoneOK'
  BY <1>1, <1>2 DEF ZoneOK
<1>4. AtMostOne(blind, cf')
  BY <1>2 DEF AtMostOne
<1> QED
  BY <1>2, <1>3, <1>4

\* A thread that is changing something writes a DNS record, and goes on.
LEMMA PutStep ==
  ASSUME Inv, NEW t \in Thread, Changes(th[t]), NEW r \in RecId,
         cf[r] # NoAddr, cf' = [cf EXCEPT ![r] = th[t].ip],
         dirty' = dirty \cup Owners(r, th[t].id),
         NEW s \in ThreadState, th' = [th EXCEPT ![t] = s], Formed(s),
         Changes(s), s.id = th[t].id, s.raced = th[t].raced,
         ~s.raced /\ cf'[r] = th[t].ip => Counts(s, rows, row, cf'),
         UsedOK', UNCHANGED <<db, lastRec, addr, list, off, blind>>
  PROVE  Inv'
<1>1. /\ TInv /\ AtMostOne(blind, cf) /\ DbOK /\ HistOK
      /\ th[t] \in ThreadState /\ Formed(th[t]) /\ Busy(t)
  BY DEF Inv, TInv, ThreadsOK, Busy, Changes
<1>2. UNCHANGED <<rows, row>> /\ DbOK'
  BY <1>1, Stays DEF db
<1>3. th[t].ip \in Addr
  BY <1>1 DEF Formed
<1>4. ZoneOK' /\ AtMostOne(blind', cf') /\ cf'[r] = th[t].ip
  BY <1>1, <1>3, Overwritten
<1>5. HistOK'
  BY <1>1 DEF HistOK, DbOK, Owners
<1>6. ASSUME NEW i \in rows' \ dirty'
      PROVE  \/ Changes(s) /\ s.id = i
             \/ /\ i \in rows \ dirty /\ (Right(i) => Right(i)')
                /\ Changes(th[t]) => i # th[t].id
  BY <1>1, <1>2, <1>6, OthersRight
<1> QED
  BY <1>1, <1>2, <1>4, <1>5, <1>6, WorkStep

LEMMA PutByIdInv ==
  ASSUME NEW t \in Thread, Inv, PutById(t)
  PROVE  Inv'
<1>1. TInv /\ AloneInv /\ th[t] \in ThreadState /\ Formed(th[t])
  BY DEF Inv, TInv, ThreadsOK
<1>2. /\ th[t].pc = "putById" /\ Busy(t) /\ Changes(th[t])
      /\ UNCHANGED <<db, lastRec, addr, list, used, off, blind>>
  BY DEF PutById, Busy, Changes
<1>3. UsedOK'
  BY <1>1, <1>2, Stays
<1>4. /\ th[t].snap.rid \in RecId /\ th[t].snap.rid # 0
      /\ th[t].id # 0 /\ th[t].ip \in Addr \ {th[t].snap.cur}
  BY <1>1, <1>2, Facts DEF Formed, ThreadState, Row
<1>5. ~th[t].raced => Counts(th[t], rows, row, cf)
  BY <1>1, <1>2 DEF AloneInv
<1>6. CASE cf[th[t].snap.rid] # NoAddr
  <2>1. PICK s : s = [th[t] EXCEPT !.pc = "saveIP"]
    OBVIOUS
  <2>2. /\ Goto(t, "saveIP") /\ cf' = [cf EXCEPT ![th[t].snap.rid] = th[t].ip]
        /\ dirty' = dirty \cup Owners(th[t].snap.rid, th[t].id)
    BY <1>6 DEF PutById
  <2>3. /\ th' = [th EXCEPT ![t] = s] /\ s \in ThreadState
        /\ s.pc = "saveIP" /\ s.id = th[t].id /\ s.snap = th[t].snap
        /\ s.ip = th[t].ip /\ s.raced = th[t].raced
    BY <2>1, <2>2, <1>1, GotoMoves DEF Label
  <2>4. Formed(s) /\ Changes(s)
    BY <2>3, <1>4 DEF Formed, Changes
  <2>5. ~s.raced /\ cf'[th[t].snap.rid] = th[t].ip =>
          Counts(s, rows, row, cf')
    BY <2>3, <1>2, <1>4, <1>5 DEF Counts
  <2> QED
    BY <2>2, <2>3, <2>4, <2>5, <1>2, <1>3, <1>4, <1>6, PutStep
<1>7. CASE cf[th[t].snap.rid] = NoAddr
  <2>1. PICK s : s = [th[t] EXCEPT !.pc = "find"]
    OBVIOUS
  <2>2. Goto(t, "find") /\ UNCHANGED <<cf, dirty>>
    BY <1>7 DEF PutById
  <2>3. /\ th' = [th EXCEPT ![t] = s] /\ s \in ThreadState
        /\ s.pc = "find" /\ s.id = th[t].id /\ s.snap = th[t].snap
        /\ s.ip = th[t].ip /\ s.raced = th[t].raced
    BY <2>1, <2>2, <1>1, GotoMoves DEF Label
  <2>4. Formed(s) /\ Changes(s) /\ Counts(s, rows, row, cf)
    BY <2>3, <1>4 DEF Formed, Changes, Counts
  <2>5. UNCHANGED <<zone, hist>>
    BY <2>2, <1>2 DEF zone, hist
  <2> QED
    BY <2>3, <2>4, <2>5, <1>2, <1>3, QuietStep
<1> QED
  BY <1>6, <1>7

LEMMA PutByIdFailsInv ==
  ASSUME NEW t \in Thread, Inv, PutByIdFails(t)
  PROVE  Inv'
<1>1. TInv /\ UsedOK /\ th[t] \in ThreadState /\ Formed(th[t])
  BY DEF Inv, TInv, ThreadsOK
<1>2. /\ th[t].pc = "putById" /\ Busy(t) /\ Changes(th[t])
      /\ Goto(t, "find") /\ UseUp("fault", MaxFault)
      /\ UNCHANGED <<db, lastRec, addr, list, off, blind>>
  BY DEF PutByIdFails, Busy, Changes
<1>3. UsedOK'
  BY <1>1, <1>2, UseUpOK
<1>4. /\ th[t].snap.rid \in RecId
      /\ th[t].id # 0 /\ th[t].ip \in Addr \ {th[t].snap.cur}
  BY <1>1, <1>2, Facts DEF Formed, ThreadState, Row
<1>5. PICK s : s = [th[t] EXCEPT !.pc = "find"]
  OBVIOUS
<1>6. /\ th' = [th EXCEPT ![t] = s] /\ s \in ThreadState
      /\ s.pc = "find" /\ s.id = th[t].id /\ s.snap = th[t].snap
      /\ s.ip = th[t].ip /\ s.raced = th[t].raced
  BY <1>1, <1>2, <1>5, GotoMoves DEF Label
<1>7. Formed(s) /\ Changes(s) /\ Counts(s, rows, row, cf)
      /\ Counts(s, rows, row, cf')
  BY <1>4, <1>6 DEF Formed, Changes, Counts
<1>8. CASE UNCHANGED <<cf, dirty>>
  <2>1. UNCHANGED <<zone, hist>>
    BY <1>2, <1>8 DEF zone, hist
  <2> QED
    BY <2>1, <1>2, <1>3, <1>6, <1>7, QuietStep
<1>9. CASE /\ cf[th[t].snap.rid] # NoAddr
           /\ cf' = [cf EXCEPT ![th[t].snap.rid] = th[t].ip]
           /\ dirty' = dirty \cup Owners(th[t].snap.rid, th[t].id)
  BY <1>2, <1>3, <1>4, <1>6, <1>7, <1>9, PutStep
<1> QED
  BY <1>8, <1>9 DEF PutByIdFails

\* A copy of the row with another DNS record.
LEMMA CopyWith ==
  ASSUME NEW x \in Row, NEW r \in RecId
  PROVE  /\ [x EXCEPT !.rid = r] \in Row
         /\ [x EXCEPT !.rid = r].rid = r
         /\ [x EXCEPT !.rid = r].cur = x.cur /\ r # 0
<1>1. r \in 0..MaxRec /\ r # 0
  BY Facts
<1> QED
  BY <1>1 DEF Row

\* No record is seen: only a list that shows all of them is to be relied on.
LEMMA SeesNone ==
  ASSUME NEW t \in Thread, Inv, th[t].pc = "find", NEW b \in BOOLEAN,
         th' = [th EXCEPT ![t].pc = "post", ![t].listed = b],
         b => \A r \in RecId : cf[r] = NoAddr,
         UsedOK', UNCHANGED <<db, zone, addr, list, hist>>
  PROVE  Inv'
<1>1. /\ th \in [Thread -> ThreadState]
      /\ th[t] \in ThreadState /\ Formed(th[t])
  BY DEF Inv, TInv, ThreadsOK
<1>2. Busy(t) /\ Changes(th[t])
  BY DEF Busy, Changes
<1>3. th[t].id # 0 /\ th[t].ip \in Addr \ {th[t].snap.cur}
  BY <1>1, <1>2 DEF Formed
<1> DEFINE s == [th[t] EXCEPT !.pc = "post", !.listed = b]
<1>4. th' = [th EXCEPT ![t] = s]
  BY <1>1
<1>5. /\ s \in ThreadState /\ s.pc = "post" /\ s.snap = th[t].snap
      /\ s.listed = b /\ s.id = th[t].id /\ s.ip = th[t].ip
      /\ s.raced = th[t].raced
  BY <1>1 DEF ThreadState, Label
<1> HIDE DEF s
<1>6. Formed(s) /\ Changes(s) /\ Counts(s, rows, row, cf)
  BY <1>3, <1>5 DEF Formed, Changes, Counts
<1> QED
  BY <1>2, <1>4, <1>5, <1>6, QuietStep

LEMMA FindInv ==
  ASSUME NEW t \in Thread, Inv, Find(t)
  PROVE  Inv'
<1> DEFINE all == {r \in RecId : cf[r] # NoAddr}
<1>1. /\ TInv /\ th \in [Thread -> ThreadState]
      /\ th[t] \in ThreadState /\ Formed(th[t])
  BY DEF Inv, TInv, ThreadsOK
<1>2. /\ th[t].pc = "find" /\ Busy(t) /\ Changes(th[t])
      /\ UNCHANGED <<db, zone, addr, list, used, hist>>
  BY DEF Find, Busy, Changes
<1>3. UsedOK'
  BY <1>1, <1>2, Stays
<1>4. th[t].id # 0 /\ th[t].ip \in Addr \ {th[t].snap.cur}
  BY <1>1, <1>2 DEF Formed
<1>5. ASSUME th' = [th EXCEPT ![t].pc = "post", ![t].listed = (all = {})]
      PROVE  Inv'
  <2>1. PICK b \in BOOLEAN : b = (all = {})
    OBVIOUS
  <2>2. th' = [th EXCEPT ![t].pc = "post", ![t].listed = b]
    BY <1>5, <2>1
  <2>3. b => \A r \in RecId : cf[r] = NoAddr
    BY <2>1
  <2> QED
    BY <2>2, <2>3, <1>2, <1>3, SeesNone
<1>6. ASSUME NEW r \in RecId, cf[r] = th[t].ip,
             th' = [th EXCEPT ![t].pc = "saveRow", ![t].snap.rid = r]
      PROVE  Inv'
  <2> DEFINE d == [th[t].snap EXCEPT !.rid = r]
             s == [th[t] EXCEPT !.pc = "saveRow", !.snap = d]
  <2>1. th' = [th EXCEPT ![t] = s]
    BY <1>1, <1>6
  <2>2. d \in Row /\ d.rid = r /\ d.cur = th[t].snap.cur /\ r # 0
    BY <1>1, CopyWith DEF ThreadState
  <2> HIDE DEF d
  <2>3. /\ s \in ThreadState /\ s.pc = "saveRow" /\ s.snap = d
        /\ s.id = th[t].id /\ s.ip = th[t].ip /\ s.raced = th[t].raced
    BY <2>2, <1>1 DEF ThreadState, Label
  <2> HIDE DEF s
  <2>4. Formed(s) /\ Changes(s) /\ Counts(s, rows, row, cf)
    BY <2>2, <2>3, <1>4, <1>6 DEF Formed, Changes, Counts
  <2> QED
    BY <2>1, <2>3, <2>4, <1>2, <1>3, QuietStep
<1>7. ASSUME NEW r \in RecId, th' = [th EXCEPT ![t].pc = "put", ![t].rec = r]
      PROVE  Inv'
  <2> DEFINE s == [th[t] EXCEPT !.pc = "put", !.rec = r]
  <2>1. th' = [th EXCEPT ![t] = s]
    BY <1>1, <1>7
  <2>2. r \in 0..MaxRec /\ r # 0
    BY Facts
  <2>3. /\ s \in ThreadState /\ s.pc = "put" /\ s.snap = th[t].snap
        /\ s.rec = r /\ s.id = th[t].id /\ s.ip = th[t].ip
        /\ s.raced = th[t].raced
    BY <2>2, <1>1 DEF ThreadState, Label
  <2> HIDE DEF s
  <2>4. Formed(s) /\ Changes(s) /\ Counts(s, rows, row, cf)
    BY <2>2, <2>3, <1>4 DEF Formed, Changes, Counts
  <2> QED
    BY <2>1, <2>3, <2>4, <1>2, <1>3, QuietStep
<1>8. PICK page \in SUBSET all :
        \/ /\ page = {}
           /\ th' = [th EXCEPT ![t].pc = "post", ![t].listed = (all = {})]
        \/ \E r \in page :
             th' = IF cf[r] = th[t].ip
                     THEN [th EXCEPT ![t].pc = "saveRow", ![t].snap.rid = r]
                     ELSE [th EXCEPT ![t].pc = "put", ![t].rec = r]
  BY Zenon DEF Find
<1>9. CASE \E r \in page :
             th' = IF cf[r] = th[t].ip
                     THEN [th EXCEPT ![t].pc = "saveRow", ![t].snap.rid = r]
                     ELSE [th EXCEPT ![t].pc = "put", ![t].rec = r]
  <2>1. PICK r \in page :
          th' = IF cf[r] = th[t].ip
                  THEN [th EXCEPT ![t].pc = "saveRow", ![t].snap.rid = r]
                  ELSE [th EXCEPT ![t].pc = "put", ![t].rec = r]
    BY <1>9, Zenon
  <2>2. r \in RecId
    OBVIOUS
  <2>3. CASE cf[r] = th[t].ip
    <3>1. th' = [th EXCEPT ![t].pc = "saveRow", ![t].snap.rid = r]
      BY <2>1, <2>3, Zenon
    <3> QED
      BY <3>1, <2>2, <2>3, <1>6
  <2>4. CASE cf[r] # th[t].ip
    <3>1. th' = [th EXCEPT ![t].pc = "put", ![t].rec = r]
      BY <2>1, <2>4, Zenon
    <3> QED
      BY <3>1, <2>2, <1>7
  <2> QED
    BY <2>3, <2>4
<1> QED
  BY <1>5, <1>8, <1>9, Zenon

LEMMA FindFailsInv ==
  ASSUME NEW t \in Thread, Inv, FindFails(t)
  PROVE  Inv'
<1>1. /\ th[t].pc = "find" /\ UseUp("fault", MaxFault) /\ UsedOK
      /\ UNCHANGED <<db, zone, addr, list, hist>>
      /\ th' = [th EXCEPT ![t].pc = "post", ![t].listed = FALSE]
  BY DEF FindFails, Inv, TInv
<1>2. UsedOK'
  BY <1>1, UseUpOK
<1>3. FALSE \in BOOLEAN
  OBVIOUS
<1> QED
  BY <1>1, <1>2, <1>3, SeesNone

LEMMA PutInv ==
  ASSUME NEW t \in Thread, Inv, Put(t)
  PROVE  Inv'
<1>1. /\ TInv /\ AtMostOne(blind, cf) /\ HistOK
      /\ th \in [Thread -> ThreadState]
      /\ th[t] \in ThreadState /\ Formed(th[t])
  BY DEF Inv, TInv, ThreadsOK
<1>2. /\ th[t].pc = "put" /\ Busy(t) /\ Changes(th[t])
      /\ UNCHANGED <<db, lastRec, addr, list, used, off, blind>>
      /\ UNCHANGED <<rows, row>>
  BY DEF Put, Busy, Changes, db
<1>3. /\ th[t].id # 0 /\ th[t].ip \in Addr \ {th[t].snap.cur}
      /\ th[t].rec \in RecId
  BY <1>1, <1>2, Facts DEF Formed, Changes, ThreadState
<1>4. UsedOK'
  BY <1>1, <1>2, Stays
<1>5. CASE cf[th[t].rec] # NoAddr
  <2> DEFINE d == [th[t].snap EXCEPT !.rid = th[t].rec]
             s == [th[t] EXCEPT !.pc = "saveRow", !.rec = 0, !.snap = d]
  <2>1. /\ cf' = [cf EXCEPT ![th[t].rec] = th[t].ip]
        /\ dirty' = dirty \cup Owners(th[t].rec, th[t].id)
        /\ th' = [th EXCEPT ![t].pc = "saveRow", ![t].rec = 0,
                            ![t].snap.rid = th[t].rec]
    BY <1>5 DEF Put
  <2>2. th' = [th EXCEPT ![t] = s]
    BY <1>1, <2>1
  <2>3. d \in Row /\ d.rid = th[t].rec /\ d.cur = th[t].snap.cur /\ d.rid # 0
    BY <1>1, <1>3, CopyWith DEF ThreadState
  <2> HIDE DEF d
  <2>4. 0 \in 0..MaxRec
    BY Facts
  <2>5. /\ s \in ThreadState /\ s.pc = "saveRow" /\ s.snap = d
        /\ s.id = th[t].id /\ s.ip = th[t].ip /\ s.raced = th[t].raced
    BY <2>3, <2>4, <1>1 DEF ThreadState, Label
  <2> HIDE DEF s
  <2>6. Formed(s) /\ Changes(s)
    BY <2>3, <2>5, <1>3 DEF Formed, Changes
  <2>7. cf'[th[t].rec] = th[t].ip => Counts(s, rows, row, cf')
    BY <2>3, <2>5 DEF Counts
  <2> QED
    BY <2>1, <2>2, <2>5, <2>6, <2>7, <1>2, <1>3, <1>4, <1>5, PutStep
<1>6. CASE cf[th[t].rec] = NoAddr
  <2>1. cf' = cf /\ Abort(t, {})
    BY <1>6 DEF Put
  <2>2. ZoneOK' /\ AtMostOne(blind', cf') /\ blind' \in BOOLEAN
    BY <2>1, <1>1, <1>2 DEF TInv, ZoneOK, HistOK
  <2>3. ASSUME NEW i \in rows' \ dirty'
        PROVE  i \in rows \ dirty /\ (Right(i) => Right(i)')
    BY <2>1, <1>2 DEF Abort, Right
  <2> QED
    BY <2>1, <2>2, <2>3, <1>2, <1>4, AbortStep
<1> QED
  BY <1>5, <1>6

\* A new DNS record: the first one, unless its creator did not know; no row
\* that is right names it yet.
LEMMA CreatedOK ==
  ASSUME Inv, NEW t \in Thread, th[t].pc = "post", Created(t)
  PROVE  /\ ZoneOK' /\ AtMostOne(blind', cf') /\ blind' \in BOOLEAN
         /\ lastRec + 1 \in RecId /\ cf'[lastRec + 1] = th[t].ip
         /\ \A r \in RecId : cf[r] # NoAddr => cf'[r] = cf[r]
<1>1. /\ ZoneOK /\ AloneInv /\ AtMostOne(blind, cf) /\ blind \in BOOLEAN
      /\ th[t] \in ThreadState /\ Formed(th[t])
  BY DEF Inv, TInv, ThreadsOK, HistOK
<1>2. /\ lastRec < MaxRec /\ lastRec' = lastRec + 1
      /\ cf' = [cf EXCEPT ![lastRec + 1] = th[t].ip]
      /\ blind' = (blind \/ ~th[t].listed \/ th[t].raced)
  BY DEF Created
<1>3. /\ cf \in [RecId -> Addr \cup {NoAddr}] /\ lastRec \in 0..MaxRec
      /\ \A r \in RecId : cf[r] # NoAddr => r <= lastRec
      /\ MaxRec \in Nat /\ RecId = 1..MaxRec
  BY <1>1, Facts DEF ZoneOK
<1>4. lastRec + 1 \in RecId /\ lastRec' \in 0..MaxRec
  BY <1>2, <1>3
<1>5. th[t].ip \in Addr \cup {NoAddr}
  BY <1>1 DEF ThreadState
<1>6. /\ cf' \in [RecId -> Addr \cup {NoAddr}]
      /\ cf'[lastRec + 1] = th[t].ip
      /\ \A r \in RecId : r # lastRec + 1 => cf'[r] = cf[r]
  BY <1>2, <1>3, <1>4, <1>5
<1>7. ASSUME NEW r \in RecId, cf'[r] # NoAddr
      PROVE  r <= lastRec'
  <2>1. r = lastRec + 1 \/ r <= lastRec
    BY <1>3, <1>6, <1>7
  <2> QED
    BY <2>1, <1>2, <1>3
<1>8. ZoneOK'
  BY <1>4, <1>6, <1>7 DEF ZoneOK
<1>9. ASSUME ~blind', NEW r \in RecId, NEW q \in RecId,
             cf'[r] # NoAddr, cf'[q] # NoAddr
      PROVE  r = q
  <2>1. th[t].listed /\ ~th[t].raced
    BY <1>2, <1>9
  <2>2. Counts(th[t], rows, row, cf)
    BY <1>1, <2>1 DEF AloneInv, Busy
  <2>3. \A x \in RecId : cf[x] = NoAddr
    BY <2>1, <2>2 DEF Counts
  <2> QED
    BY <2>3, <1>6, <1>9
<1>10. AtMostOne(blind', cf')
  BY <1>9 DEF AtMostOne
<1>11. blind' \in BOOLEAN
  BY <1>1, <1>2
<1>12. ASSUME NEW r \in RecId, cf[r] # NoAddr
       PROVE  cf'[r] = cf[r]
  <2>1. r # lastRec + 1
    BY <1>3, <1>12
  <2> QED
    BY <2>1, <1>6
<1> QED
  BY <1>4, <1>6, <1>8, <1>10, <1>11, <1>12

\* What was right stays right when a record is created.
LEMMA StillRight ==
  ASSUME TInv, NEW i \in rows, UNCHANGED <<rows, row>>,
         \A r \in RecId : cf[r] # NoAddr => cf'[r] = cf[r]
  PROVE  Right(i) => Right(i)'
<1>1. row[i].rid # 0 => row[i].rid \in RecId
  BY Facts DEF TInv, DbOK, Row
<1> QED
  BY <1>1 DEF Right

LEMMA PostInv ==
  ASSUME NEW t \in Thread, Inv, Post(t)
  PROVE  Inv'
<1>1. /\ TInv /\ HistOK /\ th \in [Thread -> ThreadState]
      /\ th[t] \in ThreadState /\ Formed(th[t])
  BY DEF Inv, TInv, ThreadsOK
<1>2. /\ th[t].pc = "post" /\ Busy(t) /\ Changes(th[t]) /\ Created(t)
      /\ UNCHANGED <<db, addr, list, used, off, dirty>>
      /\ UNCHANGED <<rows, row>>
      /\ th' = [th EXCEPT ![t].pc = "saveRow", ![t].snap.rid = lastRec + 1]
  BY DEF Post, Busy, Changes, db
<1>3. PICK n : n = lastRec + 1
  OBVIOUS
<1>4. /\ ZoneOK' /\ AtMostOne(blind', cf') /\ HistOK'
      /\ n \in RecId /\ cf'[n] = th[t].ip
      /\ \A r \in RecId : cf[r] # NoAddr => cf'[r] = cf[r]
  BY <1>1, <1>2, <1>3, CreatedOK DEF HistOK
<1>5. th[t].id # 0 /\ th[t].ip \in Addr \ {th[t].snap.cur}
  BY <1>1, <1>2 DEF Formed
<1>6. DbOK' /\ UsedOK'
  BY <1>1, <1>2, Stays
<1> DEFINE d == [th[t].snap EXCEPT !.rid = n]
           s == [th[t] EXCEPT !.pc = "saveRow", !.snap = d]
<1>7. th' = [th EXCEPT ![t] = s]
  BY <1>1, <1>2, <1>3
<1>8. d \in Row /\ d.rid = n /\ d.cur = th[t].snap.cur /\ n # 0
  BY <1>1, <1>4, CopyWith DEF ThreadState
<1> HIDE DEF d
<1>9. /\ s \in ThreadState /\ s.pc = "saveRow" /\ s.snap = d
      /\ s.id = th[t].id /\ s.ip = th[t].ip /\ s.raced = th[t].raced
  BY <1>1, <1>8 DEF ThreadState, Label
<1> HIDE DEF s
<1>10. Formed(s) /\ Changes(s) /\ Counts(s, rows', row', cf')
  BY <1>4, <1>5, <1>8, <1>9 DEF Formed, Changes, Counts
<1>11. ASSUME NEW i \in rows' \ dirty'
       PROVE  \/ Changes(s) /\ s.id = i
              \/ /\ i \in rows \ dirty /\ (Right(i) => Right(i)')
                 /\ Changes(th[t]) => i # th[t].id
  <2>1. i \in rows \ dirty
    BY <1>2
  <2>2. Right(i) => Right(i)'
    BY <2>1, <1>1, <1>2, <1>4, StillRight
  <2> QED
    BY <2>1, <2>2, <1>9, <1>10
<1> QED
  BY <1>2, <1>4, <1>6, <1>7, <1>9, <1>10, <1>11, WorkStep

LEMMA ChangeFailsInv ==
  ASSUME NEW t \in Thread, Inv, ChangeFails(t)
  PROVE  Inv'
<1>1. /\ TInv /\ AtMostOne(blind, cf) /\ HistOK /\ UsedOK
      /\ th[t] \in ThreadState /\ Formed(th[t])
  BY DEF Inv, TInv, ThreadsOK
<1>2. /\ Changes(th[t]) /\ UseUp("fault", MaxFault)
      /\ UNCHANGED <<db, addr, list, off>> /\ UNCHANGED <<rows, row>>
  BY DEF ChangeFails, Changes, db
<1>3. UsedOK'
  BY <1>1, <1>2, UseUpOK
<1>4. CASE Abort(t, {}) /\ UNCHANGED <<zone, blind>>
  <2>1. ZoneOK' /\ AtMostOne(blind', cf') /\ blind' \in BOOLEAN
    BY <1>1, <1>4, Stays DEF zone, HistOK
  <2>2. ASSUME NEW i \in rows' \ dirty'
        PROVE  i \in rows \ dirty /\ (Right(i) => Right(i)')
    BY <1>2, <1>4 DEF Abort, Right, zone
  <2> QED
    BY <2>1, <2>2, <1>2, <1>3, <1>4, AbortStep
<1>5. CASE /\ th[t].pc = "put" /\ cf[th[t].rec] # NoAddr
           /\ cf' = [cf EXCEPT ![th[t].rec] = th[t].ip]
           /\ Abort(t, Owners(th[t].rec, th[t].id))
           /\ UNCHANGED <<lastRec, blind>>
  <2>1. th[t].rec \in RecId /\ th[t].ip \in Addr
    BY <1>1, <1>5, Facts DEF Formed, Changes, ThreadState
  <2>2. ZoneOK' /\ AtMostOne(blind', cf') /\ blind' \in BOOLEAN
    BY <2>1, <1>1, <1>5, Overwritten DEF HistOK
  <2>3. /\ Owners(th[t].rec, th[t].id) \subseteq dirty'
        /\ dirty \subseteq dirty' /\ Owners(th[t].rec, th[t].id) \subseteq rows
    BY <1>5 DEF Abort, Owners
  <2>4. ASSUME NEW i \in rows' \ dirty', i # th[t].id
        PROVE  i \in rows \ dirty /\ (Right(i) => Right(i)')
    BY <2>1, <2>3, <2>4, <1>1, <1>2, <1>5, OthersRight
  <2> QED
    BY <2>2, <2>3, <2>4, <1>2, <1>3, <1>5, AbortStep
<1>6. CASE th[t].pc = "post" /\ Created(t) /\ Abort(t, {})
  <2>1. /\ ZoneOK' /\ AtMostOne(blind', cf') /\ blind' \in BOOLEAN
        /\ \A r \in RecId : cf[r] # NoAddr => cf'[r] = cf[r]
    BY <1>6, CreatedOK
  <2>2. ASSUME NEW i \in rows' \ dirty'
        PROVE  i \in rows \ dirty /\ (Right(i) => Right(i)')
    <3>1. i \in rows \ dirty
      BY <1>2, <1>6 DEF Abort
    <3> QED
      BY <3>1, <2>1, <1>1, <1>2, StillRight
  <2> QED
    BY <2>1, <2>2, <1>2, <1>3, <1>6, AbortStep
<1> QED
  BY <1>4, <1>5, <1>6 DEF ChangeFails

LEMMA SaveRowInv ==
  ASSUME NEW t \in Thread, Inv, SaveRow(t)
  PROVE  Inv'
<1> DEFINE i == th[t].id
           refused == i \in rows /\ ~Free(th[t].snap.rid, i)
<1>1. /\ TInv /\ AloneInv /\ AtMostOne(blind, cf) /\ DbOK
      /\ th \in [Thread -> ThreadState]
      /\ th[t] \in ThreadState /\ Formed(th[t])
  BY DEF Inv, TInv, ThreadsOK
<1>2. /\ th[t].pc = "saveRow" /\ Busy(t) /\ Changes(th[t])
      /\ row' = IF i \in rows /\ ~refused
                  THEN [row EXCEPT ![i] = th[t].snap] ELSE row
      /\ th' = [th EXCEPT ![t].pc = "saveIP", ![t].refused = refused]
      /\ UNCHANGED <<rows, lastId, zone, addr, list, used, hist>>
      /\ UNCHANGED <<cf, blind, dirty>>
  BY Zenon DEF SaveRow, Busy, Changes, zone, hist
<1>3. ZoneOK' /\ UsedOK' /\ HistOK' /\ AtMostOne(blind', cf')
  BY <1>1, <1>2, Stays
<1>4. i # 0 /\ th[t].ip \in Addr \ {th[t].snap.cur} /\ th[t].snap \in Row
  BY <1>1, <1>2 DEF Formed, ThreadState
<1>5. refused \in BOOLEAN
  OBVIOUS
<1> HIDE DEF refused
<1>6. /\ DbOK' /\ \A j \in RowId \ {i} : row'[j] = row[j]
      /\ i \in rows /\ ~refused => row'[i] = th[t].snap
  <2>1. i \in rows => i \in RowId
    BY <1>1 DEF DbOK
  <2>2. row \in [RowId -> Row]
    BY <1>1 DEF DbOK
  <2>3. CASE i \in rows /\ ~refused
    <3>1. row' = [row EXCEPT ![i] = th[t].snap]
      BY <2>3, <1>2
    <3> QED
      BY <3>1, <2>1, <2>2, <2>3, <1>1, <1>2, <1>4 DEF DbOK
  <2>4. CASE ~(i \in rows /\ ~refused)
    <3>1. row' = row
      BY <2>4, <1>2
    <3> QED
      BY <3>1, <2>4, <1>1, <1>2 DEF DbOK
  <2> QED
    BY <2>3, <2>4
<1>7. ~th[t].raced => Counts(th[t], rows, row, cf)
  BY <1>1, <1>2 DEF AloneInv
<1> DEFINE s == [th[t] EXCEPT !.pc = "saveIP", !.refused = refused]
<1>8. th' = [th EXCEPT ![t] = s]
  BY <1>1, <1>2
<1>9. /\ s \in ThreadState /\ s.pc = "saveIP" /\ s.refused = refused
      /\ s.id = i /\ s.snap = th[t].snap
      /\ s.ip = th[t].ip /\ s.raced = th[t].raced
  BY <1>1, <1>5 DEF ThreadState, Label
<1> HIDE DEF s
<1>10. Formed(s) /\ Changes(s)
  BY <1>4, <1>9 DEF Formed, Changes
<1>11. ~s.raced => Counts(s, rows', row', cf')
  BY <1>2, <1>6, <1>7, <1>9 DEF Counts
<1>12. ASSUME NEW j \in rows' \ dirty'
       PROVE  \/ Changes(s) /\ s.id = j
              \/ /\ j \in rows \ dirty /\ (Right(j) => Right(j)')
                 /\ Changes(th[t]) => j # th[t].id
  <2>1. j \in RowId
    BY <1>1, <1>2 DEF DbOK
  <2> QED
    BY <2>1, <1>2, <1>6, <1>9, <1>10 DEF Right
<1> QED
  BY <1>2, <1>3, <1>6, <1>8, <1>9, <1>10, <1>11, <1>12, WorkStep

\* An update that ran alone, and saved its record, leaves a row that is right.
LEMMA SaveIPInv ==
  ASSUME NEW t \in Thread, Inv, SaveIP(t)
  PROVE  Inv'
<1> DEFINE i == th[t].id
<1>1. /\ TInv /\ AloneInv /\ AtMostOne(blind, cf) /\ DbOK /\ HistOK
      /\ th[t] \in ThreadState /\ Formed(th[t])
  BY DEF Inv, TInv, ThreadsOK
<1>2. /\ th[t].pc = "saveIP" /\ Busy(t) /\ Changes(th[t]) /\ Leave(t)
      /\ row' = IF i \in rows THEN [row EXCEPT ![i].cur = th[t].ip] ELSE row
      /\ dirty' = IF th[t].raced \/ th[t].refused THEN dirty \cup {i}
                  ELSE dirty \ {i}
      /\ UNCHANGED <<rows, lastId, zone, addr, list, used, off, blind>>
      /\ UNCHANGED cf
  BY DEF SaveIP, Busy, Changes, zone
<1>3. ZoneOK' /\ UsedOK' /\ AtMostOne(blind', cf')
  BY <1>1, <1>2, Stays
<1>4. i \in RowId /\ th[t].ip \in Addr /\ th[t].ip # NoAddr
  BY <1>1, <1>2, Facts DEF Formed, ThreadState
<1>5. HistOK'
  BY <1>1, <1>2, <1>4 DEF HistOK
<1>6. row \in [RowId -> Row] /\ row[i] \in Row
  BY <1>1, <1>4 DEF DbOK
<1>7. /\ DbOK' /\ \A j \in RowId \ {i} : row'[j] = row[j]
      /\ row'[i].rid = row[i].rid
      /\ i \in rows => row'[i].cur = th[t].ip
  <2>1. CASE i \in rows
    <3>1. PICK d : d = [row[i] EXCEPT !.cur = th[t].ip]
      OBVIOUS
    <3>2. row' = [row EXCEPT ![i] = d]
      BY <2>1, <3>1, <1>2
    <3>3. d \in Row /\ d.rid = row[i].rid /\ d.cur = th[t].ip
      BY <3>1, <1>4, <1>6 DEF Row
    <3> QED
      BY <3>2, <3>3, <1>1, <1>2, <1>4, <1>6 DEF DbOK
  <2>2. CASE i \notin rows
    BY <2>2, <1>1, <1>2 DEF DbOK
  <2> QED
    BY <2>1, <2>2
<1>8. PICK s \in ThreadState :
        /\ th' = [th EXCEPT ![t] = s] /\ Formed(s) /\ s.id = 0
        /\ s.pc \in {"idle", "loop"}
        /\ s.pc = "loop" => s.raced = th[t].raced
  BY <1>1, <1>2, LeaveMoves
<1>9. Counts(s, rows', row', cf')
  BY <1>8 DEF Counts
<1>10. ASSUME NEW j \in rows' \ dirty'
       PROVE  \/ Right(j)'
              \/ /\ j \in rows \ dirty /\ (Right(j) => Right(j)')
                 /\ Changes(th[t]) => j # th[t].id
  <2>1. CASE j = i
    <3>1. ~th[t].raced /\ ~th[t].refused /\ i \in rows
      BY <2>1, <1>2, <1>10
    <3>2. Counts(th[t], rows, row, cf)
      BY <3>1, <1>1, <1>2 DEF AloneInv
    <3>3. cf[row[i].rid] = th[t].ip
      BY <3>1, <3>2, <1>2 DEF Counts
    <3> QED
      BY <2>1, <3>1, <3>3, <1>2, <1>4, <1>7 DEF Right
  <2>2. CASE j # i
    <3>1. j \in rows \ dirty /\ j \in RowId
      BY <2>2, <1>1, <1>2, <1>10 DEF DbOK
    <3> QED
      BY <2>2, <3>1, <1>2, <1>7 DEF Right
  <2> QED
    BY <2>1, <2>2
<1>11. \A j \in RowId \ {i} : row'[j].rid = row[j].rid
  BY <1>7
<1> QED
  BY <1>2, <1>3, <1>5, <1>7, <1>8, <1>9, <1>10, <1>11, WorkStep

-----------------------------------------------------------------------------
(* The user.                                                                *)

\* What the form holds is what the zone held when the page was opened.
LEMMA SubmitInv ==
  ASSUME NEW t \in Req, Inv, Submit(t)
  PROVE  Inv'
<1>1. /\ TInv /\ AloneInv /\ AtMostOne(blind, cf) /\ DbOK /\ HistOK
      /\ t \in Thread /\ t # Updater /\ th[t] \in ThreadState
  BY Facts DEF Inv, TInv, ThreadsOK, Thread
<1>2. PICK i : i = IF th[t].id = 0 THEN lastId + 1 ELSE th[t].id
  OBVIOUS
<1>3. /\ th[t].pc = "page" /\ Busy(t) /\ ~Changes(th[t]) /\ Leave(t)
      /\ row' = [row EXCEPT ![i] = th[t].snap] /\ off' = off \ {i}
      /\ dirty' = IF th[t].raced THEN dirty \cup {i} ELSE dirty \ {i}
      /\ UNCHANGED <<zone, addr, list, used, blind>> /\ UNCHANGED cf
      /\ \/ /\ th[t].id = 0 /\ lastId < MaxRow
            /\ lastId' = i /\ rows' = rows \cup {i}
         \/ /\ th[t].id \in rows
            /\ UNCHANGED <<lastId, rows>>
  BY <1>2 DEF Submit, Busy, Changes, zone
<1>4. /\ i \in RowId /\ rows' \subseteq rows \cup {i} /\ rows' \subseteq RowId
      /\ lastId' \in 0..MaxRow
  <2>1. /\ rows \subseteq RowId /\ lastId \in 0..MaxRow /\ MaxRow \in Nat
        /\ RowId = 1..MaxRow
    BY <1>1, Facts DEF DbOK
  <2>2. CASE /\ th[t].id = 0 /\ lastId < MaxRow
             /\ lastId' = i /\ rows' = rows \cup {i}
    <3>1. i = lastId + 1
      BY <2>2, <1>2
    <3>2. i \in 1..MaxRow /\ i \in 0..MaxRow
      BY <3>1, <2>1, <2>2
    <3>3. i \in RowId /\ rows' = rows \cup {i}
      BY <3>2, <2>1, <2>2
    <3>4. rows' \subseteq rows \cup {i} /\ rows' \subseteq RowId
      BY <3>3, <2>1
    <3> QED
      BY <3>2, <3>3, <3>4, <2>2
  <2>3. CASE th[t].id \in rows /\ UNCHANGED <<lastId, rows>>
    <3>1. i = th[t].id
      BY <2>1, <2>3, <1>2
    <3> QED
      BY <3>1, <2>1, <2>3
  <2> QED
    BY <2>2, <2>3, <1>3
<1>5. ZoneOK' /\ UsedOK' /\ AtMostOne(blind', cf')
  BY <1>1, <1>3, Stays
<1>6. HistOK'
  BY <1>1, <1>3, <1>4 DEF HistOK
<1>7. th[t].snap \in Row /\ row \in [RowId -> Row]
  BY <1>1 DEF ThreadState, DbOK
<1>8. DbOK' /\ row'[i] = th[t].snap /\ \A j \in RowId \ {i} : row'[j] = row[j]
  BY <1>3, <1>4, <1>7 DEF DbOK
<1>9. PICK s \in ThreadState :
        /\ th' = [th EXCEPT ![t] = s] /\ Formed(s) /\ s.id = 0
        /\ s.pc \in {"idle", "loop"}
        /\ s.pc = "loop" => s.raced = th[t].raced
  BY <1>1, <1>3, LeaveMoves
<1>10. Counts(s, rows', row', cf')
  BY <1>9 DEF Counts
<1>11. ASSUME NEW j \in rows' \ dirty'
       PROVE  \/ Right(j)'
              \/ /\ j \in rows \ dirty /\ (Right(j) => Right(j)')
                 /\ Changes(th[t]) => j # th[t].id
  <2>1. CASE j = i
    <3>1. ~th[t].raced
      BY <2>1, <1>3, <1>11
    <3>2. Counts(th[t], rows, row, cf)
      BY <3>1, <1>1, <1>3 DEF AloneInv
    <3>3. th[t].snap.rid # 0 =>
            cf[th[t].snap.rid] = th[t].snap.cur /\ th[t].snap.cur # NoAddr
      BY <3>2, <1>3 DEF Counts
    <3> QED
      BY <2>1, <3>3, <1>3, <1>8 DEF Right
  <2>2. CASE j # i
    <3>1. j \in rows \ dirty /\ j \in RowId
      BY <2>2, <1>3, <1>4, <1>11
    <3> QED
      BY <2>2, <3>1, <1>3, <1>8 DEF Right
  <2> QED
    BY <2>1, <2>2
<1> QED
  BY <1>1, <1>3, <1>5, <1>6, <1>8, <1>9, <1>10, <1>11, WorkStep

\* Nobody counts on more of a row than its DNS record, and that only as long
\* as there is one.
LEMMA RowStep ==
  ASSUME Inv, NEW i \in RowId, NEW b \in BOOLEAN,
         \/ rows' = rows /\ row' = [row EXCEPT ![i].enabled = b]
         \/ rows' = rows \ {i} /\ row' = [row EXCEPT ![i] = BlankRow],
         off' \subseteq RowId, UseUp("req", MaxReq),
         UNCHANGED <<lastId, zone, addr, th, list, dirty, blind>>
  PROVE  Inv'
<1>1. /\ TInv /\ RaceInv /\ AloneInv /\ TruthInv /\ AtMostOne(blind, cf)
      /\ DbOK /\ HistOK /\ UsedOK /\ ThreadsOK /\ ListOK /\ addr \in Addr
  BY DEF Inv, TInv
<1>2. UNCHANGED <<lastId, cf, lastRec, addr, th, list, dirty, blind>>
  BY DEF zone
<1>3. row \in [RowId -> Row] /\ row[i] \in Row /\ rows \subseteq RowId
  BY <1>1 DEF DbOK
<1>4. /\ row' \in [RowId -> Row] /\ rows' \subseteq rows
      /\ \A j \in rows' : row'[j].rid = row[j].rid /\ row'[j].cur = row[j].cur
  <2>1. CASE rows' = rows /\ row' = [row EXCEPT ![i].enabled = b]
    <3>1. PICK d : d = [row[i] EXCEPT !.enabled = b]
      OBVIOUS
    <3>2. d \in Row /\ d.rid = row[i].rid /\ d.cur = row[i].cur
      BY <3>1, <1>3 DEF Row
    <3>3. row' = [row EXCEPT ![i] = d]
      BY <2>1, <3>1
    <3> QED
      BY <2>1, <3>2, <3>3, <1>3
  <2>2. CASE rows' = rows \ {i} /\ row' = [row EXCEPT ![i] = BlankRow]
    <3>1. BlankRow \in Row
      BY Facts DEF Row, BlankRow
    <3> QED
      BY <2>2, <3>1, <1>3
  <2> QED
    BY <2>1, <2>2
<1>5. ZoneOK' /\ UsedOK' /\ HistOK' /\ DbOK' /\ ThreadsOK' /\ ListOK'
  <2>1. ZoneOK' /\ UsedOK'
    BY <1>1, Stays, UseUpOK
  <2>2. HistOK' /\ ThreadsOK' /\ ListOK'
    BY <1>1, <1>2 DEF HistOK, ThreadsOK, Formed, Changes, ListOK, Fits
  <2>3. DbOK'
    BY <1>1, <1>2, <1>3, <1>4 DEF DbOK
  <2> QED
    BY <2>1, <2>2, <2>3
<1>6. TInv'
  BY <1>1, <1>2, <1>5 DEF TInv
<1>7. RaceInv'
  BY <1>1, <1>2 DEF RaceInv, Busy
<1>8. AloneInv'
  <2>1. ASSUME NEW s, Counts(s, rows, row, cf)
        PROVE  Counts(s, rows', row', cf')
    BY <2>1, <1>2, <1>4 DEF Counts
  <2>2. Copies(list, rows, row) => Copies(list, rows', row')
    BY <1>4 DEF Copies
  <2>3. ASSUME NEW t \in Thread, Busy(t), ~th[t].raced
        PROVE  /\ Counts(th[t], rows', row', cf')
               /\ t = Updater => Copies(list, rows', row')
    BY <2>1, <2>2, <2>3, <1>1 DEF AloneInv
  <2> QED
    BY <2>3, <1>2 DEF AloneInv, Busy, Counts, Copies
<1>9. TruthInv'
  <2> SUFFICES ASSUME NEW j \in rows' \ dirty', ~Right(j)'
               PROVE  \E u \in Thread : Changes(th'[u]) /\ th'[u].id = j
    BY DEF TruthInv, Right, Changes
  <2>1. j \in rows \ dirty /\ ~Right(j)
    BY <1>2, <1>4 DEF Right
  <2> QED
    BY <2>1, <1>1, <1>2 DEF TruthInv, Changes
<1>10. AtMostOne(blind, cf)'
  BY <1>1, <1>2 DEF AtMostOne
<1> QED
  BY <1>6, <1>7, <1>8, <1>9, <1>10 DEF Inv

LEMMA UserInv ==
  ASSUME NEW i \in RowId, Inv, Enable(i) \/ Disable(i) \/ Delete(i)
  PROVE  Inv'
<1>1. off \subseteq RowId
  BY DEF Inv, TInv, HistOK
<1>2. CASE Enable(i)
  BY <1>1, <1>2, RowStep DEF Enable
<1>3. CASE Disable(i)
  BY <1>1, <1>3, RowStep DEF Disable
<1>4. CASE Delete(i)
  BY <1>1, <1>4, RowStep DEF Delete
<1> QED
  BY <1>2, <1>3, <1>4

-----------------------------------------------------------------------------
(* The world.                                                               *)

LEMMA AddressMovesInv == Inv /\ AddressMoves => Inv'
<1> SUFFICES ASSUME Inv, AddressMoves PROVE Inv'
  OBVIOUS
<1>1. /\ TInv /\ RaceInv /\ AloneInv /\ TruthInv /\ AtMostOne(blind, cf)
      /\ UsedOK /\ ThreadsOK /\ ListOK
  BY DEF Inv, TInv
<1>2. /\ UseUp("move", MaxMove) /\ addr' \in Addr
      /\ UNCHANGED <<db, zone, th, list, hist>>
      /\ UNCHANGED <<rows, row, cf, dirty, blind>>
  BY DEF AddressMoves, db, zone, hist
<1>3. ThreadsOK' /\ ListOK' /\ DbOK' /\ ZoneOK' /\ UsedOK' /\ HistOK'
  BY <1>1, <1>2, Stays, UseUpOK
     DEF ThreadsOK, Formed, Changes, ListOK, Fits
<1>4. TInv'
  BY <1>2, <1>3 DEF TInv
<1>5. RaceInv' /\ AloneInv'
  BY <1>1, <1>2 DEF RaceInv, AloneInv, Counts, Copies, Busy
<1>6. TruthInv' /\ AtMostOne(blind, cf)'
  BY <1>1, <1>2, SameTruth DEF AtMostOne
<1> QED
  BY <1>4, <1>5, <1>6 DEF Inv

\* Whoever is at work when somebody changes the zone races, and the rows the
\* record belongs to are dirty.
LEMMA RemoteChangeInv == Inv /\ RemoteChange => Inv'
<1> SUFFICES ASSUME Inv, RemoteChange PROVE Inv'
  OBVIOUS
<1>1. /\ TInv /\ RaceInv /\ TruthInv /\ AtMostOne(blind, cf)
      /\ UsedOK /\ HistOK /\ DbOK /\ ListOK
      /\ th \in [Thread -> ThreadState]
      /\ \A t \in Thread : Formed(th[t])
  BY DEF Inv, TInv, ThreadsOK
<1>2. /\ UseUp("remote", MaxRemote)
      /\ UNCHANGED <<db, lastRec, addr, list, off, blind>>
      /\ UNCHANGED <<rows, row>>
      /\ th' = [t \in Thread |-> IF Busy(t)
                  THEN [th[t] EXCEPT !.raced = TRUE] ELSE th[t]]
  BY DEF RemoteChange, db
<1>3. PICK r \in RecId, a \in Addr \cup {NoAddr} :
        /\ cf[r] # NoAddr /\ cf' = [cf EXCEPT ![r] = a]
        /\ dirty' = dirty \cup Owners(r, 0)
  BY DEF RemoteChange
<1>4. ZoneOK' /\ AtMostOne(blind', cf')
  BY <1>1, <1>2, <1>3, Overwritten
<1>5. ASSUME NEW t \in Thread
      PROVE  /\ th'[t] \in ThreadState /\ Formed(th'[t])
             /\ th'[t].pc = th[t].pc /\ th'[t].id = th[t].id
             /\ Busy(t) => th'[t].raced
  <2>1. CASE Busy(t)
    <3>1. PICK y : y = [th[t] EXCEPT !.raced = TRUE]
      OBVIOUS
    <3>2. th'[t] = y
      BY <2>1, <3>1, <1>2
    <3>3. th[t] \in ThreadState /\ Formed(th[t])
      BY <1>1
    <3>4. /\ y \in ThreadState /\ y.raced /\ y.pc = th[t].pc
          /\ y.id = th[t].id /\ y.snap = th[t].snap /\ y.ip = th[t].ip
          /\ y.rec = th[t].rec
      BY <3>1, <3>3 DEF ThreadState
    <3> QED
      BY <3>2, <3>3, <3>4 DEF Formed, Changes
  <2>2. CASE ~Busy(t)
    <3>1. th'[t] = th[t]
      BY <2>2, <1>2
    <3> QED
      BY <2>2, <3>1, <1>1
  <2> QED
    BY <2>1, <2>2
<1>6. th' \in [Thread -> ThreadState]
  BY <1>2, <1>5
<1>7. ThreadsOK'
  BY <1>5, <1>6 DEF ThreadsOK, Formed, Changes
<1>8. ListOK'
  BY <1>1, <1>2, <1>5, Facts DEF ListOK, Fits
<1>9. DbOK' /\ UsedOK' /\ HistOK'
  <2>1. DbOK' /\ UsedOK'
    BY <1>1, <1>2, Stays, UseUpOK
  <2>2. Owners(r, 0) \subseteq RowId
    BY <1>1 DEF Owners, DbOK
  <2> QED
    BY <2>1, <2>2, <1>1, <1>2, <1>3 DEF HistOK
<1>10. TInv'
  BY <1>1, <1>2, <1>4, <1>7, <1>8, <1>9 DEF TInv
<1>11. RaceInv' /\ AloneInv'
  BY <1>5 DEF RaceInv, AloneInv, Busy
<1>12. TruthInv'
  <2> SUFFICES ASSUME NEW i \in rows' \ dirty', ~Right(i)'
               PROVE  \E u \in Thread : Changes(th'[u]) /\ th'[u].id = i
    BY DEF TruthInv, Right, Changes
  <2>1. i # 0 /\ dirty \subseteq dirty' /\ Owners(r, 0) \subseteq dirty'
    BY <1>1, <1>2, <1>3, Facts DEF DbOK
  <2>2. i \in rows \ dirty /\ (Right(i) => Right(i)')
    BY <2>1, <1>1, <1>2, <1>3, OthersRight
  <2>3. PICK u \in Thread : Changes(th[u]) /\ th[u].id = i
    BY <2>2, <1>1 DEF TruthInv
  <2> QED
    BY <2>3, <1>5 DEF Changes
<1>13. AtMostOne(blind, cf)'
  BY <1>4 DEF AtMostOne
<1> QED
  BY <1>10, <1>11, <1>12, <1>13 DEF Inv

\* A crash leaves the pages, and no update.
LEMMA CrashInv == Inv /\ Crash => Inv'
<1> SUFFICES ASSUME Inv, Crash PROVE Inv'
  OBVIOUS
<1>1. /\ TInv /\ RaceInv /\ AloneInv /\ TruthInv /\ AtMostOne(blind, cf)
      /\ UsedOK /\ HistOK /\ th \in [Thread -> ThreadState]
      /\ \A t \in Thread : Formed(th[t])
  BY DEF Inv, TInv, ThreadsOK
<1>2. /\ UseUp("fault", MaxFault) /\ list' = {}
      /\ th' = [t \in Thread |-> IF th[t].pc = "page" THEN th[t]
                                 ELSE IdleThread]
      /\ dirty' = dirty \cup {th[t].id : t \in {u \in Thread : Updating(u)}}
      /\ UNCHANGED <<db, zone, addr, off, blind>>
      /\ UNCHANGED <<rows, row, cf>>
  BY DEF Crash, db, zone
<1>3. ASSUME NEW t \in Thread
      PROVE  /\ th'[t] \in ThreadState /\ Formed(th'[t])
             /\ th'[t].pc # "idle" => th'[t] = th[t] /\ th[t].pc = "page"
  BY <1>1, <1>2, IdleOK
<1>4. ThreadsOK'
  BY <1>2, <1>3 DEF ThreadsOK, Formed, Changes
<1>5. HistOK'
  <2>1. ASSUME NEW t \in Thread, Updating(t)
        PROVE  th[t].id \in RowId
    <3>1. th[t].id \in 0..MaxRow /\ th[t].id # 0
      BY <2>1, <1>1 DEF ThreadState, Formed, Updating
    <3> QED
      BY <3>1, Facts
  <2> QED
    BY <2>1, <1>1, <1>2 DEF HistOK
<1>6. DbOK' /\ ZoneOK' /\ UsedOK' /\ AtMostOne(blind', cf')
  BY <1>1, <1>2, Stays, UseUpOK
<1>7. TInv'
  BY <1>1, <1>2, <1>4, <1>5, <1>6 DEF TInv, ListOK, Fits
<1>8. ASSUME NEW t \in Thread, NEW u \in Thread, t # u, Busy(t)', Busy(u)'
      PROVE  th'[t].raced
  BY <1>1, <1>3, <1>8 DEF RaceInv, Busy
<1>9. ASSUME NEW t \in Thread, Busy(t)', ~th'[t].raced
      PROVE  Counts(th'[t], rows', row', cf') /\ Copies(list', rows', row')
  BY <1>1, <1>2, <1>3, <1>9 DEF AloneInv, Busy, Copies
<1>10. RaceInv' /\ AloneInv'
  BY <1>8, <1>9 DEF RaceInv, AloneInv, Busy, Counts, Copies
<1>11. TruthInv'
  <2>1. ASSUME NEW i \in rows' \ dirty'
        PROVE  Right(i)'
    <3>1. i \in rows \ dirty
      BY <1>2
    <3>2. \A u \in Thread : ~(Changes(th[u]) /\ th[u].id = i)
      BY <1>2 DEF Changes, Updating
    <3>3. Right(i)
      BY <3>1, <3>2, <1>1 DEF TruthInv
    <3> QED
      BY <3>3, <1>2 DEF Right
  <2> QED
    BY <2>1 DEF TruthInv, Right
<1>12. AtMostOne(blind, cf)'
  BY <1>6 DEF AtMostOne
<1> QED
  BY <1>7, <1>10, <1>11, <1>12 DEF Inv

-----------------------------------------------------------------------------
(* The theorems.                                                            *)

LEMMA InitInv == Init => Inv
<1> SUFFICES ASSUME Init PROVE Inv
  OBVIOUS
<1>1. /\ rows = {} /\ row = [i \in RowId |-> BlankRow] /\ lastId = 0
      /\ addr \in Addr /\ th = [t \in Thread |-> IdleThread] /\ list = {}
      /\ off = {} /\ dirty = {} /\ blind = FALSE
      /\ used = [move |-> 0, fault |-> 0, remote |-> 0, req |-> 0]
  BY DEF Init
<1>2. PICK a \in Addr \cup {NoAddr} :
        /\ cf = [r \in RecId |-> IF r = 1 THEN a ELSE NoAddr]
        /\ lastRec = IF a = NoAddr THEN 0 ELSE 1
  BY DEF Init
<1>3. ThreadsOK /\ ListOK
  BY <1>1, IdleOK DEF ThreadsOK, ListOK, Fits
<1>4. DbOK /\ UsedOK /\ HistOK
  <2>1. MaxRow \in Nat /\ MaxRec \in Nat
    BY Facts
  <2>2. BlankRow \in Row
    BY <2>1 DEF Row, BlankRow
  <2>3. DbOK
    BY <1>1, <2>1, <2>2 DEF DbOK
  <2>4. HistOK
    BY <1>1 DEF HistOK
  <2>5. UsedOK
    BY <1>1, Facts DEF UsedOK
  <2> QED
    BY <2>3, <2>4, <2>5
<1>5. ZoneOK /\ AtMostOne(blind, cf)
  <2>1. /\ \A r \in RecId : cf[r] = IF r = 1 THEN a ELSE NoAddr
        /\ cf \in [RecId -> Addr \cup {NoAddr}]
    BY <1>2
  <2>2. lastRec \in 0..MaxRec /\ (a # NoAddr => lastRec = 1)
    BY <1>2, Facts
  <2>3. \A r \in RecId : cf[r] # NoAddr => r = 1 /\ a # NoAddr
    BY <2>1
  <2> QED
    BY <2>1, <2>2, <2>3 DEF ZoneOK, AtMostOne
<1>6. \A t \in Thread : ~Busy(t)
  BY <1>1, IdleOK DEF Busy
<1>7. RaceInv /\ AloneInv /\ TruthInv
  BY <1>1, <1>6 DEF RaceInv, AloneInv, TruthInv
<1> QED
  BY <1>1, <1>3, <1>4, <1>5, <1>7 DEF Inv, TInv

LEMMA StutterInv == Inv /\ UNCHANGED vars => Inv'
  BY DEF Inv, TInv, ThreadsOK, ListOK, Fits, Formed, Changes, DbOK, ZoneOK,
     UsedOK, HistOK, RaceInv, AloneInv, Counts, Copies, Busy, TruthInv, Right,
     AtMostOne, vars

LEMMA NextInv == Inv /\ [Next]_vars => Inv'
<1> SUFFICES ASSUME Inv, [Next]_vars PROVE Inv'
  OBVIOUS
<1>1. ASSUME NEW t \in Thread, Work(t)
      PROVE  Inv'
  BY <1>1, DetectInv, PutByIdInv, FindInv, PutInv, PostInv, SaveRowInv,
     SaveIPInv DEF Work
<1>2. ASSUME NEW t \in Thread, Fail(t)
      PROVE  Inv'
  BY <1>2, DetectFailsInv, DetectHangsInv, PutByIdFailsInv, FindFailsInv,
     ChangeFailsInv DEF Fail
<1>3. ASSUME NEW t \in Req, Request(t)
      PROVE  Inv'
  BY <1>3, UpdateRequestInv, OpenPageInv, SubmitInv, ClosePageInv
     DEF Request
<1>4. ASSUME NEW i \in RowId, Enable(i) \/ Disable(i) \/ Delete(i)
      PROVE  Inv'
  BY <1>4, UserInv
<1>5. CASE Tick \/ NextRecord \/ AddressMoves \/ RemoteChange \/ Crash
  BY <1>5, TickInv, NextRecordInv, AddressMovesInv, RemoteChangeInv, CrashInv
<1>6. CASE UNCHANGED vars
  BY <1>6, StutterInv
<1> QED
  BY <1>1, <1>2, <1>3, <1>4, <1>5, <1>6, RouterAnswersInv DEF Next

LEMMA Inductive == Spec => []Inv
<1>1. Init => Inv
  BY InitInv
<1>2. Inv /\ [Next]_vars => Inv'
  BY NextInv
<1> QED
  BY <1>1, <1>2, PTL DEF Spec

\* Every variable keeps its type, and a thread on its way to Cloudflare knows
\* its row, an address other than that of its copy, and the record it is
\* going to change.
THEOREM TypeCorrect == Spec => []TypeOK
<1>1. Inv => TypeOK
  BY TypesFit DEF Inv
<1> QED
  BY <1>1, Inductive, PTL

\* When no update is under way, current_ip is what the DNS record
\* dns_record_id has, in every row whose last update neither failed, raced nor
\* was refused its record, and whose record nothing else has changed since:
\* for any number of rows of the name and of its records, whatever the
\* updater, the manual updates, the pages and the faults do to each other.
THEOREM RowIsRight == Spec => []RowTellsTruth
<1>1. Inv => RowTellsTruth
  <2> SUFFICES ASSUME Inv, \A t \in Thread : ~Updating(t),
                      NEW i \in rows \ dirty, row[i].rid # 0
               PROVE  cf[row[i].rid] = row[i].cur
    BY DEF RowTellsTruth
  <2>1. \A t \in Thread : ~Changes(th[t])
    BY DEF Changes, Updating
  <2>2. Right(i)
    BY <2>1 DEF Inv, TruthInv
  <2> QED
    BY <2>2 DEF Right
<1> QED
  BY <1>1, Inductive, PTL

\* A set any two members of which are one has at most one member.
LEMMA FewerThanTwo ==
  ASSUME NEW S, \A r, q \in S : r = q
  PROVE  Cardinality(S) <= 1
<1>1. CASE S = {}
  BY <1>1, FS_EmptySet
<1>2. ASSUME NEW r \in S
      PROVE  Cardinality(S) <= 1
  <2>1. S = {r}
    BY <1>2
  <2> QED
    BY <2>1, FS_Singleton
<1> QED
  BY <1>1, <1>2

\* Failed, repeated, refused and crashed updates of any number of rows make no
\* second DNS record of the name, in a zone of any size, but for those whose
\* list of the zone failed or did not show the record, or that raced.
THEOREM OneRecord == Spec => []OneRecordPerName
<1>1. Inv => OneRecordPerName
  <2> SUFFICES ASSUME Inv, ~blind
               PROVE  Cardinality({r \in RecId : cf[r] # NoAddr}) <= 1
    BY DEF OneRecordPerName
  <2> DEFINE S == {r \in RecId : cf[r] # NoAddr}
  <2>1. \A r, q \in S : r = q
    BY DEF Inv, AtMostOne
  <2> HIDE DEF S
  <2>2. Cardinality(S) <= 1
    BY <2>1, FewerThanTwo
  <2> QED
    BY <2>2 DEF S
<1> QED
  BY <1>1, Inductive, PTL
=============================================================================
