-------------------------------- MODULE DDNS --------------------------------
(***************************************************************************)
(* One DNS name: the rows of ddns_records that keep it up to date, the DNS   *)
(* records of the name at Cloudflare, the updater goroutine, the manual      *)
(* update, and the page that creates, edits, enables, disables and deletes   *)
(* the rows.                                                                 *)
(*                                                                           *)
(* The updater and the manual update run the same steps with no lock: each   *)
(* works on a copy of the row and takes one step per Cloudflare request and  *)
(* per SQL statement.  The updater works through the rows it read at the     *)
(* tick one after the other.  An address that is read from the router comes  *)
(* over a connection without a deadline: the read may hang.                  *)
(***************************************************************************)
EXTENDS Naturals, FiniteSets

CONSTANTS
  Updater,    \* the updater goroutine
  Req,        \* goroutines that serve manual updates, and pages
  Addr,       \* public addresses
  NoAddr,     \* no address
  MaxRow,     \* bound: number of rows ever created
  MaxRec,     \* bound: number of DNS records ever created
  MaxMove,    \* bound: changes of the public address
  MaxFault,   \* bound: failed Cloudflare requests, hung reads and crashes
  MaxRemote,  \* bound: changes made at Cloudflare by somebody else
  MaxReq,     \* bound: requests of the clients
  OnePage     \* the zone has at most the 100 records of one list page

Thread == Req \cup {Updater}
RowId == 1..MaxRow
RecId == 1..MaxRec

ASSUME DDNSAssumption ==
  /\ {MaxRow, MaxRec, MaxMove, MaxFault, MaxRemote, MaxReq} \subseteq Nat
  /\ OnePage \in BOOLEAN
  /\ MaxRec > 0 /\ NoAddr \notin Addr /\ Updater \notin Req

VARIABLES
  rows,       \* ids that have a row in ddns_records
  row,        \* the row of each id (blank where there is none)
  lastId,     \* the AUTOINCREMENT counter of ddns_records
  cf,         \* the DNS records of the name, NoAddr where there is none
  lastRec,    \* DNS records created so far
  addr,       \* the public address
  th,         \* the threads
  list,       \* the updater's copies of rows it has still to look at
  used,       \* how much of each bound is used
  off,        \* history: ids of which the user said "disable" last
  dirty,      \* history: ids whose last update failed, raced or could not
              \* save its record, or whose DNS record somebody else or the
              \* update of another row has changed since
  blind       \* history: a record was created without a list that showed all
              \* of the name, or by one of two racing updates

db == <<rows, row, lastId>>
zone == <<cf, lastRec>>
hist == <<off, dirty, blind>>
vars ==
  <<rows, row, lastId, cf, lastRec, addr, th, list, used, off, dirty, blind>>

-----------------------------------------------------------------------------
(* State. *)

\* current_ip, dns_record_id (0 for none) and enabled.
Row == [cur : Addr \cup {NoAddr}, rid : 0..MaxRec, enabled : BOOLEAN]

BlankRow == [cur |-> NoAddr, rid |-> 0, enabled |-> FALSE]

Label == {"idle", "loop", "detect", "hung", "putById", "find", "put", "post",
          "saveRow", "saveIP", "page"}

\* snap is the thread's copy of row id, ip the address it detected, rec the
\* DNS record it found by name, listed whether it has seen all records of the
\* name, refused whether its copy could not be saved, raced whether another
\* thread was at work meanwhile (history).
ThreadState ==
  [pc : Label, id : 0..MaxRow, snap : Row, ip : Addr \cup {NoAddr},
   rec : 0..MaxRec, listed : BOOLEAN, refused : BOOLEAN, raced : BOOLEAN]

IdleThread ==
  [pc |-> "idle", id |-> 0, snap |-> BlankRow, ip |-> NoAddr, rec |-> 0,
   listed |-> TRUE, refused |-> FALSE, raced |-> FALSE]

TypeOK ==
  /\ rows \subseteq RowId /\ row \in [RowId -> Row] /\ lastId \in 0..MaxRow
  /\ cf \in [RecId -> Addr \cup {NoAddr}] /\ lastRec \in 0..MaxRec
  /\ addr \in Addr
  /\ th \in [Thread -> ThreadState]
  /\ list \subseteq [id : RowId, snap : Row]
  /\ used \in [move : 0..MaxMove, fault : 0..MaxFault,
               remote : 0..MaxRemote, req : 0..MaxReq]
  /\ off \subseteq RowId /\ dirty \subseteq RowId /\ blind \in BOOLEAN
  /\ \A t \in Thread :
       /\ th[t].pc \notin {"idle", "loop", "detect", "hung", "page"} =>
            th[t].id # 0 /\ th[t].ip \in Addr \ {th[t].snap.cur}
       /\ th[t].pc = "putById" => th[t].snap.rid # 0
       /\ th[t].pc = "put" => th[t].rec # 0
  /\ \A r \in RecId : cf[r] # NoAddr => r <= lastRec

\* A zone that may have a record of the name, no row yet.
Init ==
  /\ rows = {} /\ row = [i \in RowId |-> BlankRow] /\ lastId = 0
  /\ \E a \in Addr \cup {NoAddr} :
       /\ cf = [r \in RecId |-> IF r = 1 THEN a ELSE NoAddr]
       /\ lastRec = IF a = NoAddr THEN 0 ELSE 1
  /\ addr \in Addr
  /\ th = [t \in Thread |-> IdleThread] /\ list = {}
  /\ used = [move |-> 0, fault |-> 0, remote |-> 0, req |-> 0]
  /\ off = {} /\ dirty = {} /\ blind = FALSE

-----------------------------------------------------------------------------
(* What the steps are built from. *)

UseUp(b, max) == used[b] < max /\ used' = [used EXCEPT ![b] = @ + 1]

Goto(t, l) == th' = [th EXCEPT ![t].pc = l]

\* A hung read does nothing.
Busy(t) == th[t].pc \notin {"idle", "hung"}

\* An update that has begun to change something.
Updating(t) == th[t].pc \notin {"idle", "loop", "detect", "hung", "page"}

\* Thread t begins to work in state s: whoever is at work races with it.
Enter(t, s) ==
  LET others == {u \in Thread \ {t} : Busy(u)} IN
  th' = [u \in Thread |->
           IF u = t THEN [s EXCEPT !.raced = @ \/ others # {}]
           ELSE IF u \in others THEN [th[u] EXCEPT !.raced = TRUE]
           ELSE th[u]]

\* The updater goes on with its list, a request is answered.
Leave(t) ==
  th' = [th EXCEPT ![t] =
           IF t = Updater /\ list # {}
             THEN [IdleThread EXCEPT !.pc = "loop", !.raced = th[t].raced]
             ELSE IdleThread]

\* The rows other than row i that DNS record r belongs to.
Owners(r, i) == {j \in rows \ {i} : row[j].rid = r}

\* UNIQUE (zone_id, record_name, record_type, dns_record_id); no record id is
\* an empty string, which is a value like any other.
Free(r, i) == Owners(r, i) = {}

\* The update has failed after it tried to change something.
Abort(t, spoilt) == Leave(t) /\ dirty' = dirty \cup {th[t].id} \cup spoilt

-----------------------------------------------------------------------------
(* The update: Updater.updateRecord and DDNSHandler.UpdateDDNS. *)

\* The updater reads the enabled records.
Tick ==
  LET enabled == {i \in rows : row[i].enabled} IN
  /\ th[Updater].pc = "idle"
  /\ enabled # {}
  /\ list' = {[id |-> i, snap |-> row[i]] : i \in enabled}
  /\ Enter(Updater, [IdleThread EXCEPT !.pc = "loop"])
  /\ UNCHANGED <<db, zone, addr, used, hist>>

\* It takes the next of them.
NextRecord ==
  /\ th[Updater].pc = "loop"
  /\ \E e \in list :
       /\ list' = list \ {e}
       /\ th' = [th EXCEPT ![Updater] = [IdleThread EXCEPT
                   !.pc = "detect", !.id = e.id, !.snap = e.snap,
                   !.raced = th[Updater].raced]]
  /\ UNCHANGED <<db, zone, addr, used, hist>>

\* A client asks for an update of an enabled record.
UpdateRequest(t) ==
  /\ UseUp("req", MaxReq)
  /\ th[t].pc = "idle"
  /\ \E i \in rows :
       /\ row[i].enabled
       /\ Enter(t, [IdleThread EXCEPT !.pc = "detect", !.id = i,
                                      !.snap = row[i]])
  /\ UNCHANGED <<db, zone, addr, list, hist>>

\* The address of the copy is compared, not that of the row or of the zone.
Detect(t) ==
  /\ th[t].pc = "detect"
  /\ IF th[t].snap.cur = addr THEN Leave(t)
     ELSE th' = [th EXCEPT ![t].ip = addr, ![t].pc =
                   IF th[t].snap.rid # 0 THEN "putById" ELSE "find"]
  /\ UNCHANGED <<db, zone, addr, list, used, hist>>

\* Mutant: the answer to the PUT is not looked at.
PutBlindly(t) ==
  /\ th[t].pc = "putById"
  /\ IF cf[th[t].snap.rid] # NoAddr
       THEN /\ cf' = [cf EXCEPT ![th[t].snap.rid] = th[t].ip]
            /\ dirty' = dirty \cup Owners(th[t].snap.rid, th[t].id)
       ELSE UNCHANGED <<cf, dirty>>
  /\ Goto(t, "saveIP")
  /\ UNCHANGED <<db, lastRec, addr, list, used, off, blind>>

\* UpdateDNSRecordByID; when the record is gone, look for one of the name.
PutById(t) ==
  /\ th[t].pc = "putById"
  /\ IF cf[th[t].snap.rid] # NoAddr
       THEN /\ cf' = [cf EXCEPT ![th[t].snap.rid] = th[t].ip]
            /\ dirty' = dirty \cup Owners(th[t].snap.rid, th[t].id)
            /\ Goto(t, "saveIP")
       ELSE Goto(t, "find") /\ UNCHANGED <<cf, dirty>>
  /\ UNCHANGED <<db, lastRec, addr, list, used, off, blind>>

\* GetDNSRecord: the first record of the name in the first page of the list of
\* the zone, which shows the records of the name in page.  One that has the
\* address already is taken as it is.
Find(t) ==
  LET all == {r \in RecId : cf[r] # NoAddr} IN
  /\ th[t].pc = "find"
  /\ \E page \in SUBSET all :
       /\ OnePage => page = all
       /\ \/ /\ page = {}
             /\ th' = [th EXCEPT ![t].pc = "post", ![t].listed = (all = {})]
          \/ \E r \in page :
               th' = IF cf[r] = th[t].ip
                       THEN [th EXCEPT ![t].pc = "saveRow", ![t].snap.rid = r]
                       ELSE [th EXCEPT ![t].pc = "put", ![t].rec = r]
  /\ UNCHANGED <<db, zone, addr, list, used, hist>>

\* UpdateDNSRecord of the record found.
Put(t) ==
  /\ th[t].pc = "put"
  /\ IF cf[th[t].rec] # NoAddr
       THEN /\ cf' = [cf EXCEPT ![th[t].rec] = th[t].ip]
            /\ th' = [th EXCEPT ![t].pc = "saveRow", ![t].rec = 0,
                                ![t].snap.rid = th[t].rec]
            /\ dirty' = dirty \cup Owners(th[t].rec, th[t].id)
       ELSE cf' = cf /\ Abort(t, {})
  /\ UNCHANGED <<db, lastRec, addr, list, used, off, blind>>

Created(t) ==
  /\ lastRec < MaxRec
  /\ lastRec' = lastRec + 1
  /\ cf' = [cf EXCEPT ![lastRec + 1] = th[t].ip]
  /\ blind' = (blind \/ ~th[t].listed \/ th[t].raced)

\* CreateDNSRecord.
Post(t) ==
  /\ th[t].pc = "post"
  /\ Created(t)
  /\ th' = [th EXCEPT ![t].pc = "saveRow", ![t].snap.rid = lastRec + 1]
  /\ UNCHANGED <<db, addr, list, used, off, dirty>>

\* UpdateDDNSRecord writes the whole copy back; its error is only logged.
SaveRow(t) ==
  LET i == th[t].id
      refused == i \in rows /\ ~Free(th[t].snap.rid, i) IN
  /\ th[t].pc = "saveRow"
  /\ row' = IF i \in rows /\ ~refused THEN [row EXCEPT ![i] = th[t].snap]
            ELSE row
  /\ th' = [th EXCEPT ![t].pc = "saveIP", ![t].refused = refused]
  /\ UNCHANGED <<rows, lastId, zone, addr, list, used, hist>>

\* Mutant: the address is not saved.
SaveNothing(t) ==
  /\ th[t].pc = "saveIP"
  /\ Leave(t)
  /\ UNCHANGED <<db, zone, addr, list, used, hist>>

\* Mutant: the UPDATE has no WHERE.
SaveEveryIP(t) ==
  LET i == th[t].id IN
  /\ th[t].pc = "saveIP"
  /\ row' = [j \in RowId |-> IF j \in rows THEN [row[j] EXCEPT !.cur = th[t].ip]
                              ELSE row[j]]
  /\ dirty' = IF th[t].raced \/ th[t].refused THEN dirty \cup {i}
              ELSE dirty \ {i}
  /\ Leave(t)
  /\ UNCHANGED <<rows, lastId, zone, addr, list, used, off, blind>>

\* UpdateDDNSRecordIP.
SaveIP(t) ==
  LET i == th[t].id IN
  /\ th[t].pc = "saveIP"
  /\ row' = IF i \in rows THEN [row EXCEPT ![i].cur = th[t].ip] ELSE row
  /\ dirty' = IF th[t].raced \/ th[t].refused THEN dirty \cup {i}
              ELSE dirty \ {i}
  /\ Leave(t)
  /\ UNCHANGED <<rows, lastId, zone, addr, list, used, off, blind>>

-----------------------------------------------------------------------------
(* The user. *)

Enable(i) ==
  /\ UseUp("req", MaxReq) /\ i \in rows
  /\ row' = [row EXCEPT ![i].enabled = TRUE]
  /\ off' = off \ {i}
  /\ UNCHANGED <<rows, lastId, zone, addr, th, list, dirty, blind>>

Disable(i) ==
  /\ UseUp("req", MaxReq) /\ i \in rows
  /\ row' = [row EXCEPT ![i].enabled = FALSE]
  /\ off' = off \cup {i}
  /\ UNCHANGED <<rows, lastId, zone, addr, th, list, dirty, blind>>

Delete(i) ==
  /\ UseUp("req", MaxReq) /\ i \in rows
  /\ rows' = rows \ {i} /\ row' = [row EXCEPT ![i] = BlankRow]
  /\ off' = off \ {i}
  /\ UNCHANGED <<lastId, zone, addr, th, list, dirty, blind>>

\* The dialog for a new record (id 0) or one of the existing: the user picks a
\* DNS record from a list of the zone, which fills in its id and its address
\* (a client of the API may name none), and the form always says enabled.
OpenPage(t) ==
  /\ UseUp("req", MaxReq) /\ th[t].pc = "idle"
  /\ \E i \in rows \cup {0}, r \in RecId \cup {0} :
       /\ r # 0 => cf[r] # NoAddr
       /\ Enter(t, [IdleThread EXCEPT !.pc = "page", !.id = i,
                      !.snap = [cur |-> IF r = 0 THEN NoAddr ELSE cf[r],
                                rid |-> r, enabled |-> TRUE]])
  /\ UNCHANGED <<db, zone, addr, list, hist>>

\* CreateDDNSRecord or UpdateDDNSRecord with what the form holds.
Submit(t) ==
  LET i == IF th[t].id = 0 THEN lastId + 1 ELSE th[t].id IN
  /\ th[t].pc = "page" /\ Free(th[t].snap.rid, i)
  /\ \/ /\ th[t].id = 0 /\ lastId < MaxRow
        /\ lastId' = i /\ rows' = rows \cup {i}
     \/ /\ th[t].id \in rows
        /\ UNCHANGED <<lastId, rows>>
  /\ row' = [row EXCEPT ![i] = th[t].snap]
  /\ off' = off \ {i}
  /\ dirty' = IF th[t].raced THEN dirty \cup {i} ELSE dirty \ {i}
  /\ Leave(t)
  /\ UNCHANGED <<zone, addr, list, used, blind>>

\* The form is closed, its data is refused, or the row it edits is gone.
ClosePage(t) ==
  /\ th[t].pc = "page"
  /\ Leave(t)
  /\ UNCHANGED <<db, zone, addr, list, used, hist>>

-----------------------------------------------------------------------------
(* The world. *)

AddressMoves ==
  /\ UseUp("move", MaxMove)
  /\ \E a \in Addr \ {addr} : addr' = a
  /\ UNCHANGED <<db, zone, th, list, hist>>

\* Somebody deletes a DNS record or changes its address.
RemoteChange ==
  /\ UseUp("remote", MaxRemote)
  /\ \E r \in RecId, a \in Addr \cup {NoAddr} :
       /\ cf[r] # NoAddr /\ a # cf[r]
       /\ cf' = [cf EXCEPT ![r] = a]
       /\ dirty' = dirty \cup Owners(r, 0)
  /\ th' = [t \in Thread |-> IF Busy(t) THEN [th[t] EXCEPT !.raced = TRUE]
                             ELSE th[t]]
  /\ UNCHANGED <<db, lastRec, addr, list, off, blind>>

\* Mutant: the error of the detection is ignored.
DetectFailsEmpty(t) ==
  /\ UseUp("fault", MaxFault) /\ th[t].pc = "detect"
  /\ Goto(t, "find")
  /\ UNCHANGED <<db, zone, addr, list, hist>>

\* The address cannot be detected.
DetectFails(t) ==
  /\ UseUp("fault", MaxFault) /\ th[t].pc = "detect"
  /\ Leave(t)
  /\ UNCHANGED <<db, zone, addr, list, hist>>

\* The router does not answer: the read waits for as long as it takes.
DetectHangs(t) ==
  /\ UseUp("fault", MaxFault) /\ th[t].pc = "detect"
  /\ Goto(t, "hung")
  /\ UNCHANGED <<db, zone, addr, list, hist>>

\* It answers after all; whoever was at work meanwhile has raced.
RouterAnswers(t) ==
  /\ th[t].pc = "hung"
  /\ Enter(t, [th[t] EXCEPT !.pc = "detect", !.raced = TRUE])
  /\ UNCHANGED <<db, zone, addr, list, used, hist>>

\* Mutant: a failed PUT is followed by a POST at once.
PutByIdFailsToPost(t) ==
  /\ UseUp("fault", MaxFault) /\ th[t].pc = "putById"
  /\ Goto(t, "post")
  /\ UNCHANGED <<db, zone, addr, list, hist>>

\* A PUT breaks off, done or not: the fallback runs all the same.
PutByIdFails(t) ==
  /\ UseUp("fault", MaxFault) /\ th[t].pc = "putById"
  /\ \/ UNCHANGED <<cf, dirty>>
     \/ /\ cf[th[t].snap.rid] # NoAddr
        /\ cf' = [cf EXCEPT ![th[t].snap.rid] = th[t].ip]
        /\ dirty' = dirty \cup Owners(th[t].snap.rid, th[t].id)
  /\ Goto(t, "find")
  /\ UNCHANGED <<db, lastRec, addr, list, off, blind>>

\* The list of the zone breaks off: any error counts as "no such record".
FindFails(t) ==
  /\ UseUp("fault", MaxFault) /\ th[t].pc = "find"
  /\ th' = [th EXCEPT ![t].pc = "post", ![t].listed = FALSE]
  /\ UNCHANGED <<db, zone, addr, list, hist>>

\* The PUT or POST of UpdateOrCreateDNSRecord breaks off, done or not.
ChangeFails(t) ==
  /\ UseUp("fault", MaxFault)
  /\ \/ /\ th[t].pc \in {"put", "post"} /\ Abort(t, {})
        /\ UNCHANGED <<zone, blind>>
     \/ /\ th[t].pc = "put" /\ cf[th[t].rec] # NoAddr
        /\ cf' = [cf EXCEPT ![th[t].rec] = th[t].ip]
        /\ Abort(t, Owners(th[t].rec, th[t].id))
        /\ UNCHANGED <<lastRec, blind>>
     \/ th[t].pc = "post" /\ Created(t) /\ Abort(t, {})
  /\ UNCHANGED <<db, addr, list, off>>

\* The Manager dies; the pages stay open.
Crash ==
  /\ UseUp("fault", MaxFault)
  /\ \E t \in Thread : th[t].pc \notin {"idle", "page"}
  /\ th' = [t \in Thread |-> IF th[t].pc = "page" THEN th[t] ELSE IdleThread]
  /\ list' = {}
  /\ dirty' = dirty \cup {th[t].id : t \in {u \in Thread : Updating(u)}}
  /\ UNCHANGED <<db, zone, addr, off, blind>>

-----------------------------------------------------------------------------
Work(t) ==
  \/ Detect(t) \/ PutById(t) \/ Find(t) \/ Put(t) \/ Post(t)
  \/ SaveRow(t) \/ SaveIP(t)

Fail(t) ==
  \/ DetectFails(t) \/ DetectHangs(t) \/ PutByIdFails(t) \/ FindFails(t)
  \/ ChangeFails(t)

Request(t) == UpdateRequest(t) \/ OpenPage(t) \/ Submit(t) \/ ClosePage(t)

Next ==
  \/ Tick \/ NextRecord
  \/ \E t \in Thread : Work(t) \/ Fail(t) \/ RouterAnswers(t)
  \/ \E t \in Req : Request(t)
  \/ \E i \in RowId : Enable(i) \/ Disable(i) \/ Delete(i)
  \/ AddressMoves \/ RemoteChange \/ Crash

Spec == Init /\ [][Next]_vars

\* The ticker ticks, every goroutine is scheduled and every HTTP request ends
\* (the clients' timeouts are 10 and 30 seconds): a thread at "detect" goes
\* on, unless its read from the router hangs, which nothing ends.  Users,
\* faults and the router owe nothing.
FairSpec ==
  /\ Spec
  /\ WF_vars(Tick) /\ WF_vars(NextRecord)
  /\ \A t \in Thread : WF_vars(Work(t))

-----------------------------------------------------------------------------
(* Properties. *)

\* When no update is under way, current_ip is the address the DNS record
\* dns_record_id has, in every row whose last update neither failed nor raced
\* nor was refused its record by UNIQUE, and whose record nobody else (another
\* row of the name, or somebody at Cloudflare) has changed since.  The updater
\* relies on it: it compares current_ip, and never asks Cloudflare, to decide
\* that there is nothing to do.
RowTellsTruth ==
  (\A t \in Thread : ~Updating(t)) =>
    \A i \in rows \ dirty : row[i].rid # 0 => cf[row[i].rid] = row[i].cur

\* A name gets one DNS record: failed, repeated, refused, late and crashed
\* updates of all its rows make no second one, but for those that raced or
\* whose list of the zone failed or did not show a record of the name.
OneRecordPerName ==
  ~blind => Cardinality({r \in RecId : cf[r] # NoAddr}) <= 1

\* Once the address, the users, the faults and Cloudflare settle, the updater
\* hangs in a read from the router, or every enabled row comes to show the
\* address, and so does its DNS record, unless the row's last update failed,
\* raced or was refused, or its record was changed since.
Converges ==
  <>[](\/ th[Updater].pc = "hung"
       \/ \A i \in rows : row[i].enabled =>
            /\ row[i].cur = addr
            /\ i \in dirty \/ (row[i].rid # 0 /\ cf[row[i].rid] = addr))

\* A record the user has disabled stays disabled until the user enables or
\* edits it.
DisableHolds == \A i \in off : ~row[i].enabled
=============================================================================
