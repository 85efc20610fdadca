--------------------------- MODULE OfflineProofs ---------------------------
(***************************************************************************)
(* Proofs about OfflineSync for every set of registers, offline sales,     *)
(* tickets, products, requests and baskets: a register forgets no sale     *)
(* that the server does not have, its copy of the catalogue follows the    *)
(* server's, a request that is repeated runs once, every unit that left    *)
(* the stock is on one sale, and the bill of a sale adds up.  The last but *)
(* one is for the handlers that may overlap: see Careful.                  *)
(***************************************************************************)
EXTENDS OfflineSync, SumTheorems, WellFoundedInduction, TLAPS

(***************************************************************************)
(* The invariant of the synchronisation.                                   *)
(***************************************************************************)

IsRegister(d) == /\ d = [told |-> d.told, queue |-> d.queue, reported |-> d.reported]
                 /\ d.queue \subseteq OffSales

IsSync(w) == /\ w = [terminal |-> w.terminal, batch |-> w.batch, todo |-> w.todo,
                     sale |-> w.sale, status |-> w.status, failed |-> w.failed]
             /\ w.batch \subseteq OffSales

\* There is one row for each register, offline sale and request, and queues and
\* batches hold offline sales.
Shaped ==
    /\ DOMAIN offsale = OffSales /\ DOMAIN row = OffSales
    /\ device = [m \in Terminals |-> device[m]]
    /\ \A m \in Terminals : IsRegister(device[m])
    /\ syn = [h \in Requests |-> syn[h]]
    /\ \A h \in Requests : IsSync(syn[h])

\* A sale of a batch is still to do, has failed, or is on the server.
Answered(w) == \A s \in w.batch : s \in w.todo \/ s \in w.failed \/ row[s].saved

BatchesAnswered == \A h \in Requests : Answered(syn[h])

SyncInv == Shaped /\ BatchesAnswered /\ NothingLost

-----------------------------------------------------------------------------
(***************************************************************************)
(* What a step does to a register, and to the work of one request.         *)
(***************************************************************************)

\* The queue of one register changes.
LEMMA QueueWritten ==
    ASSUME Shaped, NEW m \in Terminals, NEW q \in SUBSET OffSales,
           device' = [device EXCEPT ![m].queue = q]
    PROVE  /\ device' = [n \in Terminals |-> device'[n]]
           /\ \A n \in Terminals : IsRegister(device'[n])
           /\ device'[m].queue = q
           /\ \A n \in Terminals \ {m} : device'[n] = device[n]
<1>1. device[m] = [told |-> device[m].told, queue |-> device[m].queue,
                   reported |-> device[m].reported]
  BY DEF Shaped, IsRegister
<1>2. /\ device' = [n \in Terminals |-> device'[n]]
      /\ device'[m] = [told |-> device[m].told, queue |-> q, reported |-> device[m].reported]
      /\ \A n \in Terminals \ {m} : device'[n] = device[n]
  BY <1>1 DEF Shaped
<1>3. IsRegister(device'[m]) /\ device'[m].queue = q
  BY <1>2 DEF IsRegister
<1> QED
  BY <1>2, <1>3 DEF Shaped

\* What the register was told, and reported, is no matter of its queue.
LEMMA ToldWritten ==
    ASSUME Shaped, NEW m \in Terminals, NEW yes,
           device' = Told(m, yes) \/ device' = [device EXCEPT ![m].told = yes]
    PROVE  /\ device' = [n \in Terminals |-> device'[n]]
           /\ \A n \in Terminals : IsRegister(device'[n]) /\ device'[n].queue = device[n].queue
<1>1. device[m] = [told |-> device[m].told, queue |-> device[m].queue,
                   reported |-> device[m].reported]
  BY DEF Shaped, IsRegister
<1>2. PICK reported : /\ device' = [n \in Terminals |-> device'[n]]
                      /\ device'[m] = [told |-> yes, queue |-> device[m].queue,
                                       reported |-> reported]
                      /\ \A n \in Terminals \ {m} : device'[n] = device[n]
  <2>1. CASE device' = Told(m, yes)
    BY <1>1, <2>1 DEF Shaped, Told
  <2>2. CASE device' = [device EXCEPT ![m].told = yes]
    BY <1>1, <2>2 DEF Shaped
  <2> QED
    BY <2>1, <2>2
<1>3. IsRegister(device'[m]) /\ device'[m].queue = device[m].queue
  BY <1>2 DEF IsRegister, Shaped
<1> QED
  BY <1>2, <1>3 DEF Shaped

\* One request takes up other work.
LEMMA WorkWritten ==
    ASSUME Shaped, NEW h \in Requests, NEW w, IsSync(w), syn' = [syn EXCEPT ![h] = w]
    PROVE  /\ syn' = [g \in Requests |-> syn'[g]]
           /\ \A g \in Requests : IsSync(syn'[g])
           /\ syn'[h] = w
           /\ \A g \in Requests \ {h} : syn'[g] = syn[g]
  BY DEF Shaped

\* No work.
LEMMA NoSyncIsSync == IsSync(NoSync) /\ NoSync.batch = {}
  BY DEF IsSync, NoSync

\* One sale less to do.
LEMMA DoneWritten ==
    ASSUME Shaped, NEW h \in Requests, NEW s, NEW F, syn' = Done(h, s, F)
    PROVE  /\ syn' = [g \in Requests |-> syn'[g]]
           /\ \A g \in Requests : IsSync(syn'[g])
           /\ syn'[h].batch = syn[h].batch
           /\ syn'[h].todo = syn[h].todo \ {s} /\ syn'[h].failed = syn[h].failed \cup F
           /\ \A g \in Requests \ {h} : syn'[g] = syn[g]
<1> DEFINE w == syn[h]
           v == [terminal |-> w.terminal, batch |-> w.batch, todo |-> w.todo \ {s},
                 sale |-> None, status |-> None, failed |-> w.failed \cup F]
<1>1. w = [terminal |-> w.terminal, batch |-> w.batch, todo |-> w.todo,
           sale |-> w.sale, status |-> w.status, failed |-> w.failed]
      /\ w.batch \subseteq OffSales
  BY DEF Shaped, IsSync
<1>2. /\ syn' = [g \in Requests |-> syn'[g]]
      /\ \A g \in Requests \ {h} : syn'[g] = syn[g]
  BY DEF Shaped, Done
<1>3. syn'[h] = [w EXCEPT !.todo = @ \ {s}, !.sale = None, !.status = None,
                          !.failed = @ \cup F]
  BY DEF Shaped, Done
<1>4. syn'[h] = v
  BY <1>1, <1>3
<1>5. IsSync(v) /\ v.batch = w.batch /\ v.todo = w.todo \ {s} /\ v.failed = w.failed \cup F
  BY <1>1 DEF IsSync
<1> HIDE DEF v
<1> QED
  BY <1>2, <1>4, <1>5 DEF Shaped

-----------------------------------------------------------------------------
(***************************************************************************)
(* Each kind of step keeps the invariant.                                  *)
(***************************************************************************)

\* A step that touches neither registers nor what they sold.
LEMMA ElsewhereStep ==
    ASSUME SyncInv, UNCHANGED <<device, offsale, row, syn>>
    PROVE  SyncInv'
<1>1. Shaped'
  BY DEF SyncInv, Shaped
<1>2. BatchesAnswered'
  BY DEF SyncInv, BatchesAnswered, Answered
<1>3. NothingLost'
  BY DEF SyncInv, NothingLost
<1> QED
  BY <1>1, <1>2, <1>3 DEF SyncInv

\* A register asks whether it may sell.
LEMMA ToldStep ==
    ASSUME SyncInv, NEW h \in Requests, CheckEligibility(h)
    PROVE  SyncInv'
<1>1. Shaped /\ BatchesAnswered /\ NothingLost
  BY DEF SyncInv
<1>2. UNCHANGED <<offsale, row, syn>>
  BY DEF CheckEligibility
<1>3. PICK m \in Terminals : \E yes :
         device' = Told(m, yes) \/ device' = [device EXCEPT ![m].told = yes]
  BY DEF CheckEligibility
<1>4. /\ device' = [n \in Terminals |-> device'[n]]
      /\ \A n \in Terminals : IsRegister(device'[n]) /\ device'[n].queue = device[n].queue
  BY <1>1, <1>3, ToldWritten
<1>5. Shaped'
  BY <1>1, <1>2, <1>4 DEF Shaped
<1>6. BatchesAnswered'
  BY <1>1, <1>2 DEF BatchesAnswered, Answered
<1>7. NothingLost'
  BY <1>1, <1>2, <1>4 DEF NothingLost
<1> QED
  BY <1>5, <1>6, <1>7 DEF SyncInv

\* A sale without connection goes into the queue of its register.
LEMMA SellStep ==
    ASSUME SyncInv, NEW m \in Terminals, SellOffline(m)
    PROVE  SyncInv'
<1>1. Shaped /\ BatchesAnswered /\ NothingLost /\ UNCHANGED <<row, syn>>
  BY DEF SyncInv, SellOffline
<1>2. PICK s \in OffSales : \E sold : /\ offsale' = [offsale EXCEPT ![s] = sold]
                                      /\ device' = [device EXCEPT ![m].queue = @ \cup {s}]
  BY DEF SellOffline
<1>3. /\ DOMAIN offsale' = OffSales
      /\ \A u \in OffSales \ {s} : offsale'[u] = offsale[u]
  BY <1>1, <1>2 DEF Shaped
<1>4. device[m].queue \cup {s} \in SUBSET OffSales
      /\ device' = [device EXCEPT ![m].queue = device[m].queue \cup {s}]
  BY <1>1, <1>2 DEF Shaped, IsRegister
<1>5. /\ device' = [n \in Terminals |-> device'[n]]
      /\ \A n \in Terminals : IsRegister(device'[n])
      /\ device'[m].queue = device[m].queue \cup {s}
      /\ \A n \in Terminals \ {m} : device'[n] = device[n]
  BY <1>1, <1>4, QueueWritten
<1>6. Shaped'
  BY <1>1, <1>3, <1>5 DEF Shaped
<1>7. BatchesAnswered'
  BY <1>1 DEF BatchesAnswered, Answered
<1>8. NothingLost'
  BY <1>1, <1>3, <1>5 DEF NothingLost
<1> QED
  BY <1>6, <1>7, <1>8 DEF SyncInv

\* A synchronisation starts, stops, looks for the sale or takes the business.
LEMMA WorkStep ==
    ASSUME SyncInv, NEW h \in Requests,
           SyncStart(h) \/ SyncCrash(h) \/ Look(h) \/ TakeBusiness(h)
    PROVE  SyncInv'
<1>1. /\ Shaped /\ BatchesAnswered /\ NothingLost /\ UNCHANGED <<device, offsale, row>>
  BY DEF SyncInv, SyncStart, SyncCrash, Look, TakeBusiness
<1>2. NothingLost'
  BY <1>1 DEF NothingLost
<1>3. ASSUME NEW w, IsSync(w), syn' = [syn EXCEPT ![h] = w], Answered(w)
      PROVE  Shaped' /\ BatchesAnswered'
  <2>1. /\ syn' = [g \in Requests |-> syn'[g]]
        /\ \A g \in Requests : IsSync(syn'[g])
        /\ syn'[h] = w
        /\ \A g \in Requests \ {h} : syn'[g] = syn[g]
    BY <1>1, <1>3, WorkWritten
  <2>2. Shaped'
    BY <1>1, <2>1 DEF Shaped
  <2>3. BatchesAnswered'
    BY <1>1, <1>3, <2>1 DEF BatchesAnswered, Answered
  <2> QED
    BY <2>2, <2>3
<1>4. ASSUME NEW s, NEW F, syn' = Done(h, s, F), s \in F \/ row[s].saved
      PROVE  Shaped' /\ BatchesAnswered'
  <2>1. /\ syn' = [g \in Requests |-> syn'[g]]
        /\ \A g \in Requests : IsSync(syn'[g])
        /\ syn'[h].batch = syn[h].batch
        /\ syn'[h].todo = syn[h].todo \ {s} /\ syn'[h].failed = syn[h].failed \cup F
        /\ \A g \in Requests \ {h} : syn'[g] = syn[g]
    BY <1>1, <1>4, DoneWritten
  <2>2. Shaped'
    BY <1>1, <2>1 DEF Shaped
  <2>3. BatchesAnswered'
    BY <1>1, <1>4, <2>1 DEF BatchesAnswered, Answered
  <2> QED
    BY <2>2, <2>3
<1>5. IsSync(syn[h]) /\ Answered(syn[h])
  BY <1>1 DEF Shaped, BatchesAnswered
<1>6. CASE SyncStart(h)
  <2>1. PICK m \in Terminals :
           syn' = [syn EXCEPT ![h] =
                     [NoSync EXCEPT !.terminal = m, !.batch = device[m].queue,
                                    !.todo = device[m].queue]]
    BY <1>6 DEF SyncStart
  <2> PICK q : q = device[m].queue
    OBVIOUS
  <2> PICK n : n = NoSync
    OBVIOUS
  <2> PICK w : w = [n EXCEPT !.terminal = m, !.batch = q, !.todo = q]
    OBVIOUS
  <2>2. n = [terminal |-> n.terminal, batch |-> n.batch, todo |-> n.todo,
             sale |-> n.sale, status |-> n.status, failed |-> n.failed]
    BY NoSyncIsSync DEF IsSync
  <2>3. w = [terminal |-> m, batch |-> q, todo |-> q,
             sale |-> n.sale, status |-> n.status, failed |-> n.failed]
    BY <2>2
  <2>4. q \subseteq OffSales
    BY <1>1 DEF Shaped, IsRegister
  <2>5. IsSync(w) /\ Answered(w)
    BY <2>3, <2>4 DEF IsSync, Answered
  <2> QED
    BY <1>2, <1>3, <2>1, <2>5 DEF SyncInv
<1>7. CASE SyncCrash(h)
  <2>1. Answered(NoSync) /\ IsSync(NoSync) /\ syn' = [syn EXCEPT ![h] = NoSync]
    BY <1>7, NoSyncIsSync DEF Answered, SyncCrash
  <2> QED
    BY <1>2, <1>3, <2>1 DEF SyncInv
<1>8. CASE Look(h)
  <2>1. PICK s \in syn[h].todo :
           IF row[s].saved THEN syn' = Done(h, s, {}) ELSE syn' = [syn EXCEPT ![h].sale = s]
    BY <1>8 DEF Look
  <2>2. CASE row[s].saved
    BY <1>2, <1>4, <2>1, <2>2 DEF SyncInv
  <2>3. CASE ~row[s].saved
    <3> DEFINE w == [syn[h] EXCEPT !.sale = s]
    <3>1. IsSync(w) /\ Answered(w) /\ syn' = [syn EXCEPT ![h] = w]
      BY <1>1, <1>5, <2>1, <2>3 DEF IsSync, Answered, Shaped
    <3> QED
      BY <1>2, <1>3, <3>1 DEF SyncInv
  <2> QED
    BY <2>2, <2>3
<1>9. CASE TakeBusiness(h)
  <2>1. CASE ChannelRefused(syn[h].sale)
    <3>1. syn' = Done(h, syn[h].sale, {syn[h].sale})
      BY <1>9, <2>1 DEF TakeBusiness
    <3> QED
      BY <1>2, <1>4, <3>1 DEF SyncInv
  <2>2. CASE ~ChannelRefused(syn[h].sale)
    <3>1. PICK status : syn' = [syn EXCEPT ![h].status = status]
      BY <1>9, <2>2 DEF TakeBusiness
    <3> DEFINE w == [syn[h] EXCEPT !.status = status]
    <3>2. IsSync(w) /\ Answered(w) /\ syn' = [syn EXCEPT ![h] = w]
      BY <1>1, <1>5, <3>1 DEF IsSync, Answered, Shaped
    <3> QED
      BY <1>2, <1>3, <3>2 DEF SyncInv
  <2> QED
    BY <2>1, <2>2
<1> QED
  BY <1>6, <1>7, <1>8, <1>9

\* A sale is stored, or found to be there.
LEMMA CommitStep ==
    ASSUME SyncInv, NEW h \in Requests, SyncCommit(h)
    PROVE  SyncInv'
<1> DEFINE s == syn[h].sale
<1>1. Shaped /\ BatchesAnswered /\ NothingLost /\ UNCHANGED <<device, offsale>>
  BY DEF SyncInv, SyncCommit
<1>2. PICK F : /\ syn' = Done(h, s, F)
               /\ DOMAIN row' = OffSales
               /\ \A u \in OffSales : row[u].saved => row'[u].saved
               /\ s \in F \/ (s \in OffSales => row'[s].saved)
  <2>1. CASE Duplicate(s)
    BY <1>1, <2>1 DEF SyncCommit, Shaped
  <2>2. CASE ~Duplicate(s)
    <3>1. PICK short, review :
             /\ row' = [row EXCEPT ![s] = [saved |-> TRUE, short |-> short, review |-> review]]
             /\ syn' = Done(h, s, {})
      BY <2>2 DEF SyncCommit
    <3> QED
      BY <1>1, <3>1 DEF Shaped
  <2> QED
    BY <2>1, <2>2
<1>3. /\ syn' = [g \in Requests |-> syn'[g]]
      /\ \A g \in Requests : IsSync(syn'[g])
      /\ syn'[h].batch = syn[h].batch
      /\ syn'[h].todo = syn[h].todo \ {s} /\ syn'[h].failed = syn[h].failed \cup F
      /\ \A g \in Requests \ {h} : syn'[g] = syn[g]
  BY <1>1, <1>2, DoneWritten
<1>4. Shaped'
  BY <1>1, <1>2, <1>3 DEF Shaped
<1>5. BatchesAnswered'
  <2> SUFFICES ASSUME NEW g \in Requests, NEW u \in syn'[g].batch
               PROVE  u \in syn'[g].todo \/ u \in syn'[g].failed \/ row'[u].saved
    BY DEF BatchesAnswered, Answered
  <2>1. u \in OffSales /\ u \in syn[g].batch
    BY <1>3 DEF IsSync
  <2>2. u \in syn[g].todo \/ u \in syn[g].failed \/ row[u].saved
    BY <1>1, <2>1 DEF BatchesAnswered, Answered
  <2> QED
    BY <1>2, <1>3, <2>1, <2>2
<1>6. NothingLost'
  BY <1>1, <1>2 DEF NothingLost
<1> QED
  BY <1>4, <1>5, <1>6 DEF SyncInv

\* The register forgets what the reply reports as stored: all of it is.
LEMMA ReplyStep ==
    ASSUME SyncInv, NEW h \in Requests, SyncReply(h)
    PROVE  SyncInv'
<1> DEFINE w == syn[h]
           m == w.terminal
<1>1. /\ Shaped /\ BatchesAnswered /\ NothingLost /\ UNCHANGED <<offsale, row>>
      /\ w.todo = {} /\ syn' = [syn EXCEPT ![h] = NoSync]
  BY DEF SyncInv, SyncReply
<1>2. /\ syn' = [g \in Requests |-> syn'[g]]
      /\ \A g \in Requests : IsSync(syn'[g])
      /\ syn'[h] = NoSync
      /\ \A g \in Requests \ {h} : syn'[g] = syn[g]
  BY <1>1, NoSyncIsSync, WorkWritten
<1>3. BatchesAnswered'
  BY <1>1, <1>2, NoSyncIsSync DEF BatchesAnswered, Answered
<1>4. /\ device' = [n \in Terminals |-> device'[n]]
      /\ \A n \in Terminals : /\ IsRegister(device'[n])
                              /\ \A s \in device[n].queue \ device'[n].queue : row[s].saved
  <2>1. CASE device' = device
    BY <1>1, <2>1 DEF Shaped
  <2>2. CASE device' = [device EXCEPT ![m].queue = @ \ ReportedStored(w)]
    <3>1. CASE m \in Terminals
      <4>1. /\ device[m].queue \ ReportedStored(w) \in SUBSET OffSales
            /\ device' = [device EXCEPT ![m].queue = device[m].queue \ ReportedStored(w)]
        BY <1>1, <2>2, <3>1 DEF Shaped, IsRegister
      <4>2. /\ device' = [n \in Terminals |-> device'[n]]
            /\ \A n \in Terminals : IsRegister(device'[n])
            /\ device'[m].queue = device[m].queue \ ReportedStored(w)
            /\ \A n \in Terminals \ {m} : device'[n] = device[n]
        BY <1>1, <3>1, <4>1, QueueWritten
      <4>3. \A s \in ReportedStored(w) : row[s].saved
        BY <1>1 DEF BatchesAnswered, Answered, ReportedStored
      <4> QED
        BY <4>2, <4>3
    <3>2. CASE m \notin Terminals
      BY <1>1, <2>2, <3>2 DEF Shaped
    <3> QED
      BY <3>1, <3>2
  <2> QED
    BY <2>1, <2>2 DEF SyncReply
<1>5. Shaped'
  BY <1>1, <1>2, <1>4 DEF Shaped
<1>6. NothingLost'
  BY <1>1, <1>4 DEF NothingLost
<1> QED
  BY <1>3, <1>5, <1>6 DEF SyncInv

\* Nothing is sold at the start.
LEMMA SyncInit ==
    ASSUME OfflineInit PROVE SyncInv
<1>1. Shaped
  BY NoSyncIsSync DEF OfflineInit, Shaped, IsRegister
<1>2. BatchesAnswered
  BY NoSyncIsSync DEF OfflineInit, BatchesAnswered, Answered
<1>3. NothingLost
  BY DEF OfflineInit, NothingLost, NoSale
<1> QED
  BY <1>1, <1>2, <1>3 DEF SyncInv

\* Every step keeps it.
LEMMA SyncStep ==
    ASSUME SyncInv, [OfflineNext]_allVars PROVE SyncInv'
<1>1. ASSUME UNCHANGED offlineVars PROVE SyncInv'
  BY <1>1, ElsewhereStep DEF offlineVars
<1>2. CASE Next /\ UNCHANGED <<offlineVars, catalogVars, keyVars, bill>>
  BY <1>1, <1>2
<1>3. ASSUME NEW h \in Requests, RegisterTerminal(h) \/ UpdateTerminal(h) PROVE SyncInv'
  BY <1>3, ElsewhereStep DEF RegisterTerminal, UpdateTerminal
<1>4. ASSUME NEW h \in Requests,
             \/ KeyFind(h) \/ KeyDelete(h) \/ KeyInsert(h) \/ KeyHandle(h) \/ KeyStore(h)
             \/ KeyFail(h) \/ KeyCrash(h) \/ KeyWait(h) \/ KeyLost(h)
      PROVE  SyncInv'
  BY <1>1, <1>4 DEF KeyFind, KeyDelete, KeyInsert, KeyHandle, KeyStore, KeyFail, KeyCrash, KeyWait,
                    KeyLost, KeyEnds, KeyStep, OnlyKey
<1>5. ASSUME NEW p \in Products, EditWrite(p) \/ ChangeUnstamped(p) PROVE SyncInv'
  BY <1>1, <1>5 DEF EditWrite, ChangeUnstamped, OnlyCatalog
<1>6. CASE EditCommit \/ FetchCatalog \/ KeyExpires \/ ComputeBill
  BY <1>1, <1>6 DEF EditCommit, FetchCatalog, KeyExpires, ComputeBill, OnlyCatalog
<1>7. CASE UNCHANGED allVars
  BY <1>1, <1>7 DEF allVars
<1> QED
  BY <1>2, <1>3, <1>4, <1>5, <1>6, <1>7, ToldStep, SellStep, WorkStep, CommitStep,
     ReplyStep DEF OfflineNext

\* However synchronisations overlap, fail in part, stop, or lose their reply, a
\* register forgets a sale only once the server has it.
THEOREM SalesKept == OfflineSpec => []NothingLost
<1>1. OfflineInit => SyncInv
  BY SyncInit
<1>2. SyncInv /\ [OfflineNext]_allVars => SyncInv'
  BY SyncStep
<1>3. SyncInv => NothingLost
  BY DEF SyncInv
<1> QED
  BY <1>1, <1>2, <1>3, PTL DEF OfflineSpec

-----------------------------------------------------------------------------
(***************************************************************************)
(* The catalogue.  A register asks by the last stamp of what is active,    *)
(* which may go back when a product is deactivated: its copy is right for  *)
(* all that is listed, carries a stamp no later, and was not changed since *)
(* without one that tells.                                                 *)
(***************************************************************************)
Timed ==
    /\ edits \in Nat /\ edits <= MaxEdits
    /\ catalog = [p \in Products |-> catalog[p]]
    /\ \A p \in Products : catalog[p].stamp \in 0 .. edits
    /\ \A e \in writing : e.stamp \in 1 .. edits /\ e.product \in Products
    /\ copy = [rows |-> copy.rows, since |-> copy.since, asked |-> copy.asked]
    /\ copy.since \in 0 .. edits

RightSoFar ==
    copy.since > 0 =>
       \A p \in Listed \ untold :
          catalog[p].stamp <= copy.since => copy.rows[p] = catalog[p].is

CopyInv == Timed /\ RightSoFar /\ CopyFollows

\* A set of naturals with a bound that is not empty has a greatest element.
LEMMA GreatestExists ==
    ASSUME NEW max \in Nat, NEW S \in SUBSET (0 .. max), S # {}
    PROVE  \E x \in S : \A y \in S : y <= x
<1> DEFINE Below == {max - x : x \in S}
<1>1. \A x \in S : x \in Nat /\ x <= max /\ max - x \in Nat
  OBVIOUS
<1>2. Below \in SUBSET Nat /\ Below # {}
  BY <1>1
<1>3. \A y \in S : max - y \in Below
  OBVIOUS
<1>4. \A d \in Below : \E x \in S : d = max - x
  OBVIOUS
<1> HIDE DEF Below
<1>5. PICK d \in Below : \A e \in Below : ~(<<e, d>> \in OpToRel(<, Nat))
  BY <1>2, NatLessThanWellFounded, WFMin
<1>6. d \in Nat /\ \A e \in Below : ~(e < d)
  BY <1>2, <1>5 DEF OpToRel
<1>7. PICK x \in S : d = max - x
  BY <1>4
<1>8. ASSUME NEW y \in S PROVE y <= x
  <2>1. max - y \in Below /\ ~(max - y < max - x)
    BY <1>3, <1>6, <1>7
  <2> QED
    BY <1>1, <2>1
<1> QED
  BY <1>8

\* The version of the catalogue is no earlier than any edit of what is listed.
LEMMA LatestBounds ==
    ASSUME Timed
    PROVE  /\ LatestUpdate \in 0 .. edits
           /\ \A p \in Listed : catalog[p].stamp <= LatestUpdate
<1>1. MaxEdits \in Nat /\ edits \in Nat /\ edits <= MaxEdits
  BY OfflineAssumption DEF Timed
<1>2. CASE Listed = {}
  BY <1>1, <1>2 DEF LatestUpdate
<1>3. CASE Listed # {}
  <2> DEFINE S == {catalog[p].stamp : p \in Listed}
  <2>1. S \in SUBSET (0 .. edits) /\ S # {}
    BY <1>3 DEF Timed, Listed
  <2>2. PICK x \in S : \A y \in S : y <= x
    <3> HIDE DEF S
    <3> QED
      BY <1>1, <2>1, GreatestExists
  <2>3. x \in 0 .. MaxEdits /\ (\E p \in Listed : catalog[p].stamp = x)
        /\ \A p \in Listed : catalog[p].stamp <= x
    BY <1>1, <2>1, <2>2
  <2>4. /\ \E p \in Listed : catalog[p].stamp = LatestUpdate
        /\ \A p \in Listed : catalog[p].stamp <= LatestUpdate
    BY <1>3, <2>3 DEF LatestUpdate
  <2> QED
    BY <2>1, <2>4
<1> QED
  BY <1>2, <1>3

\* An edit is written; nobody else sees it yet.
LEMMA EditWriteStep ==
    ASSUME CopyInv, NEW p \in Products, EditWrite(p)
    PROVE  CopyInv'
<1>1. /\ Timed /\ RightSoFar /\ CopyFollows /\ UNCHANGED <<catalog, copy, untold>>
      /\ edits < MaxEdits /\ MaxEdits \in Nat /\ edits' = edits + 1
  BY OfflineAssumption DEF CopyInv, EditWrite
<1>2. \A e \in writing' : e \in writing \/ (e.stamp = edits + 1 /\ e.product = p)
  BY DEF EditWrite
<1>3. Timed'
  BY <1>1, <1>2 DEF Timed
<1>4. RightSoFar' /\ CopyFollows'
  BY <1>1 DEF RightSoFar, CopyFollows, Listed
<1> QED
  BY <1>3, <1>4 DEF CopyInv

\* One product is changed.
LEMMA ChangedStands ==
    ASSUME Timed, NEW p \in Products, NEW stamp, NEW n, Changed(p, stamp, n)
    PROVE  /\ catalog' = [o \in Products |-> catalog'[o]]
           /\ catalog'[p].stamp = stamp
           /\ \A o \in Products \ {p} : catalog'[o] = catalog[o]
           /\ copy'.rows = copy.rows /\ copy'.since = copy.since /\ copy'.asked = FALSE
           /\ copy' = [rows |-> copy'.rows, since |-> copy'.since, asked |-> copy'.asked]
<1>1. /\ catalog' = [o \in Products |-> catalog'[o]]
      /\ catalog'[p] = [stamp |-> stamp, is |-> n]
      /\ \A o \in Products \ {p} : catalog'[o] = catalog[o]
  BY DEF Changed, Timed
<1>2. /\ copy'.rows = copy.rows /\ copy'.since = copy.since /\ copy'.asked = FALSE
      /\ copy' = [rows |-> copy'.rows, since |-> copy'.since, asked |-> copy'.asked]
  BY DEF Changed, Timed
<1> QED
  BY <1>1, <1>2

\* An edit is committed: a version answered before tells it, or not.
LEMMA EditCommitStep ==
    ASSUME CopyInv, EditCommit
    PROVE  CopyInv'
<1>1. Timed /\ RightSoFar
  BY DEF CopyInv
<1>2. PICK e \in writing :
         /\ Changed(e.product, IF e.active THEN e.stamp ELSE 0, e.stamp)
         /\ writing' = writing \ {e}
         /\ untold' = IF e.stamp <= copy.since THEN untold \cup {e.product}
                      ELSE untold \ {e.product}
         /\ UNCHANGED edits
  BY DEF EditCommit
<1>3. PICK p \in Products : p = e.product
  BY <1>1 DEF Timed
<1>4. PICK stamp : stamp = IF e.active THEN e.stamp ELSE 0
  OBVIOUS
<1>5. Changed(p, stamp, e.stamp) /\ e.stamp \in 1 .. edits /\ stamp \in {0, e.stamp}
  BY <1>1, <1>2, <1>3, <1>4 DEF Timed
<1>6. /\ catalog' = [o \in Products |-> catalog'[o]]
      /\ catalog'[p].stamp = stamp
      /\ \A o \in Products \ {p} : catalog'[o] = catalog[o]
      /\ copy'.rows = copy.rows /\ copy'.since = copy.since /\ copy'.asked = FALSE
      /\ copy' = [rows |-> copy'.rows, since |-> copy'.since, asked |-> copy'.asked]
  BY <1>1, <1>5, ChangedStands
<1>7. Timed'
  BY <1>1, <1>2, <1>5, <1>6 DEF Timed
<1>8. ASSUME NEW o \in (Listed \ untold)', copy'.since > 0, catalog'[o].stamp <= copy'.since
      PROVE  copy'.rows[o] = catalog'[o].is
  <2>1. o \in Products /\ catalog'[o].stamp # 0 /\ o \notin untold'
    BY <1>8 DEF Listed
  <2>2. o # p
    <3>1. ASSUME o = p PROVE FALSE
      <4>1. stamp = e.stamp /\ e.stamp <= copy.since
        BY <1>5, <1>6, <1>8, <2>1, <3>1
      <4>2. p \in untold'
        BY <1>2, <1>3, <4>1
      <4> QED
        BY <2>1, <3>1, <4>2
    <3> QED
      BY <3>1
  <2>3. catalog'[o] = catalog[o] /\ o \notin untold
    BY <1>2, <1>3, <1>6, <2>1, <2>2
  <2> QED
    BY <1>1, <1>6, <1>8, <2>1, <2>3 DEF RightSoFar, Listed
<1>9. RightSoFar'
  BY <1>8 DEF RightSoFar
<1>10. CopyFollows'
  BY <1>6 DEF CopyFollows
<1> QED
  BY <1>7, <1>9, <1>10 DEF CopyInv

\* A change without a stamp is told by no version.
LEMMA UnstampedStep ==
    ASSUME CopyInv, NEW p \in Products, ChangeUnstamped(p)
    PROVE  CopyInv'
<1>1. /\ Timed /\ RightSoFar /\ UNCHANGED writing /\ untold' = untold \cup {p}
      /\ edits < MaxEdits /\ MaxEdits \in Nat /\ edits' = edits + 1
      /\ Changed(p, catalog[p].stamp, edits + 1)
  BY OfflineAssumption DEF CopyInv, ChangeUnstamped
<1>2. /\ catalog' = [o \in Products |-> catalog'[o]]
      /\ catalog'[p].stamp = catalog[p].stamp
      /\ \A o \in Products \ {p} : catalog'[o] = catalog[o]
      /\ copy'.rows = copy.rows /\ copy'.since = copy.since /\ copy'.asked = FALSE
      /\ copy' = [rows |-> copy'.rows, since |-> copy'.since, asked |-> copy'.asked]
  BY <1>1, ChangedStands
<1>3. Timed'
  BY <1>1, <1>2 DEF Timed
<1>4. RightSoFar'
  BY <1>1, <1>2 DEF RightSoFar, Listed
<1>5. CopyFollows'
  BY <1>2 DEF CopyFollows
<1> QED
  BY <1>3, <1>4, <1>5 DEF CopyInv

\* The register asks for the catalogue.
LEMMA FetchStep ==
    ASSUME CopyInv, FetchCatalog
    PROVE  CopyInv'
<1>1. Timed /\ RightSoFar /\ UNCHANGED <<catalog, edits, writing>>
  BY DEF CopyInv, FetchCatalog
<1>2. LatestUpdate \in 0 .. edits /\ \A p \in Listed : catalog[p].stamp <= LatestUpdate
  BY <1>1, LatestBounds
<1>3. /\ copy'.rows = IF NotModified THEN copy.rows ELSE [p \in Products |-> catalog[p].is]
      /\ copy'.since = LatestUpdate
      /\ copy' = [rows |-> copy'.rows, since |-> copy'.since, asked |-> copy'.asked]
      /\ untold' = IF NotModified THEN untold ELSE {}
  BY DEF FetchCatalog
<1>4. \A p \in Listed \ untold' : copy'.rows[p] = catalog[p].is
  <2>1. CASE NotModified
    BY <1>1, <1>2, <1>3, <2>1 DEF Timed, RightSoFar, Listed, NotModified
  <2>2. CASE ~NotModified
    BY <1>3, <2>2 DEF Listed
  <2> QED
    BY <2>1, <2>2
<1>5. Listed' = Listed
  BY <1>1 DEF Listed
<1>6. Timed'
  BY <1>1, <1>2, <1>3 DEF Timed
<1>7. RightSoFar' /\ CopyFollows'
  BY <1>1, <1>4, <1>5 DEF RightSoFar, CopyFollows
<1> QED
  BY <1>6, <1>7 DEF CopyInv

LEMMA CopyStep ==
    ASSUME CopyInv, [OfflineNext]_allVars PROVE CopyInv'
<1>1. ASSUME UNCHANGED catalogVars PROVE CopyInv'
  BY <1>1 DEF catalogVars, CopyInv, Timed, RightSoFar, CopyFollows, Listed
<1>2. CASE Next /\ UNCHANGED <<offlineVars, catalogVars, keyVars, bill>>
  BY <1>1, <1>2
<1>3. ASSUME NEW h \in Requests,
             \/ CheckEligibility(h) \/ RegisterTerminal(h) \/ UpdateTerminal(h)
             \/ SyncStart(h) \/ Look(h) \/ TakeBusiness(h) \/ SyncCommit(h)
             \/ SyncReply(h) \/ SyncCrash(h)
      PROVE  CopyInv'
  BY <1>1, <1>3 DEF CheckEligibility, RegisterTerminal, UpdateTerminal, SyncStart, Look,
                    TakeBusiness, SyncCommit, SyncReply, SyncCrash, OnlyOffline
<1>4. ASSUME NEW h \in Requests,
             \/ KeyFind(h) \/ KeyDelete(h) \/ KeyInsert(h) \/ KeyHandle(h) \/ KeyStore(h)
             \/ KeyFail(h) \/ KeyCrash(h) \/ KeyWait(h) \/ KeyLost(h)
      PROVE  CopyInv'
  BY <1>1, <1>4 DEF KeyFind, KeyDelete, KeyInsert, KeyHandle, KeyStore, KeyFail, KeyCrash, KeyWait,
                    KeyLost, KeyEnds, KeyStep, OnlyKey
<1>5. ASSUME NEW m \in Terminals, SellOffline(m) PROVE CopyInv'
  BY <1>1, <1>5 DEF SellOffline, OnlyOffline
<1>6. CASE KeyExpires \/ ComputeBill
  BY <1>1, <1>6 DEF KeyExpires, ComputeBill
<1>7. CASE UNCHANGED allVars
  BY <1>1, <1>7 DEF allVars
<1> QED
  BY <1>2, <1>3, <1>4, <1>5, <1>6, <1>7, EditWriteStep, EditCommitStep, UnstampedStep,
     FetchStep DEF OfflineNext

\* After an answer of the catalogue each product that is listed is in the copy as
\* the server has it, however products come and go between the answers and edits
\* overlap them, but for those whose last change no version told: it carried no stamp,
\* or was committed after an answer with a version as late as its stamp.
THEOREM CopyTrue == OfflineSpec => []CopyFollows
<1>1. OfflineInit => CopyInv
  <2>1. /\ catalog = [p \in Products |-> [stamp |-> 0, is |-> 0]] /\ edits = 0 /\ writing = {}
        /\ copy = [rows |-> [p \in Products |-> 0], since |-> 0, asked |-> FALSE]
        => CopyInv
    BY OfflineAssumption DEF CopyInv, Timed, RightSoFar, CopyFollows
  <2> QED
    BY <2>1 DEF OfflineInit
<1>2. CopyInv /\ [OfflineNext]_allVars => CopyInv'
  BY CopyStep
<1>3. CopyInv => CopyFollows
  BY DEF CopyInv
<1> QED
  BY <1>1, <1>2, <1>3, PTL DEF OfflineSpec

-----------------------------------------------------------------------------
(***************************************************************************)
(* The Idempotency-Key.  Handlers answer within the wait, and none fails   *)
(* or stops.                                                               *)
(***************************************************************************)
Prompt == scenario.offline \cap {"fail", "crash", "slow"} = {}

KeySteps == {"delete", "insert", "wait", "lost", "handle", "store"}

Holds(h) == pc[h] \in {"handle", "store"}

\* A request under the key knows its body, and the row of the key is well formed.
KeyTyped ==
    /\ pc = [h \in Requests |-> pc[h]]
    /\ try = [h \in Requests |-> try[h]]
    /\ ran \in [Bodies -> Nat] /\ missed \in Nat
    /\ key = [status |-> key.status, body |-> key.body, expired |-> key.expired]
    /\ key.status \in {"none", "busy", "done"}
    /\ key.status # "none" => key.body \in Bodies
    /\ key.expired \in BOOLEAN
    /\ \A h \in Requests : pc[h] \in KeySteps => try[h] \in Bodies

\* One request holds the key at most, while it is busy, and it runs the body the
\* key is kept for, which did not run before but for those that missed the deletion;
\* who lost the insert finds the key in use, or answered; so does a key that is free;
\* one that expired is only deleted.
KeyHeld ==
    /\ \A g, h \in Requests : Holds(g) /\ Holds(h) => g = h
    /\ \A h \in Requests : Holds(h) => key.status = "busy" /\ key.body = try[h]
    /\ \A h \in Requests : pc[h] = "handle" => ran[key.body] <= missed
    /\ \A h \in Requests : pc[h] = "lost" => key.status # "none"
    /\ key.status = "none" => \A b \in Bodies : ran[b] <= missed
    /\ key.expired => /\ key.status # "none"
                      /\ \A h \in Requests : pc[h] \in KeySteps => pc[h] = "delete"

KeyInv == KeyTyped /\ KeyHeld /\ HandledOnce

KeyPart == Prompt => KeyInv

\* Requests under the key are no business of the other handlers.
LEMMA KeyElsewhere ==
    ASSUME KeyInv, UNCHANGED keyVars, pc' = [h \in Requests |-> pc'[h]],
           \A h \in Requests : pc'[h] = pc[h] \/ (pc[h] \notin KeySteps /\ pc'[h] \notin KeySteps)
    PROVE  KeyInv'
<1>1. KeyTyped /\ KeyHeld /\ HandledOnce /\ UNCHANGED <<key, try, ran, missed>>
  BY DEF KeyInv, keyVars
<1>2. KeyTyped'
  BY <1>1 DEF KeyTyped
<1>3. \A h \in Requests : \A k \in KeySteps : pc'[h] = k <=> pc[h] = k
  OBVIOUS
<1>4. \A h \in Requests : /\ Holds(h)' <=> Holds(h)
                          /\ pc'[h] = "handle" <=> pc[h] = "handle"
                          /\ pc'[h] = "lost" <=> pc[h] = "lost"
                          /\ pc'[h] = "delete" <=> pc[h] = "delete"
                          /\ pc'[h] \in KeySteps => pc[h] \in KeySteps
  BY <1>3 DEF Holds, KeySteps
<1>5. KeyHeld'
  BY <1>1, <1>4 DEF KeyHeld
<1>6. HandledOnce'
  BY <1>1 DEF HandledOnce
<1> QED
  BY <1>2, <1>5, <1>6 DEF KeyInv

\* One handler goes on outside the key.
LEMMA OtherSteps ==
    ASSUME KeyInv, UNCHANGED keyVars, NEW h \in Requests, NEW step,
           pc' = [pc EXCEPT ![h] = step] \/ pc' = pc,
           pc[h] \notin KeySteps, step \notin KeySteps
    PROVE  KeyInv'
<1>1. /\ pc' = [g \in Requests |-> pc'[g]]
      /\ \A g \in Requests : pc'[g] = pc[g] \/ (pc[g] \notin KeySteps /\ pc'[g] \notin KeySteps)
  BY DEF KeyInv, KeyTyped
<1> QED
  BY <1>1, KeyElsewhere

\* The two-step sales use other steps.
LEMMA TicketsElsewhere ==
    ASSUME KeyInv, UNCHANGED keyVars, Next
    PROVE  KeyInv'
<1>1. "idle" \notin KeySteps
  BY DEF KeySteps
<1>2. ASSUME NEW h \in Requests, NEW step, NEW w, Go(h, step, w),
             pc[h] \notin KeySteps, step \notin KeySteps
      PROVE  KeyInv'
  BY <1>2, OtherSteps DEF Go
<1>3. ASSUME UNCHANGED <<scenario, pc, loc>> PROVE KeyInv'
  BY <1>3, KeyElsewhere DEF KeyInv, KeyTyped
<1>4. ASSUME NEW t \in Tickets, ClaimLapses(t) \/ Expires(t)
      PROVE  UNCHANGED <<scenario, pc, loc>>
  BY <1>4 DEF ClaimLapses, Expires
<1>5. ASSUME NEW h \in Requests, Create(h) \/ Claim(h) \/ Remove(h) \/ Reduce(h) \/ Cancel(h)
      PROVE  UNCHANGED <<scenario, pc, loc>>
  BY <1>5 DEF Create, Claim, Remove, Reduce, Cancel, LowerTo, AtOnce
<1>6. ASSUME NEW h \in Requests, AddRead(h) \/ ChargeRead(h) \/ SaleRead(h) \/ SweepRead(h)
      PROVE  \E step \in {"add", "charge", "sale", "sweep"} : \E w :
                pc[h] = "idle" /\ Go(h, step, w)
  BY <1>6 DEF AddRead, ChargeRead, SaleRead, SweepRead, MayStart
<1>7. ASSUME NEW h \in Requests, AddCommit(h) \/ ChargeCommit(h) \/ SaleCommit(h)
      PROVE  pc[h] \in {"add", "charge", "sale"} /\ Go(h, "idle", NoWork)
  BY <1>7 DEF AddCommit, ChargeCommit, SaleCommit, Finish
<1>8. ASSUME NEW h \in Requests, SweepOne(h)
      PROVE  \E step \in {"idle", "sweep"} : \E w : pc[h] = "sweep" /\ Go(h, step, w)
  BY <1>8 DEF SweepOne, Finish
<1>9. ASSUME NEW h \in Requests, CloseRead(h) \/ CloseOne(h)
      PROVE  \E step \in {"close", "rebuild"} : \E w :
                pc[h] \in {"idle", "close"} /\ Go(h, step, w)
  <2>1. CASE CloseRead(h)
    <3> DEFINE step == IF Overdue = {} THEN "rebuild" ELSE "close"
    <3>1. PICK w : pc[h] = "idle" /\ Go(h, step, w)
      BY <2>1 DEF CloseRead, MayStart
    <3>2. step \in {"close", "rebuild"}
      OBVIOUS
    <3> QED
      BY <3>1, <3>2
  <2>2. CASE CloseOne(h)
    <3>1. PICK t : pc[h] = "close" /\ Go(h, IF loc[h].todo \ {t} = {} THEN "rebuild" ELSE "close",
                                          [loc[h] EXCEPT !.todo = loc[h].todo \ {t}])
      BY <2>2 DEF CloseOne
    <3> DEFINE step == IF loc[h].todo \ {t} = {} THEN "rebuild" ELSE "close"
    <3>2. step \in {"close", "rebuild"}
      OBVIOUS
    <3> QED
      BY <3>1, <3>2
  <2> QED
    BY <1>9, <2>1, <2>2
<1>10. ASSUME NEW h \in Requests, RebuildRead(h) \/ RebuildWrite(h)
       PROVE  \E step \in {"write", "idle"} : \E w :
                 pc[h] \in {"rebuild", "write"} /\ Go(h, step, w)
  BY <1>10 DEF RebuildRead, RebuildWrite, Finish
<1>11. \A x \in {"idle", "add", "charge", "sale", "sweep", "close", "rebuild", "write"} :
          x \notin KeySteps
  BY DEF KeySteps
<1>12. ASSUME NEW h \in Requests,
              \/ Create(h) \/ Claim(h) \/ Remove(h) \/ Reduce(h) \/ AddRead(h) \/ AddCommit(h)
              \/ ChargeRead(h) \/ ChargeCommit(h) \/ Cancel(h) \/ SaleRead(h) \/ SaleCommit(h)
              \/ SweepRead(h) \/ SweepOne(h)
              \/ CloseRead(h) \/ CloseOne(h) \/ RebuildRead(h) \/ RebuildWrite(h)
       PROVE  KeyInv'
  <2>1. CASE Create(h) \/ Claim(h) \/ Remove(h) \/ Reduce(h) \/ Cancel(h)
    BY <1>3, <1>5, <2>1
  <2>2. CASE AddRead(h) \/ ChargeRead(h) \/ SaleRead(h) \/ SweepRead(h)
    BY <1>2, <1>6, <1>11, <2>2
  <2>3. CASE AddCommit(h) \/ ChargeCommit(h) \/ SaleCommit(h)
    BY <1>2, <1>7, <1>11, <2>3
  <2>4. CASE SweepOne(h)
    BY <1>2, <1>8, <1>11, <2>4
  <2>5. CASE CloseRead(h) \/ CloseOne(h)
    BY <1>2, <1>9, <1>11, <2>5
  <2>6. CASE RebuildRead(h) \/ RebuildWrite(h)
    BY <1>2, <1>10, <1>11, <2>6
  <2> QED
    BY <1>12, <2>1, <2>2, <2>3, <2>4, <2>5, <2>6
<1> QED
  BY <1>3, <1>4, <1>12 DEF Next

\* So do the terminals and the synchronisation.
LEMMA SyncElsewhere ==
    ASSUME KeyInv, NEW h \in Requests,
           \/ CheckEligibility(h) \/ RegisterTerminal(h) \/ UpdateTerminal(h)
           \/ SyncStart(h) \/ Look(h) \/ TakeBusiness(h) \/ SyncCommit(h)
           \/ SyncReply(h) \/ SyncCrash(h)
    PROVE  KeyInv'
<1>1. UNCHANGED keyVars
  BY DEF CheckEligibility, RegisterTerminal, UpdateTerminal, SyncStart, Look, TakeBusiness,
         SyncCommit, SyncReply, SyncCrash, OnlyOffline
<1>2. CASE CheckEligibility(h) \/ RegisterTerminal(h) \/ UpdateTerminal(h)
  <2>1. pc' = pc
    BY <1>2 DEF CheckEligibility, RegisterTerminal, UpdateTerminal, Still
  <2> QED
    BY <1>1, <2>1, KeyElsewhere DEF KeyInv, KeyTyped
<1>3. CASE \/ SyncStart(h) \/ Look(h) \/ TakeBusiness(h) \/ SyncCommit(h)
           \/ SyncReply(h) \/ SyncCrash(h)
  <2>1. \E step \in {"idle", "look", "begin", "sync"} :
           /\ pc[h] \in {"idle", "look", "begin", "sync"}
           /\ pc' = [pc EXCEPT ![h] = step]
    BY <1>3 DEF SyncStart, Look, TakeBusiness, SyncCommit, SyncReply, SyncCrash, MayBegin, Step
  <2>2. \A x \in {"idle", "look", "begin", "sync"} : x \notin KeySteps
    BY DEF KeySteps
  <2> QED
    BY <1>1, <2>1, <2>2, OtherSteps
<1> QED
  BY <1>2, <1>3

\* The request h takes a step under the key.
LEMMA KeyStepStands ==
    ASSUME KeyInv, NEW h \in Requests, NEW step, KeyStep(h, step)
    PROVE  /\ pc' = [g \in Requests |-> pc'[g]] /\ pc'[h] = step
           /\ \A g \in Requests \ {h} : pc'[g] = pc[g]
  BY DEF KeyInv, KeyTyped, KeyStep, Step

\* A request that ends knows no body.
LEMMA KeyEndsStands ==
    ASSUME KeyInv, NEW h \in Requests, KeyEnds(h)
    PROVE  /\ pc' = [g \in Requests |-> pc'[g]] /\ pc'[h] = "idle"
           /\ \A g \in Requests \ {h} : pc'[g] = pc[g] /\ try'[g] = try[g]
           /\ try' = [g \in Requests |-> try'[g]]
<1>1. KeyStep(h, "idle") /\ try' = [try EXCEPT ![h] = None]
  BY DEF KeyEnds
<1> QED
  BY <1>1, KeyStepStands DEF KeyInv, KeyTyped

LEMMA KeyFindStep ==
    ASSUME KeyInv, NEW h \in Requests, KeyFind(h)
    PROVE  KeyInv'
<1>1. PICK b \in Bodies : /\ try' = [try EXCEPT ![h] = b] /\ pc[h] = "idle"
                          /\ KeyStep(h, IF key.status = "none" THEN "insert"
                                        ELSE IF key.expired THEN "delete" ELSE "wait")
                          /\ UNCHANGED <<key, ran, missed>>
  BY DEF KeyFind, NotRun, MayBegin
<1>2. PICK step \in {"insert", "delete", "wait"} :
         KeyStep(h, step) /\ (key.expired => key.status = "none" \/ step = "delete")
  BY <1>1
<1>3. /\ pc' = [g \in Requests |-> pc'[g]] /\ pc'[h] = step
      /\ \A g \in Requests \ {h} : pc'[g] = pc[g] /\ try'[g] = try[g]
      /\ try' = [g \in Requests |-> try'[g]] /\ try'[h] = b
  BY <1>1, <1>2, KeyStepStands DEF KeyInv, KeyTyped
<1>4. KeyTyped'
  BY <1>1, <1>3 DEF KeyInv, KeyTyped
<1>5. KeyHeld'
  BY <1>1, <1>2, <1>3 DEF KeyInv, KeyHeld, Holds
<1>6. HandledOnce'
  BY <1>1 DEF KeyInv, HandledOnce
<1> QED
  BY <1>3, <1>4, <1>5, <1>6 DEF KeyInv

\* The first that deletes a row which expired frees the key; the next runs without it.
LEMMA KeyDeleteStep ==
    ASSUME KeyInv, NEW h \in Requests, KeyDelete(h)
    PROVE  KeyInv'
<1>1. KeyTyped /\ KeyHeld /\ HandledOnce /\ pc[h] = "delete" /\ try[h] \in Bodies
  BY DEF KeyInv, KeyDelete, KeyTyped, KeySteps
<1>2. CASE key.expired
  <2>1. /\ key' = NoKey /\ ran' = [b \in Bodies |-> 0] /\ missed' = 0
        /\ KeyStep(h, "insert") /\ UNCHANGED try
    BY <1>2 DEF KeyDelete
  <2>2. /\ pc' = [g \in Requests |-> pc'[g]] /\ pc'[h] = "insert"
        /\ \A g \in Requests \ {h} : pc'[g] = pc[g]
    BY <2>1, KeyStepStands
  <2>3. \A g \in Requests : pc[g] \in KeySteps => pc[g] = "delete"
    BY <1>1, <1>2 DEF KeyHeld
  <2>4. \A g \in Requests : pc'[g] \notin {"handle", "store", "lost"}
    BY <2>2, <2>3 DEF KeySteps
  <2>5. KeyTyped'
    BY <1>1, <2>1, <2>2 DEF KeyTyped, NoKey
  <2>6. KeyHeld' /\ HandledOnce'
    BY <2>1, <2>4 DEF KeyHeld, HandledOnce, Holds, NoKey
  <2> QED
    BY <2>5, <2>6 DEF KeyInv
<1>3. CASE ~key.expired
  <2>1. /\ ran' = [ran EXCEPT ![try[h]] = @ + 1] /\ missed' = missed + 1
        /\ KeyEnds(h) /\ UNCHANGED key
    BY <1>3 DEF KeyDelete, Runs
  <2>2. /\ pc' = [g \in Requests |-> pc'[g]] /\ pc'[h] = "idle"
        /\ \A g \in Requests \ {h} : pc'[g] = pc[g] /\ try'[g] = try[g]
        /\ try' = [g \in Requests |-> try'[g]]
    BY <2>1, KeyEndsStands
  <2>3. /\ ran' \in [Bodies -> Nat] /\ missed' \in Nat
        /\ \A b \in Bodies : ran[b] <= missed => ran'[b] <= missed'
        /\ \A b \in Bodies : ran[b] <= 1 + missed => ran'[b] <= 1 + missed'
    BY <1>1, <2>1 DEF KeyTyped
  <2>4. KeyTyped'
    BY <1>1, <2>1, <2>2, <2>3 DEF KeyTyped, KeySteps
  <2>5. \A g \in Requests : Holds(g)' => g # h /\ Holds(g) /\ try'[g] = try[g]
    BY <2>2 DEF Holds
  <2>6. \A g \in Requests : pc'[g] \in {"handle", "lost"} => g # h /\ pc[g] = pc'[g]
    BY <2>2
  <2>7. ASSUME NEW g \in Requests, pc'[g] = "handle" PROVE ran'[key'.body] <= missed'
    <3>1. pc[g] = "handle" /\ ran[key.body] <= missed
      BY <1>1, <2>6, <2>7 DEF KeyHeld
    <3>2. key.body \in Bodies
      BY <1>1, <3>1 DEF KeyHeld, KeyTyped, Holds
    <3> QED
      BY <2>1, <2>3, <3>1, <3>2
  <2>8. key'.status = "none" => \A b \in Bodies : ran'[b] <= missed'
    BY <1>1, <2>1, <2>3 DEF KeyHeld
  <2>9. KeyHeld'
    BY <1>1, <1>3, <2>1, <2>5, <2>6, <2>7, <2>8 DEF KeyHeld
  <2>10. HandledOnce'
    BY <1>1, <2>1, <2>3 DEF HandledOnce, KeyTyped
  <2> QED
    BY <2>4, <2>9, <2>10 DEF KeyInv
<1> QED
  BY <1>2, <1>3

\* The unique index lets one request in, and the others know that it did.
LEMMA KeyInsertStep ==
    ASSUME KeyInv, NEW h \in Requests, KeyInsert(h)
    PROVE  KeyInv'
<1>1. KeyTyped /\ KeyHeld /\ HandledOnce /\ pc[h] = "insert" /\ UNCHANGED <<try, ran, missed>>
  BY DEF KeyInv, KeyInsert, NotRun
<1>2. try[h] \in Bodies
  BY <1>1 DEF KeyTyped, KeySteps
<1>3. CASE key.status = "none"
  <2>1. key' = [status |-> "busy", body |-> try[h], expired |-> FALSE] /\ KeyStep(h, "handle")
    BY <1>3 DEF KeyInsert, KeyFree
  <2>2. /\ pc' = [g \in Requests |-> pc'[g]] /\ pc'[h] = "handle"
        /\ \A g \in Requests \ {h} : pc'[g] = pc[g]
    BY <2>1, KeyStepStands
  <2>3. \A g \in Requests : ~Holds(g)
    BY <1>1, <1>3 DEF KeyHeld
  <2>4. KeyTyped'
    BY <1>1, <1>2, <2>1, <2>2 DEF KeyTyped
  <2>5. KeyHeld'
    BY <1>1, <1>2, <1>3, <2>1, <2>2, <2>3 DEF KeyHeld, Holds
  <2>6. HandledOnce'
    BY <1>1, <1>2, <1>3, <2>1 DEF HandledOnce, KeyHeld, KeyTyped
  <2> QED
    BY <2>2, <2>4, <2>5, <2>6 DEF KeyInv
<1>4. CASE key.status # "none"
  <2>1. key' = key /\ KeyStep(h, "lost")
    BY <1>4 DEF KeyInsert, KeyFree
  <2>2. /\ pc' = [g \in Requests |-> pc'[g]] /\ pc'[h] = "lost"
        /\ \A g \in Requests \ {h} : pc'[g] = pc[g]
    BY <2>1, KeyStepStands
  <2>3. KeyTyped'
    BY <1>1, <1>2, <2>1, <2>2 DEF KeyTyped
  <2>4. KeyHeld'
    BY <1>1, <1>4, <2>1, <2>2 DEF KeyHeld, Holds, KeySteps
  <2>5. HandledOnce'
    BY <1>1, <2>1 DEF HandledOnce
  <2> QED
    BY <2>2, <2>3, <2>4, <2>5 DEF KeyInv
<1> QED
  BY <1>3, <1>4

\* The handler runs, for the first time.
LEMMA KeyHandleStep ==
    ASSUME KeyInv, NEW h \in Requests, KeyHandle(h)
    PROVE  KeyInv'
<1>1. /\ KeyTyped /\ KeyHeld /\ pc[h] = "handle" /\ UNCHANGED <<key, try, missed>>
      /\ ran' = [ran EXCEPT ![try[h]] = @ + 1] /\ KeyStep(h, "store")
  BY DEF KeyInv, KeyHandle, Runs
<1>2. /\ pc' = [g \in Requests |-> pc'[g]] /\ pc'[h] = "store"
      /\ \A g \in Requests \ {h} : pc'[g] = pc[g]
  BY <1>1, KeyStepStands
<1>3. /\ key.status = "busy" /\ key.body = try[h] /\ key.body \in Bodies
      /\ ran[key.body] <= missed /\ ~key.expired
      /\ \A g \in Requests : Holds(g) => g = h
  BY <1>1 DEF KeyTyped, KeyHeld, Holds, KeySteps
<1>4. ran' \in [Bodies -> Nat] /\ ran'[key.body] <= 1 + missed
  BY <1>1, <1>3 DEF KeyTyped
<1>5. KeyTyped'
  BY <1>1, <1>2, <1>3, <1>4 DEF KeyTyped, KeySteps
<1>6. KeyHeld'
  BY <1>1, <1>2, <1>3 DEF KeyHeld, Holds
<1>7. HandledOnce'
  BY <1>1, <1>4 DEF HandledOnce
<1> QED
  BY <1>2, <1>5, <1>6, <1>7 DEF KeyInv

\* Its answer is kept.
LEMMA KeyStoreStep ==
    ASSUME KeyInv, NEW h \in Requests, KeyStore(h)
    PROVE  KeyInv'
<1>1. /\ KeyTyped /\ KeyHeld /\ HandledOnce /\ pc[h] = "store" /\ UNCHANGED <<ran, missed>>
      /\ key' = [key EXCEPT !.status = "done"] /\ KeyEnds(h)
  BY DEF KeyInv, KeyStore, NotRun
<1>2. /\ pc' = [g \in Requests |-> pc'[g]] /\ pc'[h] = "idle"
      /\ \A g \in Requests \ {h} : pc'[g] = pc[g] /\ try'[g] = try[g]
      /\ try' = [g \in Requests |-> try'[g]]
  BY <1>1, KeyEndsStands
<1>3. /\ key.status = "busy" /\ key.body \in Bodies /\ ~key.expired
      /\ \A g \in Requests : Holds(g) => g = h
  BY <1>1 DEF KeyTyped, KeyHeld, Holds, KeySteps
<1>4. /\ key' = [status |-> key'.status, body |-> key'.body, expired |-> key'.expired]
      /\ key'.status = "done" /\ key'.body = key.body /\ ~key'.expired
      /\ key'.expired \in BOOLEAN
  <2>1. key'.status = "done" /\ key'.body = key.body /\ key'.expired = key.expired
        /\ key' = [status |-> key'.status, body |-> key'.body, expired |-> key'.expired]
    BY <1>1 DEF KeyTyped
  <2> QED
    BY <1>1, <1>3, <2>1 DEF KeyTyped
<1>5. KeyTyped'
  BY <1>1, <1>2, <1>3, <1>4 DEF KeyTyped, KeySteps
<1>6. KeyHeld'
  BY <1>1, <1>2, <1>3, <1>4 DEF KeyHeld, Holds
<1>7. HandledOnce'
  BY <1>1, <1>3, <1>4 DEF HandledOnce
<1> QED
  BY <1>2, <1>5, <1>6, <1>7 DEF KeyInv

\* Who waited ends; who lost the insert runs outside the key only with a body that
\* the key is not kept for.
LEMMA KeyWaitStep ==
    ASSUME KeyInv, Prompt, NEW h \in Requests, KeyWait(h) \/ KeyLost(h)
    PROVE  KeyInv'
<1>1. /\ KeyTyped /\ KeyHeld /\ HandledOnce /\ pc[h] \in {"wait", "lost"}
      /\ UNCHANGED key /\ KeyEnds(h)
  BY DEF KeyInv, KeyWait, KeyLost
<1>2. /\ pc' = [g \in Requests |-> pc'[g]] /\ pc'[h] = "idle"
      /\ \A g \in Requests \ {h} : pc'[g] = pc[g] /\ try'[g] = try[g]
      /\ try' = [g \in Requests |-> try'[g]]
  BY <1>1, KeyEndsStands
<1>3. /\ ran' \in [Bodies -> Nat] /\ missed' = missed
      /\ key.status = "none" => ran' = ran
      /\ key.status # "none" => ran'[key.body] = ran[key.body]
  <2>1. CASE KeyWait(h)
    BY <1>1, <2>1 DEF KeyWait, NotRun, KeyTyped
  <2>2. CASE KeyLost(h)
    <3>1. pc[h] = "lost" /\ key.status = "done" /\ try[h] \in Bodies
      BY <1>1, <2>2 DEF KeyLost, KeyHeld, KeyTyped, KeySteps, Slow, Prompt
    <3>2. CASE key.body = try[h]
      BY <1>1, <2>2, <3>1, <3>2 DEF KeyLost, NotRun, KeyTyped
    <3>3. CASE key.body # try[h]
      BY <1>1, <2>2, <3>1, <3>3 DEF KeyLost, Runs, KeyTyped
    <3> QED
      BY <3>2, <3>3
  <2> QED
    BY <2>1, <2>2
<1>4. KeyTyped'
  BY <1>1, <1>2, <1>3 DEF KeyTyped, KeySteps
<1>5. KeyHeld'
  BY <1>1, <1>2, <1>3 DEF KeyHeld, Holds, KeySteps
<1>6. HandledOnce'
  BY <1>1, <1>3 DEF HandledOnce
<1> QED
  BY <1>2, <1>4, <1>5, <1>6 DEF KeyInv

\* A day passes while nobody uses the key.
LEMMA KeyExpiresStep ==
    ASSUME KeyInv, KeyExpires
    PROVE  KeyInv'
<1>1. /\ KeyTyped /\ KeyHeld /\ HandledOnce /\ UNCHANGED <<scenario, pc, try, ran, missed>>
      /\ key.status # "none" /\ key' = [key EXCEPT !.expired = TRUE]
      /\ \A h \in Requests : try[h] = None
  BY DEF KeyInv, KeyExpires, vars
<1>2. \A h \in Requests : pc[h] \notin KeySteps
  BY <1>1, OfflineAssumption DEF KeyTyped
<1>3. key' = [status |-> key.status, body |-> key.body, expired |-> TRUE]
  BY <1>1 DEF KeyTyped
<1>4. KeyTyped'
  BY <1>1, <1>2, <1>3 DEF KeyTyped
<1>5. KeyHeld' /\ HandledOnce'
  BY <1>1, <1>2, <1>3 DEF KeyHeld, HandledOnce, Holds, KeySteps
<1> QED
  BY <1>1, <1>4, <1>5 DEF KeyInv

\* What clients do is fixed from the start.
LEMMA ScenarioStays == ASSUME [OfflineNext]_allVars PROVE scenario' = scenario
<1>1. CASE Next
  <2>1. ASSUME NEW h \in Requests,
               Create(h) \/ Claim(h) \/ Remove(h) \/ Reduce(h) \/ Cancel(h)
        PROVE  scenario' = scenario
    BY <2>1 DEF Create, Claim, Remove, Reduce, Cancel, LowerTo, AtOnce
  <2>2. ASSUME NEW h \in Requests,
               AddRead(h) \/ ChargeRead(h) \/ SaleRead(h) \/ SweepRead(h) \/ CloseRead(h)
        PROVE  scenario' = scenario
    BY <2>2 DEF AddRead, ChargeRead, SaleRead, SweepRead, CloseRead, Go
  <2>3. ASSUME NEW h \in Requests, AddCommit(h) \/ ChargeCommit(h) \/ SaleCommit(h)
        PROVE  scenario' = scenario
    BY <2>3 DEF AddCommit, ChargeCommit, SaleCommit, Finish, Go
  <2>4. ASSUME NEW h \in Requests,
               SweepOne(h) \/ CloseOne(h) \/ RebuildRead(h) \/ RebuildWrite(h)
        PROVE  scenario' = scenario
    BY <2>4 DEF SweepOne, CloseOne, RebuildRead, RebuildWrite, Finish, Go
  <2>5. ASSUME NEW t \in Tickets, ClaimLapses(t) \/ Expires(t) PROVE scenario' = scenario
    BY <2>5 DEF ClaimLapses, Expires
  <2> QED
    BY <1>1, <2>1, <2>2, <2>3, <2>4, <2>5 DEF Next
<1>2. ASSUME NEW h \in Requests,
             \/ CheckEligibility(h) \/ RegisterTerminal(h) \/ UpdateTerminal(h)
             \/ SyncStart(h) \/ Look(h) \/ TakeBusiness(h) \/ SyncCommit(h)
             \/ SyncReply(h) \/ SyncCrash(h)
      PROVE  scenario' = scenario
  BY <1>2 DEF CheckEligibility, RegisterTerminal, UpdateTerminal, SyncStart, Look,
              TakeBusiness, SyncCommit, SyncReply, SyncCrash, Step, Still
<1>3. ASSUME NEW h \in Requests,
             \/ KeyFind(h) \/ KeyDelete(h) \/ KeyInsert(h) \/ KeyHandle(h) \/ KeyStore(h)
             \/ KeyFail(h) \/ KeyCrash(h) \/ KeyWait(h) \/ KeyLost(h)
      PROVE  scenario' = scenario
  BY <1>3 DEF KeyFind, KeyDelete, KeyInsert, KeyHandle, KeyStore, KeyFail, KeyCrash, KeyWait, KeyLost,
              KeyEnds, KeyStep, Step
<1>4. ASSUME NEW m \in Terminals, SellOffline(m) PROVE scenario' = scenario
  BY <1>4 DEF SellOffline, Still
<1>5. ASSUME NEW p \in Products, EditWrite(p) \/ ChangeUnstamped(p) PROVE scenario' = scenario
  BY <1>5 DEF EditWrite, ChangeUnstamped, OnlyCatalog, vars
<1>6. CASE EditCommit \/ FetchCatalog \/ KeyExpires \/ ComputeBill
  BY <1>6 DEF EditCommit, FetchCatalog, KeyExpires, ComputeBill, OnlyCatalog, vars
<1>7. CASE UNCHANGED allVars
  BY <1>7 DEF allVars, vars
<1> QED
  BY <1>1, <1>2, <1>3, <1>4, <1>5, <1>6, <1>7 DEF OfflineNext

LEMMA KeyNext ==
    ASSUME KeyPart, [OfflineNext]_allVars PROVE KeyPart'
<1>1. ASSUME UNCHANGED <<vars, keyVars>>, KeyInv PROVE KeyInv'
  BY <1>1, KeyElsewhere DEF vars, KeyInv, KeyTyped
<1>2. scenario' = scenario
  BY ScenarioStays
<1>3. SUFFICES ASSUME Prompt, KeyInv PROVE KeyInv'
  BY <1>2 DEF KeyPart, Prompt
<1>4. CASE Next /\ UNCHANGED <<offlineVars, catalogVars, keyVars, bill>>
  BY <1>3, <1>4, TicketsElsewhere
<1>5. ASSUME NEW h \in Requests,
             \/ KeyFind(h) \/ KeyDelete(h) \/ KeyInsert(h) \/ KeyHandle(h) \/ KeyStore(h)
             \/ KeyFail(h) \/ KeyCrash(h) \/ KeyWait(h) \/ KeyLost(h)
      PROVE  KeyInv'
  <2>1. ~KeyFail(h) /\ ~KeyCrash(h)
    BY <1>3 DEF KeyFail, KeyCrash, Prompt
  <2> QED
    BY <1>3, <1>5, <2>1, KeyFindStep, KeyDeleteStep, KeyInsertStep, KeyHandleStep, KeyStoreStep, KeyWaitStep
<1>6. ASSUME NEW m \in Terminals, SellOffline(m) PROVE KeyInv'
  BY <1>3, <1>6, KeyElsewhere DEF SellOffline, OnlyOffline, Still, KeyInv, KeyTyped
<1>7. ASSUME NEW p \in Products, EditWrite(p) \/ ChangeUnstamped(p) PROVE KeyInv'
  BY <1>1, <1>3, <1>7 DEF EditWrite, ChangeUnstamped, OnlyCatalog
<1>8. CASE EditCommit \/ FetchCatalog \/ ComputeBill
  BY <1>1, <1>3, <1>8 DEF EditCommit, FetchCatalog, ComputeBill, OnlyCatalog
<1>9. CASE KeyExpires
  BY <1>3, <1>9, KeyExpiresStep
<1>10. CASE UNCHANGED allVars
  BY <1>1, <1>3, <1>10 DEF allVars
<1> QED
  BY <1>3, <1>4, <1>5, <1>6, <1>7, <1>8, <1>9, <1>10, SyncElsewhere DEF OfflineNext

\* For any number of requests under one key: while handlers answer within the wait,
\* and neither fail nor stop, the body the key is kept for is handled once, and once
\* more for each request that lost the deletion of the row it found expired.
THEOREM KeyedOnce == OfflineSpec => [](Prompt => HandledOnce)
<1>1. OfflineInit => KeyPart
  BY DEF OfflineInit, Init, KeyPart, KeyInv, KeyTyped, KeyHeld, HandledOnce, Holds, KeySteps,
         NoKey
<1>2. KeyPart /\ [OfflineNext]_allVars => KeyPart'
  BY KeyNext
<1>3. KeyPart => (Prompt => HandledOnce)
  BY DEF KeyPart, KeyInv
<1> QED
  BY <1>1, <1>2, <1>3, PTL DEF OfflineSpec

-----------------------------------------------------------------------------
(***************************************************************************)
(* The stock: every unit that left it is on one sale, reservations are     *)
(* what pending tickets hold, and what was short is told.                  *)
(***************************************************************************)

\* What clients may do together.  Handlers that read a row without its lock and write
\* later, and the sweep after a close, stand alone; so does whatever ends a ticket
\* while a synchronisation may hold what it read of it.
Careful(sc) ==
    \/ sc.width = 1
    \/ /\ sc.kinds \subseteq {"create", "claim", "remove", "reduce", "charge", "cancel", "sweep"}
       /\ "sync" \in sc.offline => sc.kinds \cap {"cancel", "sweep"} = {}

Steps == {"idle", "add", "charge", "sale", "sweep", "close", "rebuild", "write",
          "look", "begin", "sync", "delete", "insert", "wait", "lost", "handle", "store"}
Statuses == {"NONE", "PENDING", "CHARGED", "CANCELLED", "EXPIRED"}
TicketRows == [status : Statuses, claimed : Cashiers \cup {None}, late : BOOLEAN]
Amounts == [Products -> Nat]
Works == [ticket : Tickets \cup {None}, product : Products \cup {None}, quantity : Nat,
          todo : SUBSET Tickets, sums : [Products -> Int]]
OfflineSales == [made : BOOLEAN, ticket : Tickets \cup {None}, units : Amounts, valid : BOOLEAN]
SaleRows == [saved : BOOLEAN, review : BOOLEAN, short : SUBSET Products]

StockTypes ==
    /\ scenario \in Scenarios
    /\ ticket \in [Tickets -> TicketRows] /\ line \in [Tickets -> Amounts]
    /\ stock \in [Products -> Int] /\ reserved \in [Products -> Int]
    /\ pc \in [Requests -> Steps] /\ loc \in [Requests -> Works]
    /\ offsale \in [OffSales -> OfflineSales] /\ row \in [OffSales -> SaleRows]
    /\ IsFiniteSet(Busy)

\* A sale that is in a queue, in a batch or stored was made, and of a ticket that is there.
Made == {s \in OffSales : offsale[s].made}
MadeFirst ==
    /\ \A m \in Terminals : device[m].queue \subseteq Made
    /\ \A h \in Requests : syn[h].todo \subseteq Made
    /\ Saved \subseteq Made
    /\ \A s \in Made : offsale[s].ticket # None => ticket[offsale[s].ticket].status # "NONE"
    /\ \A t \in Tickets : ticket[t].status = "NONE" => \A p \in Products : line[t][p] = 0

\* A ticket that a synchronisation charged is charged, by one sale.
ChargedOnce ==
    \A s \in Saved : offsale[s].ticket # None /\ ~row[s].review =>
       /\ ticket[offsale[s].ticket].status = "CHARGED"
       /\ \A u \in Saved : offsale[u].ticket = offsale[s].ticket /\ ~row[u].review => u = s

\* Who reads the row of the business keeps it.
OneSale == \A g, h \in Requests :
    pc[g] \in {"charge", "sale", "sync"} /\ pc[h] \in {"charge", "sale", "sync"} => g = h

\* In a scenario of one request at a time there is one.
OneRequest == scenario.width = 1 =>
    \A g, h \in Requests : pc[g] # "idle" /\ pc[h] # "idle" => g = h

\* What a request in flight has read and will write still holds.
InHand(h) ==
    LET w == loc[h] s == syn[h].sale t == offsale[s].ticket IN
    /\ pc[h] \in {"add", "sale", "close", "rebuild", "write"} => scenario.width = 1
    /\ pc[h] = "add" => /\ w.ticket \in Tickets /\ Pending(w.ticket) /\ w.product \in Products
                        /\ line[w.ticket][w.product] = 0 /\ w.quantity <= Available(w.product)
    /\ pc[h] = "charge" => /\ w.ticket \in Tickets /\ Pending(w.ticket)
                           /\ \A p \in Products : line[w.ticket][p] <= stock[p]
    /\ pc[h] = "sale" => w.product \in Products /\ w.quantity <= Available(w.product)
                         /\ "sale" \in scenario.kinds
    /\ pc[h] = "close" => \A o \in w.todo : Pending(o)
    /\ pc[h] = "write" => w.sums = reserved
    /\ pc[h] = "sweep" => "sweep" \in scenario.kinds
    /\ pc[h] \in {"look", "begin", "sync"} => "sync" \in scenario.offline
    /\ pc[h] \in {"begin", "sync"} => s \in Made
    /\ pc[h] = "sync" => syn[h].status = IF t = None THEN None ELSE ticket[t].status

StockInv == /\ StockTypes /\ MadeFirst /\ ChargedOnce /\ OneSale /\ OneRequest
            /\ \A h \in Requests : InHand(h)
            /\ UnitsSold /\ ReservedMatches /\ ShortageTold

-----------------------------------------------------------------------------
(***************************************************************************)
(* What a change of the rows does to the books.                            *)
(***************************************************************************)
Books == ChargedOnce /\ UnitsSold /\ ReservedMatches /\ ShortageTold

StoredAs(s, p) == IF row[s].saved THEN offsale[s].units[p] ELSE 0
HeldBy(t, p) == IF Pending(t) THEN line[t][p] ELSE 0
ChargedOn(t, p) == IF ChargedThere(t) THEN line[t][p] ELSE 0

\* The sums of the books, over sets of rows that stay, before and after a step.
LEMMA SumsAre ==
    ASSUME NEW p \in Products
    PROVE  /\ Held(p) = SumFunctionOnSet([t \in Tickets |-> HeldBy(t, p)], Tickets)
           /\ Arrived(p) = SumFunctionOnSet([s \in OffSales |-> StoredAs(s, p)], OffSales)
           /\ Charged(p) = SumFunctionOnSet([t \in Tickets |-> ChargedOn(t, p)], Tickets)
           /\ IsFiniteSet(Tickets) /\ IsFiniteSet(OffSales)
  BY RowAssumption, OfflineAssumption
     DEF Held, HeldBy, Arrived, StoredAs, Charged, ChargedOn, SumFunction

LEMMA SumsAfter ==
    ASSUME NEW p \in Products
    PROVE  /\ Held(p)' = SumFunctionOnSet([t \in Tickets |-> HeldBy(t, p)'], Tickets)
           /\ Arrived(p)' = SumFunctionOnSet([s \in OffSales |-> StoredAs(s, p)'], OffSales)
           /\ Charged(p)' = SumFunctionOnSet([t \in Tickets |-> ChargedOn(t, p)'], Tickets)
  BY DEF Held, HeldBy, Arrived, StoredAs, Charged, ChargedOn, SumFunction

\* Their members are naturals.
LEMMA TermsNat ==
    ASSUME StockTypes, NEW p \in Products
    PROVE  /\ \A t \in Tickets : HeldBy(t, p) \in Nat /\ ChargedOn(t, p) \in Nat
           /\ \A s \in OffSales : StoredAs(s, p) \in Nat
           /\ stock[p] \in Int /\ reserved[p] \in Int
           /\ \A t \in Tickets : line[t][p] \in Nat
           /\ \A s \in OffSales : offsale[s].units[p] \in Nat
<1>1. \A t \in Tickets : line[t][p] \in Nat
  BY DEF StockTypes, Amounts
<1>2. \A s \in OffSales : offsale[s].units[p] \in Nat
  <2> TAKE s \in OffSales
  <2>1. offsale[s] \in OfflineSales
    BY DEF StockTypes
  <2> QED BY <2>1 DEF OfflineSales, Amounts
<1>3. stock[p] \in Int /\ reserved[p] \in Int
  BY DEF StockTypes
<1> QED
  BY <1>1, <1>2, <1>3 DEF HeldBy, ChargedOn, StoredAs

LEMMA TermsAfter ==
    ASSUME StockTypes', NEW p \in Products
    PROVE  /\ \A t \in Tickets : HeldBy(t, p)' \in Nat /\ ChargedOn(t, p)' \in Nat
           /\ \A s \in OffSales : StoredAs(s, p)' \in Nat
           /\ stock'[p] \in Int /\ reserved'[p] \in Int
<1>1. \A t \in Tickets : line'[t][p] \in Nat
  BY DEF StockTypes, Amounts
<1>2. \A s \in OffSales : offsale'[s].units[p] \in Nat
  <2> TAKE s \in OffSales
  <2>1. offsale'[s] \in OfflineSales
    BY DEF StockTypes
  <2> QED BY <2>1 DEF OfflineSales, Amounts
<1>3. stock'[p] \in Int /\ reserved'[p] \in Int
  BY DEF StockTypes
<1> QED
  BY <1>1, <1>2, <1>3 DEF HeldBy, ChargedOn, StoredAs

\* One member changes, or none.
LEMMA HeldChange ==
    ASSUME StockTypes, StockTypes', NEW p \in Products, NEW t \in Tickets,
           \A o \in Tickets \ {t} : HeldBy(o, p)' = HeldBy(o, p)
    PROVE  Held(p)' = Held(p) - HeldBy(t, p) + HeldBy(t, p)' /\ Held(p) \in Int
<1> DEFINE g == [o \in Tickets |-> HeldBy(o, p)]
           h == [o \in Tickets |-> HeldBy(o, p)']
<1>1. /\ \A o \in Tickets : g[o] \in Int /\ h[o] \in Int
      /\ \A o \in Tickets \ {t} : h[o] = g[o]
      /\ g[t] = HeldBy(t, p) /\ h[t] = HeldBy(t, p)'
  BY TermsNat, TermsAfter
<1>2. Held(p) = SumFunctionOnSet(g, Tickets) /\ IsFiniteSet(Tickets)
  BY SumsAre
<1>3. Held(p)' = SumFunctionOnSet(h, Tickets)
  BY SumsAfter
<1> HIDE DEF g, h
<1>4. SumFunctionOnSet(h, Tickets) = SumFunctionOnSet(g, Tickets) - g[t] + h[t]
      /\ SumFunctionOnSet(g, Tickets) \in Int
  BY <1>1, <1>2, SumChange, SumInt
<1> QED
  BY <1>1, <1>2, <1>3, <1>4

LEMMA HeldSame ==
    ASSUME NEW p \in Products, \A o \in Tickets : HeldBy(o, p)' = HeldBy(o, p)
    PROVE  Held(p)' = Held(p)
<1>1. [o \in Tickets |-> HeldBy(o, p)'] = [o \in Tickets |-> HeldBy(o, p)]
  OBVIOUS
<1> QED
  BY <1>1, SumsAre, SumsAfter

LEMMA ChargedChange ==
    ASSUME StockTypes, StockTypes', NEW p \in Products, NEW t \in Tickets,
           \A o \in Tickets \ {t} : ChargedOn(o, p)' = ChargedOn(o, p)
    PROVE  Charged(p)' = Charged(p) - ChargedOn(t, p) + ChargedOn(t, p)' /\ Charged(p) \in Int
<1> DEFINE g == [o \in Tickets |-> ChargedOn(o, p)]
           h == [o \in Tickets |-> ChargedOn(o, p)']
<1>1. /\ \A o \in Tickets : g[o] \in Int /\ h[o] \in Int
      /\ \A o \in Tickets \ {t} : h[o] = g[o]
      /\ g[t] = ChargedOn(t, p) /\ h[t] = ChargedOn(t, p)'
  BY TermsNat, TermsAfter
<1>2. Charged(p) = SumFunctionOnSet(g, Tickets) /\ IsFiniteSet(Tickets)
  BY SumsAre
<1>3. Charged(p)' = SumFunctionOnSet(h, Tickets)
  BY SumsAfter
<1> HIDE DEF g, h
<1>4. SumFunctionOnSet(h, Tickets) = SumFunctionOnSet(g, Tickets) - g[t] + h[t]
      /\ SumFunctionOnSet(g, Tickets) \in Int
  BY <1>1, <1>2, SumChange, SumInt
<1> QED
  BY <1>1, <1>2, <1>3, <1>4

LEMMA ChargedSame ==
    ASSUME NEW p \in Products, \A o \in Tickets : ChargedOn(o, p)' = ChargedOn(o, p)
    PROVE  Charged(p)' = Charged(p)
<1>1. [o \in Tickets |-> ChargedOn(o, p)'] = [o \in Tickets |-> ChargedOn(o, p)]
  OBVIOUS
<1> QED
  BY <1>1, SumsAre, SumsAfter

LEMMA ArrivedChange ==
    ASSUME StockTypes, StockTypes', NEW p \in Products, NEW s \in OffSales,
           \A u \in OffSales \ {s} : StoredAs(u, p)' = StoredAs(u, p)
    PROVE  Arrived(p)' = Arrived(p) - StoredAs(s, p) + StoredAs(s, p)' /\ Arrived(p) \in Int
<1> DEFINE g == [u \in OffSales |-> StoredAs(u, p)]
           h == [u \in OffSales |-> StoredAs(u, p)']
<1>1. /\ \A u \in OffSales : g[u] \in Int /\ h[u] \in Int
      /\ \A u \in OffSales \ {s} : h[u] = g[u]
      /\ g[s] = StoredAs(s, p) /\ h[s] = StoredAs(s, p)'
  BY TermsNat, TermsAfter
<1>2. Arrived(p) = SumFunctionOnSet(g, OffSales) /\ IsFiniteSet(OffSales)
  BY SumsAre
<1>3. Arrived(p)' = SumFunctionOnSet(h, OffSales)
  BY SumsAfter
<1> HIDE DEF g, h
<1>4. SumFunctionOnSet(h, OffSales) = SumFunctionOnSet(g, OffSales) - g[s] + h[s]
      /\ SumFunctionOnSet(g, OffSales) \in Int
  BY <1>1, <1>2, SumChange, SumInt
<1> QED
  BY <1>1, <1>2, <1>3, <1>4

LEMMA ArrivedSame ==
    ASSUME NEW p \in Products, \A u \in OffSales : StoredAs(u, p)' = StoredAs(u, p)
    PROVE  Arrived(p)' = Arrived(p)
<1>1. [u \in OffSales |-> StoredAs(u, p)'] = [u \in OffSales |-> StoredAs(u, p)]
  OBVIOUS
<1> QED
  BY <1>1, SumsAre, SumsAfter

\* The products' reservations are naturals where they match.
LEMMA HeldNat ==
    ASSUME StockTypes, NEW p \in Products PROVE Held(p) \in Nat /\ Charged(p) \in Nat /\ Arrived(p) \in Nat
<1> DEFINE g == [o \in Tickets |-> HeldBy(o, p)]
           c == [o \in Tickets |-> ChargedOn(o, p)]
           a == [u \in OffSales |-> StoredAs(u, p)]
<1>1. /\ \A o \in Tickets : g[o] \in Nat /\ c[o] \in Nat
      /\ \A u \in OffSales : a[u] \in Nat
  BY TermsNat
<1>2. /\ Held(p) = SumFunctionOnSet(g, Tickets) /\ IsFiniteSet(Tickets)
      /\ Charged(p) = SumFunctionOnSet(c, Tickets)
      /\ Arrived(p) = SumFunctionOnSet(a, OffSales) /\ IsFiniteSet(OffSales)
  BY SumsAre
<1> HIDE DEF g, c, a
<1> QED
  BY <1>1, <1>2, SumNat

-----------------------------------------------------------------------------
\* Sales that are stored stay as they are.
Settled == /\ scenario' = scenario /\ row' = row
           /\ \A s \in Saved : offsale'[s] = offsale[s]

LEMMA SettledStored ==
    ASSUME StockTypes, Settled
    PROVE  /\ Saved' = Saved
           /\ \A p \in Products, s \in OffSales : StoredAs(s, p)' = StoredAs(s, p)
           /\ \A p \in Products : Arrived(p)' = Arrived(p)
           /\ \A t \in Tickets : ChargedHere(t)' = ChargedHere(t)
<1>1. Saved' = Saved
  BY DEF Settled, Saved
<1>2. \A p \in Products, s \in OffSales : StoredAs(s, p)' = StoredAs(s, p)
  BY DEF Settled, StoredAs, Saved
<1>3. \A p \in Products : Arrived(p)' = Arrived(p)
  BY <1>2, ArrivedSame
<1>4. \A t \in Tickets : ChargedHere(t)' = ChargedHere(t)
  BY <1>1 DEF Settled, ChargedHere
<1> QED
  BY <1>1, <1>2, <1>3, <1>4

\* What was short is told after, as before, where stock and reservations stay.
LEMMA ToldStill ==
    ASSUME StockTypes, ShortageTold, Settled,
           \A p \in Products : /\ stock'[p] < 0 => stock[p] < 0
                               /\ stock'[p] < reserved'[p] => stock[p] < reserved[p]
    PROVE  ShortageTold'
<1>1. Saved' = Saved
  BY SettledStored
<1> QED
  BY <1>1 DEF ShortageTold, Settled

\* No status changes, and no amount.
LEMMA SameBooks ==
    ASSUME StockTypes, Books, Settled, UNCHANGED <<line, stock, reserved>>,
           \A t \in Tickets : ticket'[t].status = ticket[t].status
    PROVE  Books'
<1>1. /\ Saved' = Saved /\ \A p \in Products : Arrived(p)' = Arrived(p)
      /\ \A t \in Tickets : ChargedHere(t)' = ChargedHere(t)
  BY SettledStored
<1>2. \A p \in Products, t \in Tickets : /\ HeldBy(t, p)' = HeldBy(t, p)
                                         /\ ChargedOn(t, p)' = ChargedOn(t, p)
  BY <1>1 DEF HeldBy, ChargedOn, Pending, ChargedThere
<1>3. \A p \in Products : Held(p)' = Held(p) /\ Charged(p)' = Charged(p)
  BY <1>2, HeldSame, ChargedSame
<1>4. ChargedOnce'
  <2> SUFFICES ASSUME NEW s \in Saved, (offsale[s].ticket # None /\ ~row[s].review)'
               PROVE  /\ (ticket[offsale[s].ticket].status = "CHARGED")'
                      /\ \A u \in Saved : (offsale[u].ticket = offsale[s].ticket /\ ~row[u].review)' => u = s
    BY <1>1 DEF ChargedOnce
  <2>1. offsale[s].ticket \in Tickets
    BY DEF StockTypes, OfflineSales, Saved, Settled
  <2> QED BY <2>1 DEF ChargedOnce, Books, Settled
<1>5. UnitsSold'
  BY <1>1, <1>3 DEF Books, UnitsSold, Settled
<1>6. ReservedMatches'
  BY <1>3 DEF Books, ReservedMatches
<1>7. ShortageTold'
  BY ToldStill DEF Books
<1> QED
  BY <1>4, <1>5, <1>6, <1>7 DEF Books

\* A pending ticket, or a new one, holds other units of its products.
LEMMA HoldBooks ==
    ASSUME StockTypes, StockTypes', Books, Settled, UNCHANGED stock,
           NEW t \in Tickets, NEW w \in Amounts,
           Pending(t) \/ (ticket[t].status = "NONE" /\ \A p \in Products : line[t][p] = 0),
           Pending(t)', \A o \in Tickets \ {t} : ticket'[o].status = ticket[o].status,
           line' = [line EXCEPT ![t] = w],
           \A p \in Products : /\ reserved'[p] = reserved[p] + w[p] - line[t][p]
                               /\ w[p] > line[t][p] => w[p] - line[t][p] <= Available(p)
    PROVE  Books'
<1>1. /\ Saved' = Saved /\ \A p \in Products : Arrived(p)' = Arrived(p)
      /\ \A o \in Tickets : ChargedHere(o)' = ChargedHere(o)
  BY SettledStored
<1>2. line'[t] = w /\ \A o \in Tickets \ {t} : line'[o] = line[o]
  BY DEF StockTypes
<1>3. \A p \in Products, o \in Tickets \ {t} : HeldBy(o, p)' = HeldBy(o, p)
  BY <1>2 DEF HeldBy, Pending
<1>4. \A p \in Products : HeldBy(t, p) = line[t][p] /\ HeldBy(t, p)' = w[p]
  BY <1>2 DEF HeldBy, Pending
<1>5. \A p \in Products, o \in Tickets : ChargedOn(o, p)' = ChargedOn(o, p)
  BY <1>1, <1>2 DEF ChargedOn, ChargedThere, Pending
<1>6. \A p \in Products : Charged(p)' = Charged(p)
  BY <1>5, ChargedSame
<1>7. \A p \in Products : /\ w[p] \in Nat /\ line[t][p] \in Nat
                          /\ stock[p] \in Int /\ reserved[p] \in Int
  BY TermsNat DEF Amounts
<1>8. ReservedMatches'
  <2> SUFFICES ASSUME NEW p \in Products PROVE reserved'[p] = Held(p)'
    BY DEF ReservedMatches
  <2>1. Held(p)' = Held(p) - HeldBy(t, p) + HeldBy(t, p)' /\ Held(p) \in Int
    BY <1>3, HeldChange
  <2>2. reserved[p] = Held(p)
    BY DEF Books, ReservedMatches
  <2>3. reserved'[p] = reserved[p] + w[p] - line[t][p]
    OBVIOUS
  <2> QED BY <1>4, <1>7, <2>1, <2>2, <2>3
<1>9. ChargedOnce'
  <2> SUFFICES ASSUME NEW s \in Saved, offsale'[s].ticket # None, ~row'[s].review
               PROVE  /\ ticket'[offsale'[s].ticket].status = "CHARGED"
                      /\ \A u \in Saved : offsale'[u].ticket = offsale'[s].ticket /\ ~row'[u].review => u = s
    BY <1>1 DEF ChargedOnce
  <2>1. offsale[s].ticket \in Tickets /\ offsale'[s] = offsale[s]
    BY DEF StockTypes, OfflineSales, Saved, Settled
  <2>2. ticket[offsale[s].ticket].status = "CHARGED"
    BY <2>1 DEF Books, ChargedOnce, Settled
  <2> QED BY <2>1, <2>2 DEF Books, ChargedOnce, Settled, Pending
<1>10. UnitsSold'
  BY <1>1, <1>6 DEF Books, UnitsSold, Settled
<1>11. ShortageTold'
  <2> SUFFICES ASSUME NEW p \in Products
               PROVE  /\ stock'[p] < 0 => stock[p] < 0
                      /\ stock'[p] < reserved'[p] => stock[p] < reserved[p]
    BY ToldStill DEF Books
  <2>1. /\ reserved'[p] = reserved[p] + w[p] - line[t][p]
        /\ w[p] > line[t][p] => w[p] - line[t][p] <= stock[p] - reserved[p]
    BY DEF Available
  <2> QED BY <1>7, <2>1
<1> QED
  BY <1>8, <1>9, <1>10, <1>11 DEF Books

\* A pending ticket ends, and gives back what it reserved; the register's sale of a
\* charged one takes its units.
LEMMA CloseBooks ==
    ASSUME StockTypes, StockTypes', Books, Settled, UNCHANGED line,
           NEW t \in Tickets, Pending(t), ticket'[t].status \in {"CHARGED", "CANCELLED", "EXPIRED"},
           \A o \in Tickets \ {t} : ticket'[o].status = ticket[o].status,
           reserved' = Released(t),
           \A p \in Products : IF ticket'[t].status = "CHARGED"
                               THEN stock'[p] = stock[p] - line[t][p] /\ line[t][p] <= stock[p]
                               ELSE stock'[p] = stock[p]
    PROVE  Books'
<1>1. /\ Saved' = Saved /\ \A p \in Products : Arrived(p)' = Arrived(p)
      /\ \A o \in Tickets : ChargedHere(o)' = ChargedHere(o)
  BY SettledStored
<1>2. ~ChargedHere(t)
  <2> SUFFICES ASSUME NEW s \in Saved, offsale[s].ticket = t, ~row[s].review PROVE FALSE
    BY DEF ChargedHere
  <2>1. t # None
    BY RowAssumption
  <2> QED BY <2>1 DEF Books, ChargedOnce, Pending
<1>3. \A p \in Products, o \in Tickets \ {t} : /\ HeldBy(o, p)' = HeldBy(o, p)
                                               /\ ChargedOn(o, p)' = ChargedOn(o, p)
  BY <1>1 DEF HeldBy, Pending, ChargedOn, ChargedThere
<1>4. \A p \in Products : /\ HeldBy(t, p) = line[t][p] /\ HeldBy(t, p)' = 0
                          /\ ChargedOn(t, p) = 0
                          /\ ChargedOn(t, p)' = IF ticket'[t].status = "CHARGED" THEN line[t][p] ELSE 0
  BY <1>1, <1>2 DEF HeldBy, Pending, ChargedOn, ChargedThere
<1>5. \A p \in Products : /\ line[t][p] \in Nat /\ stock[p] \in Int /\ reserved[p] \in Int
                          /\ reserved'[p] = reserved[p] - line[t][p]
  BY TermsNat DEF Released
<1>6. ReservedMatches'
  <2> SUFFICES ASSUME NEW p \in Products PROVE reserved'[p] = Held(p)'
    BY DEF ReservedMatches
  <2>1. Held(p)' = Held(p) - HeldBy(t, p) + HeldBy(t, p)' /\ Held(p) \in Int
    BY <1>3, HeldChange
  <2>2. reserved[p] = Held(p)
    BY DEF Books, ReservedMatches
  <2> QED BY <1>4, <1>5, <2>1, <2>2
<1>7. ChargedOnce'
  <2> SUFFICES ASSUME NEW s \in Saved, offsale'[s].ticket # None, ~row'[s].review
               PROVE  /\ ticket'[offsale'[s].ticket].status = "CHARGED"
                      /\ \A u \in Saved : offsale'[u].ticket = offsale'[s].ticket /\ ~row'[u].review => u = s
    BY <1>1 DEF ChargedOnce
  <2>1. offsale[s].ticket \in Tickets /\ offsale'[s] = offsale[s]
    BY DEF StockTypes, OfflineSales, Saved, Settled
  <2>2. ticket[offsale[s].ticket].status = "CHARGED"
    BY <2>1 DEF Books, ChargedOnce, Settled
  <2> QED BY <2>1, <2>2 DEF Books, ChargedOnce, Settled, Pending
<1>8. UnitsSold'
  <2> SUFFICES ASSUME "sale" \notin scenario.kinds, NEW p \in Products
               PROVE  stock'[p] + Arrived(p)' + Charged(p)' = Stock
    BY DEF UnitsSold, Settled
  <2>1. Charged(p)' = Charged(p) - ChargedOn(t, p) + ChargedOn(t, p)' /\ Charged(p) \in Int
    BY <1>3, ChargedChange
  <2>2. stock[p] + Arrived(p) + Charged(p) = Stock /\ Arrived(p) \in Nat
    BY HeldNat DEF Books, UnitsSold
  <2>3. stock'[p] = stock[p] - (IF ticket'[t].status = "CHARGED" THEN line[t][p] ELSE 0)
    BY <1>5
  <2>4. Arrived(p)' = Arrived(p)
    BY <1>1
  <2> QED BY <1>4, <1>5, <2>1, <2>2, <2>3, <2>4
<1>9. ShortageTold'
  <2> SUFFICES ASSUME NEW p \in Products
               PROVE  /\ stock'[p] < 0 => stock[p] < 0
                      /\ stock'[p] < reserved'[p] => stock[p] < reserved[p]
    BY ToldStill DEF Books
  <2> QED BY <1>5
<1> QED
  BY <1>6, <1>7, <1>8, <1>9 DEF Books

\* A direct sale takes no more than is available.
LEMMA SaleBooks ==
    ASSUME StockTypes, StockTypes', Books, Settled, UNCHANGED <<ticket, line, reserved>>,
           "sale" \in scenario.kinds, NEW q \in Products, NEW n \in Nat, n <= Available(q),
           stock' = [stock EXCEPT ![q] = @ - n]
    PROVE  Books'
<1>1. /\ Saved' = Saved
      /\ \A o \in Tickets : ChargedHere(o)' = ChargedHere(o)
  BY SettledStored
<1>2. \A p \in Products : /\ stock[p] \in Int /\ reserved[p] \in Int
                          /\ stock'[p] = IF p = q THEN stock[p] - n ELSE stock[p]
  BY DEF StockTypes
<1>3. reserved[q] \in Nat
  BY HeldNat DEF Books, ReservedMatches
<1>4. \A p \in Products : Held(p)' = Held(p)
  <2>1. \A p \in Products, t \in Tickets : HeldBy(t, p)' = HeldBy(t, p)
    BY DEF HeldBy, Pending
  <2> QED BY <2>1, HeldSame
<1>5. ReservedMatches'
  BY <1>4 DEF Books, ReservedMatches
<1>6. ChargedOnce'
  BY <1>1 DEF Books, ChargedOnce, Settled
<1>7. UnitsSold'
  BY DEF UnitsSold, Settled
<1>8. ShortageTold'
  <2> SUFFICES ASSUME NEW p \in Products
               PROVE  /\ stock'[p] < 0 => stock[p] < 0
                      /\ stock'[p] < reserved'[p] => stock[p] < reserved[p]
    BY ToldStill DEF Books
  <2> QED BY <1>2, <1>3 DEF Available
<1> QED
  BY <1>5, <1>6, <1>7, <1>8 DEF Books

\* An offline sale arrives: it takes its units whatever there is, tells what was short,
\* and charges its ticket if nobody did.
LEMMA SyncBooks ==
    ASSUME StockTypes, StockTypes', Books, UNCHANGED <<scenario, offsale, line>>,
           NEW s \in OffSales, ~row[s].saved,
           NEW t, t = offsale[s].ticket, NEW status,
           status = IF t = None THEN None ELSE ticket[t].status,
           t # None => ticket[t].status # "NONE",
           stock' = [p \in Products |-> stock[p] - offsale[s].units[p]],
           ChargeOffline(t, status),
           row' = [row EXCEPT ![s] = [saved |-> TRUE, short |-> Shortage(offsale[s].units),
                                      review |-> NeedsReview(status)]]
    PROVE  Books'
<1>1. t \in Tickets \cup {None} /\ None \notin Tickets
  BY RowAssumption DEF StockTypes, OfflineSales
<1>2. /\ row'[s] = [saved |-> TRUE, short |-> Shortage(offsale[s].units),
                    review |-> NeedsReview(status)]
      /\ \A u \in OffSales \ {s} : row'[u] = row[u]
  BY DEF StockTypes
<1>3. /\ row'[s].saved /\ row'[s].review = NeedsReview(status)
      /\ row'[s].short = Shortage(offsale[s].units)
  BY <1>2
<1>4. Saved' = Saved \cup {s} /\ s \notin Saved /\ Saved \subseteq OffSales
  BY <1>2, <1>3 DEF Saved
<1> DEFINE charges == t # None /\ ~NeedsReview(status)
<1>5. charges => ticket[t].status = "PENDING" /\ t \in Tickets
  <2> SUFFICES ASSUME charges PROVE ticket[t].status = "PENDING" /\ t \in Tickets
    OBVIOUS
  <2>1. t \in Tickets
    BY <1>1
  <2>2. ticket[t].status \in Statuses
    BY <2>1 DEF StockTypes, TicketRows
  <2> QED BY <2>1, <2>2 DEF NeedsReview, Statuses
<1>6. /\ \A o \in Tickets : ticket'[o].status = IF charges /\ o = t THEN "CHARGED" ELSE ticket[o].status
      /\ \A p \in Products : reserved'[p] = IF charges THEN reserved[p] - line[t][p] ELSE reserved[p]
  <2>1. CASE charges
    <3>1. ticket' = [ticket EXCEPT ![t].status = "CHARGED"] /\ reserved' = Released(t)
      BY <2>1 DEF ChargeOffline, SetTicket
    <3>2. ticket[t] \in TicketRows
      BY <1>5, <2>1 DEF StockTypes
    <3>3. ticket'[t].status = "CHARGED" /\ \A o \in Tickets \ {t} : ticket'[o] = ticket[o]
      BY <1>5, <2>1, <3>1, <3>2 DEF StockTypes, TicketRows
    <3> QED BY <2>1, <3>1, <3>3 DEF Released
  <2>2. CASE ~charges
    BY <2>2 DEF ChargeOffline
  <2> QED BY <2>1, <2>2
<1>7. /\ \A o \in Tickets : ChargedHere(o)' = (ChargedHere(o) \/ (charges /\ o = t))
      /\ charges => ~ChargedHere(t)
  <2>1. charges => ~ChargedHere(t)
    BY <1>5 DEF ChargedHere, Books, ChargedOnce
  <2>2. ASSUME NEW o \in Tickets
        PROVE  ChargedHere(o)' = (ChargedHere(o) \/ (charges /\ o = t))
    <3>1. ChargedHere(o)' => (ChargedHere(o) \/ (charges /\ o = t))
      BY <1>1, <1>2, <1>3, <1>4 DEF ChargedHere
    <3>2. ChargedHere(o) => ChargedHere(o)'
      BY <1>2, <1>4 DEF ChargedHere
    <3>3. charges /\ o = t => ChargedHere(o)'
      BY <1>3, <1>4 DEF ChargedHere
    <3> QED BY <3>1, <3>2, <3>3 DEF ChargedHere
  <2> QED BY <2>1, <2>2
<1> HIDE DEF charges
<1>8. \A p \in Products, o \in Tickets :
         /\ ChargedOn(o, p)' = ChargedOn(o, p)
         /\ HeldBy(o, p)' = IF charges /\ o = t THEN 0 ELSE HeldBy(o, p)
  BY <1>5, <1>6, <1>7 DEF ChargedOn, ChargedThere, HeldBy, Pending
<1>9. \A p \in Products : /\ stock[p] \in Int /\ reserved[p] \in Int /\ offsale[s].units[p] \in Nat
                          /\ charges => line[t][p] \in Nat /\ HeldBy(t, p) = line[t][p]
                          /\ stock'[p] = stock[p] - offsale[s].units[p]
  BY <1>5, TermsNat DEF HeldBy, Pending
<1>10. ReservedMatches'
  <2> SUFFICES ASSUME NEW p \in Products PROVE reserved'[p] = Held(p)'
    BY DEF ReservedMatches
  <2>1. reserved[p] = Held(p)
    BY DEF Books, ReservedMatches
  <2>2. CASE charges
    <3>1. Held(p)' = Held(p) - HeldBy(t, p) + HeldBy(t, p)' /\ Held(p) \in Int
      BY <1>5, <1>8, <2>2, HeldChange
    <3> QED BY <1>5, <1>6, <1>8, <1>9, <2>1, <2>2, <3>1
  <2>3. CASE ~charges
    <3>1. Held(p)' = Held(p)
      BY <1>8, <2>3, HeldSame
    <3> QED BY <1>6, <2>1, <2>3, <3>1
  <2> QED BY <2>2, <2>3
<1>11. ChargedOnce'
  <2> SUFFICES ASSUME NEW u \in Saved', offsale[u].ticket # None, ~row'[u].review
               PROVE  /\ ticket'[offsale[u].ticket].status = "CHARGED"
                      /\ \A v \in Saved' : offsale[v].ticket = offsale[u].ticket /\ ~row'[v].review => v = u
    BY DEF ChargedOnce
  <2>1. u \in OffSales /\ offsale[u].ticket \in Tickets
    BY <1>4 DEF StockTypes, OfflineSales
  <2>2. CASE u = s
    <3>1. charges
      BY <1>3, <2>2 DEF charges
    <3>2. ~ChargedHere(t)
      BY <1>7, <3>1
    <3>3. \A v \in Saved : offsale[v].ticket = t => row[v].review
      BY <3>2 DEF ChargedHere
    <3> QED BY <1>2, <1>4, <1>6, <2>1, <2>2, <3>1, <3>3
  <2>3. CASE u # s
    <3>1. u \in Saved /\ ~row[u].review
      BY <1>2, <1>4, <2>1, <2>3
    <3>2. /\ ticket[offsale[u].ticket].status = "CHARGED"
          /\ \A v \in Saved : offsale[v].ticket = offsale[u].ticket /\ ~row[v].review => v = u
      BY <3>1 DEF Books, ChargedOnce
    <3>3. ~(offsale[s].ticket = offsale[u].ticket /\ ~row'[s].review)
      BY <1>3, <1>5, <2>1, <1>1, <3>2 DEF charges
    <3> QED BY <1>2, <1>4, <1>6, <2>1, <3>2, <3>3
  <2> QED BY <2>2, <2>3
<1>12. UnitsSold'
  <2> SUFFICES ASSUME "sale" \notin scenario.kinds, NEW p \in Products
               PROVE  stock'[p] + Arrived(p)' + Charged(p)' = Stock
    BY DEF UnitsSold
  <2>1. \A u \in OffSales \ {s} : StoredAs(u, p)' = StoredAs(u, p)
    BY <1>2 DEF StoredAs
  <2>2. StoredAs(s, p) = 0 /\ StoredAs(s, p)' = offsale[s].units[p]
    BY <1>3 DEF StoredAs
  <2>3. Arrived(p)' = Arrived(p) - StoredAs(s, p) + StoredAs(s, p)' /\ Arrived(p) \in Int
    BY <2>1, ArrivedChange
  <2>4. Charged(p)' = Charged(p) /\ Charged(p) \in Nat
    BY <1>8, ChargedSame, HeldNat
  <2>5. stock[p] + Arrived(p) + Charged(p) = Stock
    BY DEF Books, UnitsSold
  <2> QED BY <1>9, <2>2, <2>3, <2>4, <2>5
<1>13. ShortageTold'
  <2> SUFFICES ASSUME NEW p \in Products
               PROVE  /\ stock'[p] < 0 => \E u \in Saved' : p \in row'[u].short
                      /\ stock'[p] < reserved'[p] => \E u \in Saved' : offsale[u].units[p] > 0
    BY DEF ShortageTold
  <2>1. /\ stock[p] < 0 => \E u \in Saved : p \in row[u].short
        /\ stock[p] < reserved[p] => \E u \in Saved : offsale[u].units[p] > 0
    BY DEF Books, ShortageTold
  <2>2. stock'[p] < 0 => \E u \in Saved' : p \in row'[u].short
    <3> SUFFICES ASSUME stock'[p] < 0 PROVE \E u \in Saved' : p \in row'[u].short
      OBVIOUS
    <3>1. CASE offsale[s].units[p] > stock[p]
      <4>1. p \in row'[s].short
        BY <1>3, <3>1 DEF Shortage
      <4> QED BY <1>4, <4>1
    <3>2. CASE ~(offsale[s].units[p] > stock[p])
      BY <1>9, <3>2
    <3> QED BY <3>1, <3>2
  <2>3. stock'[p] < reserved'[p] => \E u \in Saved' : offsale[u].units[p] > 0
    <3> SUFFICES ASSUME stock'[p] < reserved'[p] PROVE \E u \in Saved' : offsale[u].units[p] > 0
      OBVIOUS
    <3>1. CASE offsale[s].units[p] > 0
      BY <1>4, <3>1
    <3>2. CASE ~(offsale[s].units[p] > 0)
      <4>1. reserved'[p] <= reserved[p]
        BY <1>6, <1>9
      <4>2. stock'[p] = stock[p] /\ stock[p] < reserved[p]
        <5>1. offsale[s].units[p] = 0
          BY <1>9, <3>2
        <5>2. reserved'[p] \in Int
          BY DEF StockTypes
        <5> QED BY <1>9, <4>1, <5>1, <5>2
      <4> QED BY <1>4, <2>1, <4>2
    <3> QED BY <3>1, <3>2
  <2> QED BY <2>2, <2>3
<1> QED
  BY <1>10, <1>11, <1>12, <1>13 DEF Books

-----------------------------------------------------------------------------
(***************************************************************************)
(* What a request does to the others.                                      *)
(***************************************************************************)
Selling == {"charge", "sale", "sync"}
Others(h, at) == \A g \in Requests \ {h} : pc[g] \notin at

\* A request goes on, or begins where there is room; the others stay where they are.
Turns(h) ==
    /\ scenario' = scenario
    /\ pc' \in [Requests -> Steps] /\ loc' \in [Requests -> Works]
    /\ \A g \in Requests \ {h} : pc'[g] = pc[g] /\ loc'[g] = loc[g] /\ syn'[g] = syn[g]
    /\ pc[h] = "idle" => Cardinality(Busy) < scenario.width
    /\ pc'[h] \in Selling => pc[h] \in Selling \/ BusinessFree

LEMMA Alone ==
    ASSUME StockInv, NEW h \in Requests, Turns(h), scenario.width = 1
    PROVE  \A g \in Requests \ {h} : pc[g] = "idle"
<1>1. CASE pc[h] = "idle"
  <2>1. IsFiniteSet(Busy) /\ Cardinality(Busy) \in Nat
    BY FS_CardinalityType DEF StockInv, StockTypes
  <2>2. Cardinality(Busy) = 0
    BY <1>1, <2>1 DEF Turns
  <2>3. Busy = {}
    BY <2>1, <2>2, FS_EmptySet
  <2> QED BY <2>3 DEF Busy
<1>2. CASE pc[h] # "idle"
  BY <1>2 DEF StockInv, OneRequest
<1> QED
  BY <1>1, <1>2

LEMMA TurnTaken ==
    ASSUME StockInv, NEW h \in Requests, Turns(h)
    PROVE  IsFiniteSet(Busy)' /\ OneSale' /\ OneRequest'
<1>1. IsFiniteSet(Busy)'
  <2>1. Busy' \subseteq Busy \cup {h}
    BY DEF Busy, Turns
  <2>2. IsFiniteSet(Busy \cup {h})
    BY FS_AddElement DEF StockInv, StockTypes
  <2> QED BY <2>1, <2>2, FS_Subset
<1>2. OneSale'
  <2>1. ASSUME NEW f \in Requests, NEW g \in Requests, f # g,
               pc'[f] \in Selling, pc'[g] \in Selling
        PROVE  FALSE
    <3>1. CASE f # h /\ g # h
      BY <2>1, <3>1 DEF Turns, StockInv, OneSale, Selling
    <3>2. CASE f = h
      <4>1. pc[g] \in Selling
        BY <2>1, <3>2 DEF Turns
      <4>2. ~BusinessFree /\ pc[h] \in Selling
        BY <2>1, <3>2, <4>1 DEF Turns, BusinessFree, Selling
      <4> QED BY <2>1, <3>2, <4>1, <4>2 DEF StockInv, OneSale, Selling
    <3>3. CASE g = h
      <4>1. pc[f] \in Selling
        BY <2>1, <3>3 DEF Turns
      <4>2. ~BusinessFree /\ pc[h] \in Selling
        BY <2>1, <3>3, <4>1 DEF Turns, BusinessFree, Selling
      <4> QED BY <2>1, <3>3, <4>1, <4>2 DEF StockInv, OneSale, Selling
    <3> QED BY <3>1, <3>2, <3>3
  <2> QED BY <2>1 DEF OneSale, Selling
<1>3. OneRequest'
  BY Alone DEF OneRequest, Turns
<1> QED
  BY <1>1, <1>2, <1>3

\* What the others have in hand, where nobody touches their tickets.
LEMMA OtherHands ==
    ASSUME StockInv, NEW h \in Requests, Turns(h),
           \A s \in Made : offsale'[s] = offsale[s] /\ s \in Made',
           NEW g \in Requests \ {h},
           pc[g] = "charge" => /\ ticket'[loc[g].ticket].status = ticket[loc[g].ticket].status
                               /\ line'[loc[g].ticket] = line[loc[g].ticket]
                               /\ stock' = stock,
           pc[g] = "sync" /\ offsale[syn[g].sale].ticket # None =>
              ticket'[offsale[syn[g].sale].ticket].status = ticket[offsale[syn[g].sale].ticket].status
    PROVE  InHand(g)'
<1>1. /\ pc'[g] = pc[g] /\ loc'[g] = loc[g] /\ syn'[g] = syn[g] /\ scenario' = scenario
      /\ InHand(g)
  BY DEF Turns, StockInv
<1>2. CASE scenario.width = 1
  <2>1. pc'[g] = "idle"
    BY <1>1, <1>2, Alone
  <2> QED BY <2>1 DEF InHand
<1>3. CASE scenario.width # 1
  <2>1. pc[g] \notin {"add", "sale", "close", "rebuild", "write"}
    BY <1>1, <1>3 DEF InHand
  <2>2. pc[g] = "charge" => /\ loc[g].ticket \in Tickets
                            /\ (Pending(loc[g].ticket))'
                            /\ \A p \in Products : line'[loc[g].ticket][p] <= stock'[p]
    BY <1>1 DEF InHand, Pending
  <2>3. pc[g] = "sweep" => "sweep" \in scenario.kinds
    BY <1>1 DEF InHand
  <2>4. /\ pc[g] \in {"look", "begin", "sync"} => "sync" \in scenario.offline
        /\ pc[g] \in {"begin", "sync"} => syn[g].sale \in Made /\ syn[g].sale \in Made'
    BY <1>1 DEF InHand
  <2>5. pc[g] = "sync" => /\ syn[g].status = IF offsale[syn[g].sale].ticket = None THEN None
                                            ELSE ticket[offsale[syn[g].sale].ticket].status
                          /\ offsale'[syn[g].sale] = offsale[syn[g].sale]
    BY <1>1, <2>4 DEF InHand
  <2>6. pc[g] = "sync" => syn[g].status = IF offsale'[syn[g].sale].ticket = None THEN None
                                          ELSE ticket'[offsale'[syn[g].sale].ticket].status
    BY <2>5
  <2> QED BY <1>1, <2>1, <2>2, <2>3, <2>4, <2>6 DEF InHand
<1> QED
  BY <1>2, <1>3

\* A request about tickets: it leaves each one alone, opens it, or has it for itself.
LEMMA TicketStep ==
    ASSUME StockInv, NEW h \in Requests, Turns(h), StockTypes', Books',
           UNCHANGED <<device, offsale, row, syn>>,
           \A t \in Tickets :
              \/ ticket'[t].status = ticket[t].status /\ line'[t] = line[t]
              \/ ticket[t].status = "NONE" /\ ticket'[t].status # "NONE"
              \/ /\ ticket[t].status # "NONE" /\ ticket'[t].status # "NONE"
                 /\ \A g \in Requests \ {h} : pc[g] = "charge" => loc[g].ticket # t
                 /\ ticket'[t].status = ticket[t].status \/ Others(h, {"sync"}),
           stock' = stock \/ Others(h, {"charge"}),
           InHand(h)'
    PROVE  StockInv'
<1>1. Made' = Made /\ Saved' = Saved
  BY DEF Made, Saved
<1>2. MadeFirst /\ MadeFirst'
  <2>1. MadeFirst
    BY DEF StockInv
  <2>2. \A t \in Tickets : /\ ticket'[t].status = "NONE" =>
                                ticket[t].status = "NONE" /\ line'[t] = line[t]
                           /\ ticket[t].status # "NONE" => ticket'[t].status # "NONE"
    OBVIOUS
  <2>3. \A s \in Made : offsale[s].ticket \in Tickets \cup {None}
    BY DEF Made, StockInv, StockTypes, OfflineSales
  <2>4. /\ \A s \in Made : offsale[s].ticket # None => ticket'[offsale[s].ticket].status # "NONE"
        /\ \A t \in Tickets : ticket'[t].status = "NONE" => \A p \in Products : line'[t][p] = 0
    BY <2>1, <2>2, <2>3 DEF MadeFirst
  <2> QED BY <1>1, <2>1, <2>4 DEF MadeFirst
<1>3. ASSUME NEW g \in Requests PROVE InHand(g)'
  <2>1. CASE g = h
    BY <2>1
  <2>2. CASE g # h
    <3>1. g \in Requests \ {h} /\ InHand(g)
      BY <2>2 DEF StockInv
    <3>2. \A s \in Made : offsale'[s] = offsale[s] /\ s \in Made'
      BY <1>1
    <3>3. pc[g] = "charge" => /\ ticket'[loc[g].ticket].status = ticket[loc[g].ticket].status
                              /\ line'[loc[g].ticket] = line[loc[g].ticket]
                              /\ stock' = stock
      BY <3>1 DEF InHand, Pending, Others
    <3>4. pc[g] = "sync" /\ offsale[syn[g].sale].ticket # None =>
              ticket'[offsale[syn[g].sale].ticket].status = ticket[offsale[syn[g].sale].ticket].status
      <4> SUFFICES ASSUME pc[g] = "sync", offsale[syn[g].sale].ticket # None
                   PROVE  ticket'[offsale[syn[g].sale].ticket].status
                            = ticket[offsale[syn[g].sale].ticket].status
        OBVIOUS
      <4>1. syn[g].sale \in Made
        BY <3>1 DEF InHand
      <4>2. /\ offsale[syn[g].sale].ticket \in Tickets
            /\ ticket[offsale[syn[g].sale].ticket].status # "NONE"
        BY <1>2, <4>1 DEF MadeFirst, Made, StockInv, StockTypes, OfflineSales
      <4> QED BY <3>1, <4>2 DEF Others
    <3> QED BY <3>1, <3>2, <3>3, <3>4, OtherHands
  <2> QED BY <2>1, <2>2
<1>4. OneSale' /\ OneRequest'
  BY TurnTaken
<1> QED
  BY <1>2, <1>3, <1>4 DEF StockInv, Books

-----------------------------------------------------------------------------
(***************************************************************************)
(* The handlers of tickets.                                                *)
(***************************************************************************)
LEMMA IdleHand == ASSUME NEW h \in Requests, pc'[h] = "idle" PROVE InHand(h)'
  BY DEF InHand

LEMMA AtOnceTurns ==
    ASSUME StockInv, NEW h \in Requests, NEW k, AtOnce(h, k), UNCHANGED syn
    PROVE  /\ Turns(h) /\ InHand(h)' /\ k \in scenario.kinds /\ IsFiniteSet(Busy)'
           /\ UNCHANGED <<scenario, pc, loc>>
<1>1. Turns(h) /\ pc'[h] = "idle"
  BY DEF AtOnce, MayStart, Turns, StockInv, StockTypes, Selling
<1> QED
  BY <1>1, IdleHand, TurnTaken DEF AtOnce, MayStart

LEMMA Went ==
    ASSUME StockInv, NEW h \in Requests, NEW step \in Steps, NEW w \in Works, Go(h, step, w),
           UNCHANGED syn, pc[h] = "idle" => Cardinality(Busy) < scenario.width,
           step \in Selling => BusinessFree
    PROVE  /\ Turns(h) /\ pc'[h] = step /\ loc'[h] = w /\ scenario' = scenario
           /\ IsFiniteSet(Busy)'
<1>1. Turns(h) /\ pc'[h] = step /\ loc'[h] = w /\ scenario' = scenario
  BY DEF Go, Turns, StockInv, StockTypes
<1> QED
  BY <1>1, TurnTaken

LEMMA NoWorkFits == NoWork \in Works
  BY DEF NoWork, Works

LEMMA Finished ==
    ASSUME StockInv, NEW h \in Requests, Finish(h), UNCHANGED syn, pc[h] # "idle"
    PROVE  /\ Turns(h) /\ InHand(h)' /\ scenario' = scenario /\ IsFiniteSet(Busy)'
<1>0. "idle" \in Steps
  BY DEF Steps
<1>1. "idle" \notin Selling
  BY DEF Selling
<1>2. /\ Turns(h) /\ pc'[h] = "idle" /\ scenario' = scenario /\ IsFiniteSet(Busy)'
  BY <1>0, <1>1, NoWorkFits, Went DEF Finish
<1> QED
  BY <1>2, IdleHand

\* The status of one ticket is set.
LEMMA StatusSet ==
    ASSUME StockTypes, NEW t \in Tickets, NEW status \in Statuses, SetTicket(t, status)
    PROVE  /\ ticket' \in [Tickets -> TicketRows] /\ ticket'[t].status = status
           /\ \A o \in Tickets \ {t} : ticket'[o] = ticket[o]
<1>1. ticket[t] \in TicketRows
  BY DEF StockTypes
<1>2. \A r \in TicketRows : [r EXCEPT !.status = status] \in TicketRows
                            /\ [r EXCEPT !.status = status].status = status
  BY DEF TicketRows
<1>3. /\ ticket' = [ticket EXCEPT ![t] = [ticket[t] EXCEPT !.status = status]]
      /\ [ticket[t] EXCEPT !.status = status] \in TicketRows
      /\ [ticket[t] EXCEPT !.status = status].status = status
  BY <1>1, <1>2 DEF SetTicket
<1> QED
  BY <1>3 DEF StockTypes

\* Whatever ends a ticket meets no synchronisation.
LEMMA EndsApart ==
    ASSUME StockInv, Careful(scenario), NEW h \in Requests, Turns(h),
           scenario.kinds \cap {"cancel", "sweep"} # {} \/ scenario.width = 1
    PROVE  Others(h, {"sync"})
<1>1. CASE scenario.width = 1
  BY <1>1, Alone DEF Others
<1>2. CASE scenario.width # 1
  <2>1. "sync" \notin scenario.offline
    BY <1>2 DEF Careful
  <2> QED BY <2>1 DEF Others, StockInv, InHand
<1> QED
  BY <1>1, <1>2

LEMMA CreateStep ==
    ASSUME StockInv, NEW h \in Requests, Create(h), UNCHANGED offlineVars
    PROVE  StockInv'
<1>1. PICK t \in Tickets, want \in [Products -> 0 .. scenario.units] :
       /\ AtOnce(h, "create")
       /\ ticket[t].status = "NONE"
       /\ \A p \in Products : want[p] > 0 => want[p] <= Available(p)
       /\ reserved' = [p \in Products |-> reserved[p] + want[p]]
       /\ line' = [line EXCEPT ![t] = want]
       /\ SetTicket(t, "PENDING")
       /\ UNCHANGED stock
  BY DEF Create
<1>2. /\ Turns(h) /\ InHand(h)' /\ IsFiniteSet(Busy)' /\ UNCHANGED <<scenario, pc, loc>>
      /\ UNCHANGED <<terminal, device, offsale, row, syn>>
  BY <1>1, AtOnceTurns DEF offlineVars
<1>3. StockTypes /\ MadeFirst /\ Books
  BY DEF StockInv, Books
<1>4. want \in Amounts
  <2>1. scenario.units \in Nat
    BY <1>3, ScenarioAssumption DEF StockTypes
  <2> QED BY <2>1 DEF Amounts
<1>5. /\ ticket' \in [Tickets -> TicketRows] /\ ticket'[t].status = "PENDING"
      /\ \A o \in Tickets \ {t} : ticket'[o] = ticket[o]
  BY <1>1, <1>3, StatusSet DEF Statuses
<1>6. /\ line' \in [Tickets -> Amounts] /\ line'[t] = want
      /\ \A o \in Tickets \ {t} : line'[o] = line[o]
  BY <1>1, <1>3, <1>4 DEF StockTypes
<1>7. \A p \in Products : /\ reserved[p] \in Int /\ want[p] \in Nat /\ line[t][p] = 0
  BY <1>1, <1>3, <1>4 DEF StockTypes, Amounts, MadeFirst
<1>8. /\ reserved' \in [Products -> Int]
      /\ \A p \in Products : reserved'[p] = reserved[p] + want[p] - line[t][p]
  BY <1>1, <1>7
<1>9. StockTypes'
  BY <1>1, <1>2, <1>3, <1>5, <1>6, <1>8 DEF StockTypes
<1>10. Books'
  <2>1. Settled /\ UNCHANGED stock
    BY <1>1, <1>2 DEF Settled
  <2>2. /\ ticket[t].status = "NONE" /\ \A p \in Products : line[t][p] = 0
        /\ Pending(t)' /\ \A o \in Tickets \ {t} : ticket'[o].status = ticket[o].status
    BY <1>1, <1>5, <1>7 DEF Pending
  <2>3. \A p \in Products : /\ reserved'[p] = reserved[p] + want[p] - line[t][p]
                            /\ want[p] > line[t][p] => want[p] - line[t][p] <= Available(p)
    BY <1>1, <1>7, <1>8
  <2> QED BY <1>1, <1>3, <1>4, <1>9, <2>1, <2>2, <2>3, HoldBooks
<1> QED
  BY <1>1, <1>2, <1>5, <1>6, <1>9, <1>10, TicketStep

LEMMA ClaimStep ==
    ASSUME StockInv, NEW h \in Requests, Claim(h), UNCHANGED offlineVars
    PROVE  StockInv'
<1>1. PICK t \in Tickets, u \in Cashiers :
       /\ AtOnce(h, "claim")
       /\ ticket' = [ticket EXCEPT ![t].claimed = u]
       /\ UNCHANGED <<line, stock, reserved>>
  BY DEF Claim
<1>2. /\ Turns(h) /\ InHand(h)' /\ IsFiniteSet(Busy)' /\ UNCHANGED <<scenario, pc, loc>>
      /\ UNCHANGED <<terminal, device, offsale, row, syn>>
  BY <1>1, AtOnceTurns DEF offlineVars
<1>3. StockTypes /\ Books
  BY DEF StockInv, Books
<1>4. ticket' \in [Tickets -> TicketRows] /\ \A o \in Tickets : ticket'[o].status = ticket[o].status
  <2>1. ticket[t] \in TicketRows
    BY <1>3 DEF StockTypes
  <2>2. \A r \in TicketRows : [r EXCEPT !.claimed = u] \in TicketRows
                              /\ [r EXCEPT !.claimed = u].status = r.status
    BY DEF TicketRows
  <2>3. /\ ticket' = [ticket EXCEPT ![t] = [ticket[t] EXCEPT !.claimed = u]]
        /\ [ticket[t] EXCEPT !.claimed = u] \in TicketRows
        /\ [ticket[t] EXCEPT !.claimed = u].status = ticket[t].status
    BY <1>1, <2>1, <2>2
  <2> QED BY <1>3, <2>3 DEF StockTypes
<1>5. StockTypes'
  BY <1>1, <1>2, <1>3, <1>4 DEF StockTypes
<1>6. Books'
  BY <1>1, <1>2, <1>3, <1>4, SameBooks DEF Settled
<1> QED
  BY <1>1, <1>2, <1>4, <1>5, <1>6, TicketStep

\* A line is removed or reduced.
LEMMA LowerStep ==
    ASSUME StockInv, NEW h \in Requests, Remove(h) \/ Reduce(h), UNCHANGED offlineVars
    PROVE  StockInv'
<1>3. StockTypes /\ Books
  BY DEF StockInv, Books
<1>1. PICK kind \in {"remove", "reduce"}, t \in Tickets, q \in Products, n \in Nat : n < line[t][q] /\ LowerTo(h, kind, t, q, n)
  <2>1. \A t \in Tickets, p \in Products : line[t][p] \in Nat
    BY <1>3 DEF StockTypes, Amounts
  <2>2. CASE Remove(h)
    <3>1. PICK t \in Tickets, p \in Products : LowerTo(h, "remove", t, p, 0)
      BY <2>2 DEF Remove
    <3>2. 0 < line[t][p]
      BY <3>1, <2>1 DEF LowerTo
    <3> QED BY <3>1, <3>2
  <2>3. CASE Reduce(h)
    <3>1. PICK t \in Tickets, p \in Products : \E n \in 1 .. line[t][p] - 1 : LowerTo(h, "reduce", t, p, n)
      BY <2>3 DEF Reduce
    <3>2. PICK n \in 1 .. line[t][p] - 1 : LowerTo(h, "reduce", t, p, n)
      BY <3>1
    <3>3. n \in Nat /\ n < line[t][p]
      BY <2>1
    <3> QED BY <3>2, <3>3
  <2> QED BY <2>2, <2>3
<1> DEFINE w == [line[t] EXCEPT ![q] = n]
<1>11. /\ AtOnce(h, kind) /\ TicketFree(t) /\ Pending(t)
       /\ line' = [line EXCEPT ![t] = w]
       /\ reserved' = [reserved EXCEPT ![q] = @ - (line[t][q] - n)]
       /\ UNCHANGED <<ticket, stock>>
  BY <1>1 DEF LowerTo
<1>2. /\ Turns(h) /\ InHand(h)' /\ IsFiniteSet(Busy)' /\ UNCHANGED <<scenario, pc, loc>>
      /\ UNCHANGED <<terminal, device, offsale, row, syn>>
  BY <1>11, AtOnceTurns DEF offlineVars
<1>4. /\ w \in Amounts /\ w[q] = n /\ \A p \in Products \ {q} : w[p] = line[t][p]
      /\ \A p \in Products : line[t][p] \in Nat /\ reserved[p] \in Int
  BY <1>3 DEF StockTypes, Amounts
<1>5. \A p \in Products : reserved'[p] = reserved[p] + w[p] - line[t][p] /\ w[p] <= line[t][p]
  BY <1>1, <1>3, <1>4, <1>11 DEF StockTypes
<1>6. reserved' \in [Products -> Int]
  BY <1>3, <1>4, <1>11 DEF StockTypes
<1> HIDE DEF w
<1>7. line' \in [Tickets -> Amounts] /\ \A o \in Tickets \ {t} : line'[o] = line[o]
  BY <1>3, <1>4, <1>11 DEF StockTypes
<1>8. StockTypes'
  BY <1>2, <1>3, <1>6, <1>7, <1>11 DEF StockTypes
<1>9. Books'
  <2>1. Settled /\ Pending(t)'
    BY <1>2, <1>11 DEF Settled, Pending
  <2>2. \A p \in Products : /\ reserved'[p] = reserved[p] + w[p] - line[t][p]
                            /\ w[p] > line[t][p] => w[p] - line[t][p] <= Available(p)
    BY <1>4, <1>5 DEF Amounts
  <2> QED BY <1>3, <1>4, <1>8, <1>11, <2>1, <2>2, HoldBooks
<1>10. /\ ticket[t].status # "NONE" /\ ticket'[t].status = ticket[t].status
       /\ \A g \in Requests \ {h} : pc[g] = "charge" => loc[g].ticket # t
  BY <1>11 DEF Pending, TicketFree
<1> QED
  BY <1>2, <1>7, <1>8, <1>9, <1>10, <1>11, TicketStep

LEMMA CancelStep ==
    ASSUME StockInv, Careful(scenario), NEW h \in Requests, Cancel(h), UNCHANGED offlineVars
    PROVE  StockInv'
<1>1. PICK t \in Tickets :
       /\ AtOnce(h, "cancel") /\ TicketFree(t) /\ Pending(t)
       /\ reserved' = Released(t) /\ SetTicket(t, "CANCELLED")
       /\ UNCHANGED <<line, stock>>
  BY DEF Cancel
<1>2. /\ Turns(h) /\ InHand(h)' /\ IsFiniteSet(Busy)' /\ UNCHANGED <<scenario, pc, loc>>
      /\ UNCHANGED <<terminal, device, offsale, row, syn>> /\ "cancel" \in scenario.kinds
  BY <1>1, AtOnceTurns DEF offlineVars
<1>3. StockTypes /\ Books
  BY DEF StockInv, Books
<1>4. /\ ticket' \in [Tickets -> TicketRows] /\ ticket'[t].status = "CANCELLED"
      /\ \A o \in Tickets \ {t} : ticket'[o] = ticket[o]
  BY <1>1, <1>3, StatusSet DEF Statuses
<1>5. reserved' \in [Products -> Int]
  BY <1>1, <1>3, TermsNat DEF Released
<1>6. StockTypes'
  BY <1>1, <1>2, <1>3, <1>4, <1>5 DEF StockTypes
<1>7. Books'
  BY <1>1, <1>2, <1>3, <1>4, <1>6, CloseBooks DEF Settled
<1>8. Others(h, {"sync"})
  BY <1>2, EndsApart
<1>9. /\ ticket[t].status # "NONE"
      /\ \A g \in Requests \ {h} : pc[g] = "charge" => loc[g].ticket # t
  BY <1>1 DEF Pending, TicketFree
<1> QED
  BY <1>1, <1>2, <1>4, <1>6, <1>7, <1>8, <1>9, TicketStep

\* A request reads, and keeps what it read for later.
LEMMA ReadStep ==
    ASSUME StockInv, NEW h \in Requests, NEW step \in Steps, NEW w \in Works, Go(h, step, w),
           UNCHANGED <<ticket, line, stock, reserved>>, UNCHANGED offlineVars,
           pc[h] = "idle" => Cardinality(Busy) < scenario.width,
           step \in Selling => BusinessFree, InHand(h)'
    PROVE  StockInv'
<1>1. UNCHANGED <<terminal, device, offsale, row, syn>> /\ StockTypes /\ Books
  BY DEF offlineVars, StockInv, Books
<1>2. Turns(h) /\ IsFiniteSet(Busy)' /\ scenario' = scenario
  BY <1>1, Went
<1>3. StockTypes'
  BY <1>1, <1>2 DEF StockTypes, Turns
<1>4. Books'
  BY <1>1, <1>2, SameBooks DEF Settled
<1> QED
  BY <1>1, <1>2, <1>3, <1>4, TicketStep

LEMMA AddReadStep ==
    ASSUME StockInv, Careful(scenario), NEW h \in Requests, AddRead(h), UNCHANGED offlineVars
    PROVE  StockInv'
<1>1. PICK t \in Tickets, p \in Products : \E quantity \in 1 .. Available(p) :
       /\ MayStart(h, "add") /\ TicketFree(t)
       /\ Pending(t) /\ line[t][p] = 0
       /\ Go(h, "add", [NoWork EXCEPT !.ticket = t, !.product = p, !.quantity = quantity])
       /\ UNCHANGED <<ticket, line, stock, reserved>>
  BY DEF AddRead
<1>2. PICK n \in 1 .. Available(p) :
       /\ MayStart(h, "add") /\ TicketFree(t)
       /\ Pending(t) /\ line[t][p] = 0
       /\ Go(h, "add", [NoWork EXCEPT !.ticket = t, !.product = p, !.quantity = n])
       /\ UNCHANGED <<ticket, line, stock, reserved>>
  BY <1>1
<1> DEFINE w == [NoWork EXCEPT !.ticket = t, !.product = p, !.quantity = n]
<1>3. n \in Nat /\ n <= Available(p)
  BY TermsNat DEF Available, StockInv
<1>4. w \in Works /\ w.ticket = t /\ w.product = p /\ w.quantity = n
  BY <1>3, NoWorkFits DEF Works
<1>5. Go(h, "add", w) /\ "add" \in Steps /\ "add" \notin Selling
  BY <1>2 DEF Steps, Selling
<1> HIDE DEF w
<1>6. pc[h] = "idle" => Cardinality(Busy) < scenario.width
  BY <1>2 DEF MayStart
<1>7. pc'[h] = "add" /\ loc'[h] = w /\ scenario' = scenario
  BY <1>4, <1>5, <1>6, Went DEF offlineVars
<1>8. scenario.width = 1
  BY <1>2 DEF MayStart, Careful
<1>9. InHand(h)'
  BY <1>2, <1>3, <1>4, <1>7, <1>8 DEF InHand, Pending, Available
<1> QED
  BY <1>2, <1>4, <1>5, <1>6, <1>9, ReadStep

LEMMA ChargeReadStep ==
    ASSUME StockInv, NEW h \in Requests, ChargeRead(h), UNCHANGED offlineVars
    PROVE  StockInv'
<1>1. PICK t \in Tickets :
       /\ MayStart(h, "charge") /\ TicketFree(t) /\ BusinessFree /\ Pending(t)
       /\ \A p \in Products : line[t][p] <= stock[p]
       /\ Go(h, "charge", [NoWork EXCEPT !.ticket = t])
       /\ UNCHANGED <<ticket, line, stock, reserved>>
  BY DEF ChargeRead
<1> DEFINE w == [NoWork EXCEPT !.ticket = t]
<1>2. w \in Works /\ w.ticket = t
  BY NoWorkFits DEF Works
<1>3. Go(h, "charge", w) /\ "charge" \in Steps
  BY <1>1 DEF Steps
<1> HIDE DEF w
<1>4. pc[h] = "idle" => Cardinality(Busy) < scenario.width
  BY <1>1 DEF MayStart
<1>5. pc'[h] = "charge" /\ loc'[h] = w /\ scenario' = scenario
  BY <1>1, <1>2, <1>3, <1>4, Went DEF offlineVars
<1>6. InHand(h)'
  BY <1>1, <1>2, <1>5 DEF InHand, Pending
<1> QED
  BY <1>1, <1>2, <1>3, <1>4, <1>6, ReadStep

LEMMA SaleReadStep ==
    ASSUME StockInv, Careful(scenario), NEW h \in Requests, SaleRead(h), UNCHANGED offlineVars
    PROVE  StockInv'
<1>1. PICK p \in Products : \E quantity \in 1 .. Available(p) :
       /\ MayStart(h, "sale") /\ BusinessFree
       /\ Go(h, "sale", [NoWork EXCEPT !.product = p, !.quantity = quantity])
       /\ UNCHANGED <<ticket, line, stock, reserved>>
  BY DEF SaleRead
<1>2. PICK n \in 1 .. Available(p) :
       /\ MayStart(h, "sale") /\ BusinessFree
       /\ Go(h, "sale", [NoWork EXCEPT !.product = p, !.quantity = n])
       /\ UNCHANGED <<ticket, line, stock, reserved>>
  BY <1>1
<1> DEFINE w == [NoWork EXCEPT !.product = p, !.quantity = n]
<1>3. n \in Nat /\ n <= Available(p)
  BY TermsNat DEF Available, StockInv
<1>4. w \in Works /\ w.product = p /\ w.quantity = n
  BY <1>3, NoWorkFits DEF Works
<1>5. Go(h, "sale", w) /\ "sale" \in Steps
  BY <1>2 DEF Steps
<1> HIDE DEF w
<1>6. pc[h] = "idle" => Cardinality(Busy) < scenario.width
  BY <1>2 DEF MayStart
<1>7. pc'[h] = "sale" /\ loc'[h] = w /\ scenario' = scenario
  BY <1>2, <1>4, <1>5, <1>6, Went DEF offlineVars
<1>8. scenario.width = 1 /\ "sale" \in scenario.kinds
  BY <1>2 DEF MayStart, Careful
<1>9. InHand(h)'
  BY <1>2, <1>3, <1>4, <1>7, <1>8 DEF InHand, Pending, Available
<1> QED
  BY <1>2, <1>4, <1>5, <1>6, <1>9, ReadStep

LEMMA SweepReadStep ==
    ASSUME StockInv, Careful(scenario), NEW h \in Requests, SweepRead(h) \/ CloseRead(h),
           UNCHANGED offlineVars
    PROVE  StockInv'
<1> DEFINE w == [NoWork EXCEPT !.todo = Overdue]
<1>1. w \in Works /\ w.todo = Overdue /\ \A o \in Overdue : Pending(o)
  <2>1. Overdue \in SUBSET Tickets /\ \A o \in Overdue : Pending(o)
    BY DEF Overdue
  <2> QED BY <2>1, NoWorkFits DEF Works
<1>2. PICK step \in {"sweep", "close", "rebuild"} :
        /\ Go(h, step, w)
        /\ step = "sweep" => MayStart(h, "sweep")
        /\ step # "sweep" => MayStart(h, "close")
        /\ UNCHANGED <<ticket, line, stock, reserved>>
  BY DEF SweepRead, CloseRead
<1>3. step \in Steps /\ step \notin Selling
  BY <1>2 DEF Steps, Selling
<1> HIDE DEF w
<1>4. pc[h] = "idle" => Cardinality(Busy) < scenario.width
  BY <1>2 DEF MayStart
<1>5. pc'[h] = step /\ loc'[h] = w /\ scenario' = scenario
  BY <1>1, <1>2, <1>3, <1>4, Went DEF offlineVars
<1>6. /\ step # "sweep" => scenario.width = 1
      /\ step = "sweep" => "sweep" \in scenario.kinds
  BY <1>2 DEF MayStart, Careful
<1>7. InHand(h)'
  BY <1>1, <1>2, <1>5, <1>6 DEF InHand, Pending
<1> QED
  BY <1>1, <1>2, <1>3, <1>4, <1>7, ReadStep

LEMMA RebuildReadStep ==
    ASSUME StockInv, NEW h \in Requests, RebuildRead(h), UNCHANGED offlineVars
    PROVE  StockInv'
<1> DEFINE w == [NoWork EXCEPT !.sums = [p \in Products |-> Held(p)]]
<1>1. [p \in Products |-> Held(p)] = reserved /\ reserved \in [Products -> Int]
  BY DEF StockInv, StockTypes, ReservedMatches
<1>2. w \in Works /\ w.sums = reserved
  BY <1>1, NoWorkFits DEF Works
<1>3. Go(h, "write", w) /\ "write" \in Steps /\ "write" \notin Selling /\ pc[h] = "rebuild"
  BY DEF RebuildRead, Steps, Selling
<1>4. UNCHANGED <<ticket, line, stock, reserved>>
  BY DEF RebuildRead
<1> HIDE DEF w
<1>5. pc[h] = "idle" => Cardinality(Busy) < scenario.width
  BY <1>3
<1>6. pc'[h] = "write" /\ loc'[h] = w /\ scenario' = scenario
  BY <1>2, <1>3, <1>5, Went DEF offlineVars
<1>7. scenario.width = 1
  BY <1>3 DEF StockInv, InHand
<1>8. InHand(h)'
  BY <1>2, <1>4, <1>6, <1>7 DEF InHand
<1> QED
  BY <1>2, <1>3, <1>4, <1>5, <1>8, ReadStep

LEMMA RebuildWriteStep ==
    ASSUME StockInv, NEW h \in Requests, RebuildWrite(h), UNCHANGED offlineVars
    PROVE  StockInv'
<1>1. /\ pc[h] = "write" /\ reserved' = loc[h].sums /\ Finish(h)
      /\ UNCHANGED <<ticket, line, stock>> /\ UNCHANGED <<terminal, device, offsale, row, syn>>
  BY DEF RebuildWrite, offlineVars
<1>2. loc[h].sums = reserved
  BY <1>1 DEF StockInv, InHand
<1>3. InHand(h)' /\ Go(h, "idle", NoWork) /\ "idle" \in Steps /\ "idle" \notin Selling
  BY <1>1, Finished DEF Finish, Steps, Selling
<1> QED
  BY <1>1, <1>2, <1>3, NoWorkFits, ReadStep

LEMMA AddCommitStep ==
    ASSUME StockInv, NEW h \in Requests, AddCommit(h), UNCHANGED offlineVars
    PROVE  StockInv'
<1>2. StockTypes /\ Books
  BY DEF StockInv, Books
<1>4. /\ pc[h] = "add" /\ Finish(h) /\ UNCHANGED <<ticket, stock>>
      /\ UNCHANGED <<terminal, device, offsale, row, syn>>
  BY DEF AddCommit, offlineVars
<1>3. PICK t \in Tickets, q \in Products, n \in Nat :
        /\ t = loc[h].ticket /\ q = loc[h].product /\ n = loc[h].quantity
        /\ scenario.width = 1 /\ Pending(t) /\ line[t][q] = 0 /\ n <= Available(q)
  BY <1>4 DEF StockInv, InHand, StockTypes, Works
<1> DEFINE w == [line[t] EXCEPT ![q] = n]
<1>1. /\ pc[h] = "add" /\ Finish(h) /\ UNCHANGED <<ticket, stock>>
      /\ reserved' = [reserved EXCEPT ![q] = @ + n]
      /\ line' = [line EXCEPT ![t] = w]
      /\ UNCHANGED <<terminal, device, offsale, row, syn>>
  BY <1>3, <1>4 DEF AddCommit
<1>5. Turns(h) /\ InHand(h)' /\ scenario' = scenario /\ IsFiniteSet(Busy)'
  BY <1>1, Finished
<1>6. /\ w \in Amounts /\ w[q] = n /\ \A p \in Products \ {q} : w[p] = line[t][p]
      /\ \A p \in Products : line[t][p] \in Nat /\ reserved[p] \in Int
  BY <1>2, <1>3, <1>4 DEF StockTypes, Amounts
<1> HIDE DEF w
<1>7. \A p \in Products : /\ reserved'[p] = reserved[p] + w[p] - line[t][p]
                          /\ w[p] > line[t][p] => w[p] - line[t][p] <= Available(p)
  BY <1>1, <1>2, <1>3, <1>4, <1>6 DEF StockTypes
<1>8. reserved' \in [Products -> Int]
  BY <1>1, <1>2, <1>3, <1>4, <1>6 DEF StockTypes
<1>9. line' \in [Tickets -> Amounts] /\ \A o \in Tickets \ {t} : line'[o] = line[o]
  BY <1>1, <1>2, <1>3, <1>6 DEF StockTypes
<1>10. StockTypes'
  BY <1>1, <1>2, <1>5, <1>8, <1>9 DEF StockTypes, Turns
<1>11. Books'
  <2>1. Settled
    BY <1>1, <1>5 DEF Settled
  <2>2. Pending(t)' /\ \A o \in Tickets \ {t} : ticket'[o].status = ticket[o].status
    BY <1>1, <1>3 DEF Pending
  <2> QED BY <1>1, <1>2, <1>3, <1>6, <1>7, <1>10, <2>1, <2>2, HoldBooks
<1>12. \A g \in Requests \ {h} : pc[g] = "idle"
  BY <1>3, <1>5, Alone
<1>13. ticket[t].status # "NONE" /\ \A g \in Requests \ {h} : pc[g] # "charge"
  BY <1>3, <1>12 DEF Pending
<1> QED
  BY <1>1, <1>5, <1>9, <1>10, <1>11, <1>13, TicketStep

LEMMA ChargeCommitStep ==
    ASSUME StockInv, NEW h \in Requests, ChargeCommit(h), UNCHANGED offlineVars
    PROVE  StockInv'
<1> DEFINE t == loc[h].ticket
<1>1. /\ pc[h] = "charge" /\ Finish(h) /\ UNCHANGED line
      /\ stock' = [p \in Products |-> stock[p] - line[t][p]]
      /\ reserved' = Released(t) /\ SetTicket(t, "CHARGED")
      /\ UNCHANGED <<terminal, device, offsale, row, syn>>
  BY DEF ChargeCommit, offlineVars
<1>2. StockTypes /\ Books
  BY DEF StockInv, Books
<1>3. t \in Tickets /\ Pending(t) /\ \A p \in Products : line[t][p] <= stock[p]
  BY <1>1 DEF StockInv, InHand
<1>4. Turns(h) /\ InHand(h)' /\ scenario' = scenario /\ IsFiniteSet(Busy)'
  BY <1>1, Finished
<1> HIDE DEF t
<1>5. /\ ticket' \in [Tickets -> TicketRows] /\ ticket'[t].status = "CHARGED"
      /\ \A o \in Tickets \ {t} : ticket'[o] = ticket[o]
  BY <1>1, <1>2, <1>3, StatusSet DEF Statuses
<1>6. \A p \in Products : line[t][p] \in Nat /\ stock[p] \in Int /\ reserved[p] \in Int
  BY <1>2, <1>3, TermsNat
<1>7. reserved' \in [Products -> Int] /\ stock' \in [Products -> Int]
  BY <1>1, <1>6 DEF Released
<1>8. StockTypes'
  BY <1>1, <1>2, <1>4, <1>5, <1>7 DEF StockTypes, Turns
<1>9. Books'
  BY <1>1, <1>2, <1>3, <1>4, <1>5, <1>8, CloseBooks DEF Settled
<1>10. Others(h, {"charge"}) /\ Others(h, {"sync"})
  BY <1>1 DEF StockInv, OneSale, Others
<1>11. ticket[t].status # "NONE" /\ \A g \in Requests \ {h} : pc[g] = "charge" => loc[g].ticket # t
  BY <1>3, <1>10 DEF Pending, Others
<1> QED
  BY <1>1, <1>4, <1>5, <1>8, <1>9, <1>10, <1>11, TicketStep

LEMMA SaleCommitStep ==
    ASSUME StockInv, NEW h \in Requests, SaleCommit(h), UNCHANGED offlineVars
    PROVE  StockInv'
<1> DEFINE q == loc[h].product
           n == loc[h].quantity
<1>1. /\ pc[h] = "sale" /\ Finish(h) /\ UNCHANGED <<ticket, line, reserved>>
      /\ stock' = [stock EXCEPT ![q] = @ - n]
      /\ UNCHANGED <<terminal, device, offsale, row, syn>>
  BY DEF SaleCommit, offlineVars
<1>2. StockTypes /\ Books
  BY DEF StockInv, Books
<1>3. q \in Products /\ n <= Available(q) /\ "sale" \in scenario.kinds
  BY <1>1 DEF StockInv, InHand
<1>4. n \in Nat
  BY <1>2 DEF StockTypes, Works
<1>5. Turns(h) /\ InHand(h)' /\ scenario' = scenario /\ IsFiniteSet(Busy)'
  BY <1>1, Finished
<1> HIDE DEF q, n
<1>6. stock' \in [Products -> Int]
  <2>1. stock \in [Products -> Int]
    BY <1>2 DEF StockTypes
  <2>2. stock[q] - n \in Int
    BY <1>3, <1>4, <2>1
  <2> QED BY <1>1, <1>3, <2>1, <2>2
<1>7. StockTypes'
  BY <1>1, <1>2, <1>5, <1>6 DEF StockTypes, Turns
<1>8. Books'
  BY <1>1, <1>2, <1>3, <1>4, <1>5, <1>7, SaleBooks DEF Settled
<1>9. Others(h, {"charge"})
  BY <1>1 DEF StockInv, OneSale, Others
<1> QED
  BY <1>1, <1>5, <1>7, <1>8, <1>9, TicketStep

\* A ticket expires, in either sweep.
LEMMA ExpireStep ==
    ASSUME StockInv, NEW h \in Requests, Turns(h), IsFiniteSet(Busy)', InHand(h)',
           NEW t \in Tickets, Pending(t), TicketFree(t), ExpireTicket(t), Others(h, {"sync"}),
           UNCHANGED <<line, stock>>, UNCHANGED offlineVars
    PROVE  StockInv'
<1>1. /\ StockTypes /\ Books /\ UNCHANGED <<terminal, device, offsale, row, syn>>
      /\ reserved' = Released(t) /\ SetTicket(t, "EXPIRED") /\ scenario' = scenario
  BY DEF StockInv, Books, offlineVars, ExpireTicket, Turns
<1>2. /\ ticket' \in [Tickets -> TicketRows] /\ ticket'[t].status = "EXPIRED"
      /\ \A o \in Tickets \ {t} : ticket'[o] = ticket[o]
  BY <1>1, StatusSet DEF Statuses
<1>3. reserved' \in [Products -> Int]
  BY <1>1, TermsNat DEF Released
<1>4. StockTypes'
  BY <1>1, <1>2, <1>3 DEF StockTypes, Turns
<1>5. Books'
  BY <1>1, <1>2, <1>4, CloseBooks DEF Settled
<1>6. ticket[t].status # "NONE" /\ \A g \in Requests \ {h} : pc[g] = "charge" => loc[g].ticket # t
  BY DEF Pending, TicketFree
<1> QED
  BY <1>1, <1>2, <1>4, <1>5, <1>6, TicketStep

LEMMA SweepOneStep ==
    ASSUME StockInv, Careful(scenario), NEW h \in Requests, SweepOne(h), UNCHANGED offlineVars
    PROVE  StockInv'
<1>1. PICK t \in loc[h].todo :
       /\ pc[h] = "sweep" /\ TicketFree(t)
       /\ IF StillPending(t) THEN ExpireTicket(t) ELSE UNCHANGED <<ticket, reserved>>
       /\ IF loc[h].todo \ {t} = {} THEN Finish(h)
          ELSE Go(h, "sweep", [loc[h] EXCEPT !.todo = loc[h].todo \ {t}])
       /\ UNCHANGED <<line, stock>>
  BY DEF SweepOne
<1>2. loc[h] \in Works /\ t \in Tickets
  BY DEF StockInv, StockTypes, Works
<1>3. PICK step \in {"idle", "sweep"}, w \in Works : Go(h, step, w)
  <2>1. [loc[h] EXCEPT !.todo = loc[h].todo \ {t}] \in Works
    BY <1>2 DEF Works
  <2> QED BY <1>1, <2>1, NoWorkFits DEF Finish
<1>4. step \in Steps /\ step \notin Selling /\ pc[h] # "idle"
  BY <1>1 DEF Steps, Selling
<1>5. Turns(h) /\ pc'[h] = step /\ scenario' = scenario /\ IsFiniteSet(Busy)'
  BY <1>3, <1>4, Went DEF offlineVars
<1>6. "sweep" \in scenario.kinds
  BY <1>1 DEF StockInv, InHand
<1>7. InHand(h)'
  BY <1>5, <1>6 DEF InHand
<1>8. CASE StillPending(t)
  BY <1>1, <1>2, <1>5, <1>6, <1>7, <1>8, EndsApart, ExpireStep DEF StillPending
<1>9. CASE ~StillPending(t)
  BY <1>1, <1>3, <1>4, <1>7, <1>9, ReadStep
<1> QED
  BY <1>8, <1>9

LEMMA CloseOneStep ==
    ASSUME StockInv, Careful(scenario), NEW h \in Requests, CloseOne(h), UNCHANGED offlineVars
    PROVE  StockInv'
<1>1. PICK t \in loc[h].todo :
       /\ pc[h] = "close" /\ TicketFree(t) /\ ExpireTicket(t)
       /\ Go(h, IF loc[h].todo \ {t} = {} THEN "rebuild" ELSE "close",
             [loc[h] EXCEPT !.todo = loc[h].todo \ {t}])
       /\ UNCHANGED <<line, stock>>
  BY DEF CloseOne
<1> DEFINE w == [loc[h] EXCEPT !.todo = loc[h].todo \ {t}]
           step == IF loc[h].todo \ {t} = {} THEN "rebuild" ELSE "close"
<1>2. loc[h] \in Works /\ t \in Tickets /\ loc[h].todo \subseteq Tickets
  BY DEF StockInv, StockTypes, Works
<1>3. w \in Works /\ w.todo = loc[h].todo \ {t}
  BY <1>2 DEF Works
<1>4. step \in {"rebuild", "close"} /\ step \in Steps /\ step \notin Selling /\ pc[h] # "idle"
  BY <1>1 DEF Steps, Selling
<1>5. Go(h, step, w)
  BY <1>1
<1> HIDE DEF w, step
<1>6. Turns(h) /\ pc'[h] = step /\ loc'[h] = w /\ scenario' = scenario /\ IsFiniteSet(Busy)'
  BY <1>3, <1>4, <1>5, Went DEF offlineVars
<1>7. scenario.width = 1 /\ \A o \in loc[h].todo : Pending(o)
  BY <1>1 DEF StockInv, InHand
<1>8. \A o \in Tickets \ {t} : ticket'[o] = ticket[o]
  BY <1>1, <1>2, StatusSet DEF StockInv, ExpireTicket, Statuses
<1>9. InHand(h)'
  BY <1>2, <1>3, <1>4, <1>6, <1>7, <1>8 DEF InHand, Pending
<1> QED
  BY <1>1, <1>2, <1>6, <1>7, <1>9, EndsApart, ExpireStep

-----------------------------------------------------------------------------
(***************************************************************************)
(* Steps that leave tickets and stock alone.                               *)
(***************************************************************************)

\* No request moves: time passes, a terminal is told or changed, a register sells.
LEMMA StillStep ==
    ASSUME StockInv, UNCHANGED <<scenario, pc, loc, syn, row, line, stock, reserved>>,
           ticket' \in [Tickets -> TicketRows], offsale' \in [OffSales -> OfflineSales],
           \A t \in Tickets : ticket'[t].status = ticket[t].status,
           \A s \in Made : offsale'[s] = offsale[s] /\ s \in Made',
           \A m \in Terminals : device'[m].queue \subseteq Made',
           \A s \in Made' \ Made : offsale'[s].ticket # None =>
                                      ticket[offsale'[s].ticket].status # "NONE"
    PROVE  StockInv'
<1>1. StockTypes /\ Books /\ MadeFirst
  BY DEF StockInv, Books
<1>2. Busy' = Busy
  BY DEF Busy
<1>3. StockTypes'
  BY <1>1, <1>2 DEF StockTypes
<1>4. \A s \in Saved : offsale'[s] = offsale[s]
  BY <1>1 DEF MadeFirst
<1>5. Books'
  BY <1>1, <1>4, SameBooks DEF Settled
<1>6. MadeFirst'
  <2>1. Saved' \subseteq Made' /\ \A h \in Requests : syn'[h].todo \subseteq Made'
    BY <1>1 DEF MadeFirst, Saved
  <2>2. \A s \in Made' : offsale'[s].ticket # None => ticket'[offsale'[s].ticket].status # "NONE"
    <3> SUFFICES ASSUME NEW s \in Made', offsale'[s].ticket # None
                 PROVE  ticket'[offsale'[s].ticket].status # "NONE"
      OBVIOUS
    <3>1. offsale'[s].ticket \in Tickets
      BY <1>3 DEF StockTypes, OfflineSales, Made
    <3>2. ticket[offsale'[s].ticket].status # "NONE"
      BY <1>1 DEF MadeFirst
    <3> QED BY <3>1, <3>2
  <2>3. \A t \in Tickets : ticket'[t].status = "NONE" => \A p \in Products : line'[t][p] = 0
    BY <1>1 DEF MadeFirst
  <2> QED BY <2>1, <2>2, <2>3 DEF MadeFirst
<1>7. ASSUME NEW h \in Requests PROVE InHand(h)'
  <2>1. InHand(h)
    BY DEF StockInv
  <2>2. \A t \in Tickets : Pending(t)' = Pending(t)
    BY DEF Pending
  <2>3. /\ pc[h] = "close" => loc[h].todo \subseteq Tickets
        /\ \A s \in Made : offsale[s].ticket \in Tickets \cup {None}
    BY <1>1 DEF StockTypes, Works, OfflineSales, Made
  <2>4. pc[h] = "close" => \A o \in loc[h].todo : Pending(o)'
    BY <2>1, <2>2, <2>3 DEF InHand
  <2>5. /\ pc[h] = "add" => Pending(loc[h].ticket)'
        /\ pc[h] = "charge" => Pending(loc[h].ticket)'
    BY <2>1 DEF InHand, Pending
  <2>6. pc[h] \in {"begin", "sync"} => /\ syn[h].sale \in Made /\ syn[h].sale \in Made'
                                       /\ offsale'[syn[h].sale] = offsale[syn[h].sale]
    BY <2>1 DEF InHand
  <2>7. pc[h] = "sync" => syn[h].status = IF offsale'[syn[h].sale].ticket = None THEN None
                                          ELSE ticket'[offsale'[syn[h].sale].ticket].status
    BY <2>1, <2>3, <2>6 DEF InHand
  <2> QED BY <2>1, <2>4, <2>5, <2>6, <2>7 DEF InHand, Available
<1>8. OneSale' /\ OneRequest'
  BY DEF StockInv, OneSale, OneRequest
<1> QED
  BY <1>3, <1>5, <1>6, <1>7, <1>8 DEF StockInv, Books

\* One request moves, and tickets, stock and sales stay.
LEMMA ForthStep ==
    ASSUME StockInv, NEW h \in Requests, NEW step \in Steps, Step(h, step),
           UNCHANGED dataVars, UNCHANGED <<offsale, row>>,
           pc[h] = "idle" => Cardinality(Busy) < scenario.width,
           step \in Selling => BusinessFree,
           \A g \in Requests \ {h} : syn'[g] = syn[g],
           syn'[h].todo \subseteq Made,
           \A m \in Terminals : device'[m].queue \subseteq Made,
           InHand(h)'
    PROVE  StockInv'
<1>1. StockTypes /\ Books /\ MadeFirst
  BY DEF StockInv, Books
<1>2. Turns(h)
  BY <1>1 DEF Turns, Step, StockTypes
<1>3. IsFiniteSet(Busy)' /\ OneSale' /\ OneRequest'
  BY <1>2, TurnTaken
<1>4. StockTypes'
  BY <1>1, <1>2, <1>3 DEF StockTypes, Turns, dataVars
<1>5. Books'
  BY <1>1, <1>2, SameBooks DEF Settled, Turns, dataVars
<1>6. Made' = Made /\ Saved' = Saved
  BY DEF Made, Saved
<1>7. \A g \in Requests : syn'[g].todo \subseteq Made
  BY <1>1 DEF MadeFirst
<1>8. MadeFirst'
  BY <1>1, <1>6, <1>7 DEF MadeFirst, dataVars
<1>9. ASSUME NEW g \in Requests PROVE InHand(g)'
  <2>1. CASE g = h
    BY <2>1
  <2>2. CASE g # h
    BY <1>2, <1>6, <2>2, OtherHands DEF dataVars
  <2> QED BY <2>1, <2>2
<1> QED
  BY <1>3, <1>4, <1>5, <1>8, <1>9 DEF StockInv, Books

\* Time passes.
LEMMA TimeStep ==
    ASSUME StockInv, NEW t \in Tickets, ClaimLapses(t) \/ Expires(t), UNCHANGED offlineVars
    PROVE  StockInv'
<1>1. StockTypes /\ MadeFirst /\ ticket[t] \in TicketRows
  BY DEF StockInv, StockTypes
<1>2. UNCHANGED <<scenario, pc, loc, line, stock, reserved>>
  BY DEF ClaimLapses, Expires
<1>3. UNCHANGED <<device, offsale, row, syn>>
  BY DEF offlineVars
<1>4. PICK r \in TicketRows : ticket' = [ticket EXCEPT ![t] = r] /\ r.status = ticket[t].status
  <2>1. CASE ClaimLapses(t)
    <3>1. ticket' = [ticket EXCEPT ![t] = [ticket[t] EXCEPT !.claimed = None]]
      BY <1>1, <2>1 DEF ClaimLapses, StockTypes
    <3>2. [ticket[t] EXCEPT !.claimed = None] \in TicketRows
          /\ [ticket[t] EXCEPT !.claimed = None].status = ticket[t].status
      BY <1>1 DEF TicketRows
    <3> QED BY <3>1, <3>2
  <2>2. CASE Expires(t)
    <3>1. ticket' = [ticket EXCEPT ![t] = [ticket[t] EXCEPT !.late = TRUE]]
      BY <1>1, <2>2 DEF Expires, StockTypes
    <3>2. [ticket[t] EXCEPT !.late = TRUE] \in TicketRows
          /\ [ticket[t] EXCEPT !.late = TRUE].status = ticket[t].status
      BY <1>1 DEF TicketRows
    <3> QED BY <3>1, <3>2
  <2> QED BY <2>1, <2>2
<1>5. /\ ticket' \in [Tickets -> TicketRows]
      /\ \A o \in Tickets : ticket'[o].status = ticket[o].status
  BY <1>1, <1>4 DEF StockTypes
<1>6. Made' = Made
  BY <1>3 DEF Made
<1>7. \A m \in Terminals : device'[m].queue \subseteq Made'
  BY <1>1, <1>3, <1>6 DEF MadeFirst
<1>8. offsale' \in [OffSales -> OfflineSales]
  BY <1>1, <1>3 DEF StockTypes
<1> QED
  BY <1>2, <1>3, <1>5, <1>6, <1>7, <1>8, StillStep

\* A terminal is told, registered, or switched on or off.
LEMMA TerminalStep ==
    ASSUME StockInv, Shaped, NEW h \in Requests,
           CheckEligibility(h) \/ RegisterTerminal(h) \/ UpdateTerminal(h)
    PROVE  StockInv'
<1>1. /\ UNCHANGED <<scenario, pc, loc, offsale, row, syn, ticket, line, stock, reserved>>
      /\ StockTypes /\ MadeFirst
  BY DEF CheckEligibility, RegisterTerminal, UpdateTerminal, Still, OnlyOffline, dataVars, StockInv
<1>2. \A m \in Terminals : device'[m].queue = device[m].queue
  <2>1. CASE CheckEligibility(h)
    <3>1. PICK m \in Terminals : \E yes :
             device' = Told(m, yes) \/ device' = [device EXCEPT ![m].told = yes]
      BY <2>1 DEF CheckEligibility
    <3> QED BY <3>1, ToldWritten
  <2>2. CASE RegisterTerminal(h) \/ UpdateTerminal(h)
    BY <2>2 DEF RegisterTerminal, UpdateTerminal
  <2> QED BY <2>1, <2>2
<1>3. Made' = Made
  BY <1>1 DEF Made
<1>4. \A m \in Terminals : device'[m].queue \subseteq Made'
  BY <1>1, <1>2, <1>3 DEF MadeFirst
<1>5. ticket' \in [Tickets -> TicketRows] /\ offsale' \in [OffSales -> OfflineSales]
  BY <1>1 DEF StockTypes
<1> QED
  BY <1>1, <1>3, <1>4, <1>5, StillStep

\* The units of an item are amounts.
LEMMA UnitsOfAmounts ==
    ASSUME NEW item \in Products \cup DOMAIN Recipes PROVE UnitsOf(item, 1) \in Amounts
<1>1. CASE item \in Products
  BY <1>1 DEF UnitsOf, Amounts
<1>2. CASE item \notin Products
  <2>1. Recipes[item] \in [Products -> Nat]
    BY <1>2, OfflineAssumption
  <2> QED BY <1>2, <2>1 DEF UnitsOf, Amounts
<1> QED
  BY <1>1, <1>2

\* A register sells without connection.
LEMMA SellOfflineStep ==
    ASSUME StockInv, Shaped, NEW m \in Terminals, SellOffline(m)
    PROVE  StockInv'
<1>1. /\ UNCHANGED <<scenario, pc, loc, row, syn, ticket, line, stock, reserved>>
      /\ StockTypes /\ MadeFirst
  BY DEF SellOffline, Still, OnlyOffline, dataVars, StockInv
<1>2. PICK s \in OffSales, t \in Tickets \cup {None}, valid \in BOOLEAN :
        /\ "offline" \in scenario.offline
        /\ valid \/ "refused" \in scenario.offline
        /\ device[m].told /\ ~offsale[s].made
        /\ \E units \in IF t = None
                        THEN {UnitsOf(item, 1) : item \in Products \cup DOMAIN Recipes}
                        ELSE {line[t]} :
              /\ \E p \in Products : units[p] > 0
              /\ offsale' = [offsale EXCEPT ![s] =
                               [made |-> TRUE, ticket |-> t, units |-> units, valid |-> valid]]
        /\ device' = [device EXCEPT ![m].queue = @ \cup {s}]
        /\ Still /\ OnlyOffline /\ UNCHANGED <<terminal, row, syn>>
  BY DEF SellOffline
<1>3. PICK units \in Amounts :
        /\ t # None => units = line[t] /\ \E p \in Products : units[p] > 0
        /\ offsale' = [offsale EXCEPT ![s] =
                         [made |-> TRUE, ticket |-> t, units |-> units, valid |-> valid]]
  <2>1. CASE t = None
    BY <1>2, <2>1, UnitsOfAmounts
  <2>2. CASE t # None
    <3>1. line[t] \in Amounts
      BY <1>1, <2>2 DEF StockTypes
    <3> QED BY <1>2, <2>2, <3>1
  <2> QED BY <2>1, <2>2
<1> DEFINE sold == [made |-> TRUE, ticket |-> t, units |-> units, valid |-> valid]
<1>4. sold \in OfflineSales /\ sold.made /\ sold.ticket = t
  BY DEF OfflineSales
<1>5. offsale' = [offsale EXCEPT ![s] = sold]
  BY <1>3
<1> HIDE DEF sold
<1>6. /\ offsale' \in [OffSales -> OfflineSales] /\ offsale'[s] = sold
      /\ \A u \in OffSales \ {s} : offsale'[u] = offsale[u]
  BY <1>1, <1>4, <1>5 DEF StockTypes
<1>7. s \notin Made /\ Made' = Made \cup {s} /\ Made \subseteq OffSales
  BY <1>2, <1>4, <1>6 DEF Made
<1>8. \A u \in Made : offsale'[u] = offsale[u] /\ u \in Made'
  BY <1>6, <1>7
<1>9. \A n \in Terminals : device'[n].queue \subseteq Made'
  <2>1. PICK q \in SUBSET OffSales : /\ q = device[m].queue \cup {s}
                                     /\ device' = [device EXCEPT ![m].queue = q]
    BY <1>2 DEF Shaped, IsRegister
  <2>2. device' = [device EXCEPT ![m].queue = q]
    BY <2>1
  <2>3. /\ device'[m].queue = q
        /\ \A n \in Terminals \ {m} : device'[n] = device[n]
    BY <2>2, QueueWritten
  <2> QED BY <1>1, <1>7, <2>1, <2>3 DEF MadeFirst
<1>10. t # None => ticket[t].status # "NONE"
  <2> SUFFICES ASSUME t # None, ticket[t].status = "NONE" PROVE FALSE
    OBVIOUS
  <2>1. t \in Tickets /\ \E p \in Products : line[t][p] > 0
    BY <1>3
  <2> QED BY <1>1, <2>1 DEF MadeFirst
<1>11. \A u \in Made' \ Made : offsale'[u].ticket # None => ticket[offsale'[u].ticket].status # "NONE"
  BY <1>4, <1>6, <1>7, <1>10
<1>12. /\ ticket' \in [Tickets -> TicketRows]
       /\ \A o \in Tickets : ticket'[o].status = ticket[o].status
  BY <1>1 DEF StockTypes
<1> QED
  BY <1>1, <1>6, <1>8, <1>9, <1>11, <1>12, StillStep

-----------------------------------------------------------------------------
(***************************************************************************)
(* The synchronisation.                                                    *)
(***************************************************************************)

\* A synchronisation notes the sale it works on, or what it read of its ticket.
LEMMA FieldWritten ==
    ASSUME Shaped, NEW h \in Requests, NEW x
    PROVE  /\ syn' = [syn EXCEPT ![h].sale = x] =>
                 /\ syn'[h].sale = x /\ syn'[h].todo = syn[h].todo
                 /\ \A g \in Requests \ {h} : syn'[g] = syn[g]
           /\ syn' = [syn EXCEPT ![h].status = x] =>
                 /\ syn'[h].status = x /\ syn'[h].todo = syn[h].todo /\ syn'[h].sale = syn[h].sale
                 /\ \A g \in Requests \ {h} : syn'[g] = syn[g]
<1>1. syn[h] = [terminal |-> syn[h].terminal, batch |-> syn[h].batch, todo |-> syn[h].todo,
                sale |-> syn[h].sale, status |-> syn[h].status, failed |-> syn[h].failed]
  BY DEF Shaped, IsSync
<1>2. ASSUME syn' = [syn EXCEPT ![h].sale = x]
      PROVE  /\ syn'[h].sale = x /\ syn'[h].todo = syn[h].todo
             /\ \A g \in Requests \ {h} : syn'[g] = syn[g]
  BY <1>1, <1>2 DEF Shaped
<1>3. ASSUME syn' = [syn EXCEPT ![h].status = x]
      PROVE  /\ syn'[h].status = x /\ syn'[h].todo = syn[h].todo /\ syn'[h].sale = syn[h].sale
             /\ \A g \in Requests \ {h} : syn'[g] = syn[g]
  BY <1>1, <1>3 DEF Shaped
<1> QED
  BY <1>2, <1>3

\* It starts, finds a sale stored or goes on to it, takes the business, answers or stops.
LEMMA SyncForthStep ==
    ASSUME StockInv, Shaped, NEW h \in Requests,
           SyncStart(h) \/ Look(h) \/ TakeBusiness(h) \/ SyncReply(h) \/ SyncCrash(h)
    PROVE  StockInv'
<1>1. /\ UNCHANGED dataVars /\ UNCHANGED <<offsale, row>> /\ MadeFirst /\ StockTypes
      /\ scenario' = scenario
  BY DEF SyncStart, Look, TakeBusiness, SyncReply, SyncCrash, OnlyOffline, dataVars, StockInv, Step
<1>2. Made' = Made /\ InHand(h)
  BY <1>1 DEF Made, StockInv
<1>3. \A step : Step(h, step) => pc'[h] = step
  BY <1>1 DEF Step, StockTypes
<1>4. \A m \in Terminals : device[m].queue \subseteq Made
  BY <1>1 DEF MadeFirst
<1>5. syn[h].todo \subseteq Made
  BY <1>1 DEF MadeFirst
<1>6. CASE SyncStart(h)
  <2>1. PICK m \in Terminals :
          /\ MayBegin(h, "sync") /\ Step(h, "look") /\ UNCHANGED device
          /\ syn' = [syn EXCEPT ![h] =
                        [NoSync EXCEPT !.terminal = m, !.batch = device[m].queue,
                                       !.todo = device[m].queue]]
    BY <1>6 DEF SyncStart
  <2> DEFINE w == [NoSync EXCEPT !.terminal = m, !.batch = device[m].queue,
                                 !.todo = device[m].queue]
  <2>2. w.todo = device[m].queue
    BY DEF NoSync
  <2>3. syn' = [syn EXCEPT ![h] = w]
    BY <2>1
  <2> HIDE DEF w
  <2>4. syn'[h] = w /\ \A g \in Requests \ {h} : syn'[g] = syn[g]
    BY <2>3 DEF Shaped
  <2>5. /\ InHand(h)' /\ "look" \in Steps /\ "look" \notin Selling
        /\ Cardinality(Busy) < scenario.width
    BY <1>1, <1>3, <2>1 DEF InHand, Steps, Selling, MayBegin
  <2> QED BY <1>1, <1>4, <2>1, <2>2, <2>4, <2>5, ForthStep
<1>7. CASE Look(h)
  <2>1. PICK s \in syn[h].todo :
          /\ pc[h] = "look" /\ UNCHANGED device
          /\ IF row[s].saved THEN syn' = Done(h, s, {}) /\ Step(h, "look")
             ELSE syn' = [syn EXCEPT ![h].sale = s] /\ Step(h, "begin")
    BY <1>7 DEF Look
  <2>2. s \in Made /\ "sync" \in scenario.offline
    BY <1>2, <1>5, <2>1 DEF InHand
  <2>3. CASE row[s].saved
    <3>1. syn'[h].todo = syn[h].todo \ {s} /\ \A g \in Requests \ {h} : syn'[g] = syn[g]
      BY <2>1, <2>3, DoneWritten
    <3>2. /\ InHand(h)' /\ "look" \in Steps /\ "look" \notin Selling /\ Step(h, "look")
          /\ pc[h] # "idle"
      BY <1>1, <1>3, <2>1, <2>2, <2>3 DEF InHand, Steps, Selling
    <3> QED BY <1>1, <1>4, <1>5, <2>1, <3>1, <3>2, ForthStep
  <2>4. CASE ~row[s].saved
    <3>1. /\ syn'[h].sale = s /\ syn'[h].todo = syn[h].todo
          /\ \A g \in Requests \ {h} : syn'[g] = syn[g]
      BY <2>1, <2>4, FieldWritten
    <3>2. /\ InHand(h)' /\ "begin" \in Steps /\ "begin" \notin Selling /\ Step(h, "begin")
          /\ pc[h] # "idle"
      BY <1>1, <1>2, <1>3, <2>1, <2>2, <2>4, <3>1 DEF InHand, Steps, Selling
    <3> QED BY <1>1, <1>4, <1>5, <2>1, <3>1, <3>2, ForthStep
  <2> QED BY <2>3, <2>4
<1>8. CASE TakeBusiness(h)
  <2> DEFINE s == syn[h].sale
             status == IF offsale[s].ticket = None THEN None ELSE ticket[offsale[s].ticket].status
  <2>1. /\ pc[h] = "begin" /\ BusinessFree /\ UNCHANGED device
        /\ \/ syn' = Done(h, s, {s}) /\ Step(h, "look")
           \/ syn' = [syn EXCEPT ![h].status = status] /\ Step(h, "sync")
    BY <1>8 DEF TakeBusiness
  <2>2. s \in Made /\ "sync" \in scenario.offline
    BY <1>2, <2>1 DEF InHand
  <2> HIDE DEF s, status
  <2>3. CASE syn' = Done(h, s, {s}) /\ Step(h, "look")
    <3>1. syn'[h].todo = syn[h].todo \ {s} /\ \A g \in Requests \ {h} : syn'[g] = syn[g]
      BY <2>3, DoneWritten
    <3>2. /\ InHand(h)' /\ "look" \in Steps /\ "look" \notin Selling /\ pc[h] # "idle"
      BY <1>1, <1>3, <2>1, <2>2, <2>3 DEF InHand, Steps, Selling
    <3> QED BY <1>1, <1>4, <1>5, <2>1, <2>3, <3>1, <3>2, ForthStep
  <2>4. CASE syn' = [syn EXCEPT ![h].status = status] /\ Step(h, "sync")
    <3> PICK x, u : x = status /\ u = s
      OBVIOUS
    <3>0. syn' = [syn EXCEPT ![h].status = x] /\ u = syn[h].sale
      BY <2>4 DEF s
    <3>1. /\ syn'[h].status = x /\ syn'[h].sale = u /\ syn'[h].todo = syn[h].todo
          /\ \A g \in Requests \ {h} : syn'[g] = syn[g]
      BY <3>0, FieldWritten
    <3>2. "sync" \in Steps /\ pc[h] # "idle" /\ pc'[h] = "sync"
      BY <1>3, <2>1, <2>4 DEF Steps
    <3>3. InHand(h)'
      BY <1>1, <1>2, <2>2, <3>1, <3>2 DEF InHand, dataVars, s, status
    <3> QED BY <1>1, <1>4, <1>5, <2>1, <2>4, <3>1, <3>2, <3>3, ForthStep
  <2> QED BY <2>1, <2>3, <2>4
<1>9. CASE SyncReply(h) \/ SyncCrash(h)
  <2>1. syn' = [syn EXCEPT ![h] = NoSync] /\ Step(h, "idle") /\ pc[h] # "idle"
    BY <1>9 DEF SyncReply, SyncCrash
  <2>2. syn'[h] = NoSync /\ \A g \in Requests \ {h} : syn'[g] = syn[g]
    BY <2>1, NoSyncIsSync, WorkWritten
  <2>3. syn'[h].todo \subseteq Made
    BY <2>2 DEF NoSync
  <2>4. InHand(h)' /\ "idle" \in Steps /\ "idle" \notin Selling
    BY <1>3, <2>1, IdleHand DEF Steps, Selling
  <2>5. \A m \in Terminals : device'[m].queue \subseteq Made
    <3>1. CASE device' = device
      BY <1>4, <3>1
    <3>2. CASE device' # device
      <4>1. PICK m, Q : device' = [device EXCEPT ![m].queue = @ \ Q]
        BY <1>9, <3>2 DEF SyncReply, SyncCrash
      <4>2. CASE m \in Terminals
        <5>1. device[m].queue \ Q \in SUBSET OffSales
              /\ device' = [device EXCEPT ![m].queue = device[m].queue \ Q]
          BY <4>1, <4>2 DEF Shaped, IsRegister
        <5>2. /\ device'[m].queue = device[m].queue \ Q
              /\ \A n \in Terminals \ {m} : device'[n] = device[n]
          BY <4>2, <5>1, QueueWritten
        <5> QED BY <1>4, <5>2
      <4>3. CASE m \notin Terminals
        BY <1>4, <4>1, <4>3 DEF Shaped
      <4> QED BY <4>2, <4>3
    <3> QED BY <3>1, <3>2
  <2> QED BY <1>1, <2>1, <2>2, <2>3, <2>4, <2>5, ForthStep
<1> QED
  BY <1>6, <1>7, <1>8, <1>9

\* A transaction commits: the sale is there already, or takes its units and its ticket.
LEMMA SyncCommitStep ==
    ASSUME StockInv, Shaped, NEW h \in Requests, SyncCommit(h)
    PROVE  StockInv'
<1>1. /\ pc[h] = "sync" /\ Step(h, "look") /\ UNCHANGED <<scenario, device, offsale>>
      /\ StockTypes /\ Books /\ MadeFirst /\ InHand(h) /\ UNCHANGED line
  BY DEF SyncCommit, StockInv, Books, Step, dataVars
<1>2. PICK s \in OffSales, t \in Tickets \cup {None}, status \in Statuses \cup {None} :
        /\ s = syn[h].sale /\ t = offsale[s].ticket /\ status = syn[h].status
        /\ status = IF t = None THEN None ELSE ticket[t].status
        /\ s \in Made
  <2>1. syn[h].sale \in Made /\ syn[h].sale \in OffSales
    BY <1>1 DEF InHand, Made
  <2>2. offsale[syn[h].sale].ticket \in Tickets \cup {None}
    BY <1>1, <2>1 DEF StockTypes, OfflineSales
  <2>3. syn[h].status = IF offsale[syn[h].sale].ticket = None THEN None
                        ELSE ticket[offsale[syn[h].sale].ticket].status
    BY <1>1 DEF InHand
  <2>4. syn[h].status \in Statuses \cup {None}
    BY <1>1, <2>2, <2>3 DEF StockTypes, TicketRows
  <2> QED BY <2>1, <2>2, <2>3, <2>4
<1>3. \/ Duplicate(s) /\ syn' = Done(h, s, {s}) /\ UNCHANGED <<dataVars, row>>
      \/ /\ ~Duplicate(s)
         /\ stock' = [p \in Products |-> stock[p] - offsale[s].units[p]]
         /\ ChargeOffline(t, status)
         /\ row' = [row EXCEPT ![s] = [saved |-> TRUE, short |-> Shortage(offsale[s].units),
                                       review |-> NeedsReview(status)]]
         /\ syn' = Done(h, s, {})
  BY <1>2 DEF SyncCommit
<1>4. syn'[h].todo = syn[h].todo \ {s} /\ \A g \in Requests \ {h} : syn'[g] = syn[g]
  BY <1>3, DoneWritten
<1>5. pc'[h] = "look" /\ "look" \in Steps /\ "look" \notin Selling
  BY <1>1 DEF Step, StockTypes, Steps, Selling
<1>6. InHand(h)'
  BY <1>1, <1>5 DEF InHand
<1>7. syn[h].todo \subseteq Made
  BY <1>1 DEF MadeFirst
<1>8. CASE Duplicate(s) /\ UNCHANGED <<dataVars, row>>
  <2>1. \A m \in Terminals : device'[m].queue \subseteq Made
    BY <1>1 DEF MadeFirst
  <2> QED BY <1>1, <1>4, <1>5, <1>6, <1>7, <1>8, <2>1, ForthStep
<1>9. CASE /\ ~Duplicate(s)
           /\ stock' = [p \in Products |-> stock[p] - offsale[s].units[p]]
           /\ ChargeOffline(t, status)
           /\ row' = [row EXCEPT ![s] = [saved |-> TRUE, short |-> Shortage(offsale[s].units),
                                         review |-> NeedsReview(status)]]
  <2>1. Turns(h)
    BY <1>1, <1>4, <1>5 DEF Turns, Step, StockTypes
  <2>2. IsFiniteSet(Busy)' /\ OneSale' /\ OneRequest'
    BY <2>1, TurnTaken
  <2>3. stock' \in [Products -> Int]
    <3>1. \A p \in Products : stock[p] \in Int /\ offsale[s].units[p] \in Nat
      BY <1>1, TermsNat
    <3> QED BY <1>9, <3>1
  <2>4. /\ ticket' \in [Tickets -> TicketRows] /\ reserved' \in [Products -> Int]
        /\ \A o \in Tickets : ticket[o].status # "NONE" <=> ticket'[o].status # "NONE"
    <3>1. CASE t # None /\ ~NeedsReview(status)
      <4>1. SetTicket(t, "CHARGED") /\ reserved' = Released(t) /\ t \in Tickets
        BY <1>9, <3>1 DEF ChargeOffline
      <4>2. /\ ticket' \in [Tickets -> TicketRows] /\ ticket'[t].status = "CHARGED"
            /\ \A o \in Tickets \ {t} : ticket'[o] = ticket[o]
        BY <1>1, <4>1, StatusSet DEF Statuses
      <4>3. reserved' \in [Products -> Int]
        BY <1>1, <4>1, TermsNat DEF Released
      <4>4. ticket[t].status # "NONE"
        BY <1>1, <1>2, <3>1 DEF MadeFirst
      <4> QED BY <4>2, <4>3, <4>4
    <3>2. CASE ~(t # None /\ ~NeedsReview(status))
      BY <1>1, <1>9, <3>2 DEF ChargeOffline, StockTypes
    <3> QED BY <3>1, <3>2
  <2>5. row' \in [OffSales -> SaleRows] /\ row'[s].saved /\ \A u \in OffSales \ {s} : row'[u] = row[u]
    <3> DEFINE r == [saved |-> TRUE, short |-> Shortage(offsale[s].units),
                     review |-> NeedsReview(status)]
    <3>1. r \in SaleRows /\ r.saved
      BY DEF SaleRows, Shortage, NeedsReview
    <3>2. row' = [row EXCEPT ![s] = r]
      BY <1>9
    <3> HIDE DEF r
    <3> QED BY <1>1, <3>1, <3>2 DEF StockTypes
  <2>6. StockTypes'
    BY <1>1, <2>1, <2>2, <2>3, <2>4, <2>5 DEF StockTypes, Turns
  <2>7. Books'
    <3>1. ~row[s].saved
      BY <1>9 DEF Duplicate
    <3>2. t # None => ticket[t].status # "NONE"
      BY <1>1, <1>2 DEF MadeFirst
    <3> QED BY <1>1, <1>2, <1>9, <2>6, <3>1, <3>2, SyncBooks
  <2>8. Made' = Made /\ Saved' = Saved \cup {s} /\ Saved \subseteq Made
    BY <1>1, <2>5 DEF Made, Saved, MadeFirst
  <2>9. MadeFirst'
    <3>1. \A g \in Requests : syn'[g].todo \subseteq Made
      BY <1>1, <1>4 DEF MadeFirst
    <3>2. \A u \in Made : offsale[u].ticket # None => ticket'[offsale[u].ticket].status # "NONE"
      <4> SUFFICES ASSUME NEW u \in Made, offsale[u].ticket # None
                   PROVE  ticket'[offsale[u].ticket].status # "NONE"
        OBVIOUS
      <4>1. offsale[u].ticket \in Tickets
        BY <1>1 DEF StockTypes, OfflineSales, Made
      <4> QED BY <1>1, <2>4, <4>1 DEF MadeFirst
    <3>3. \A o \in Tickets : ticket'[o].status = "NONE" => \A p \in Products : line'[o][p] = 0
      BY <1>1, <2>4 DEF MadeFirst
    <3> QED BY <1>1, <1>2, <2>8, <3>1, <3>2, <3>3 DEF MadeFirst
  <2>10. ASSUME NEW g \in Requests PROVE InHand(g)'
    <3>1. CASE g = h
      BY <1>6, <3>1
    <3>2. CASE g # h
      <4>1. pc[g] \notin {"charge", "sync"}
        BY <1>1, <3>2 DEF StockInv, OneSale
      <4>2. \A u \in Made : offsale'[u] = offsale[u] /\ u \in Made'
        BY <1>1, <2>8
      <4> QED BY <2>1, <3>2, <4>1, <4>2, OtherHands
    <3> QED BY <3>1, <3>2
  <2> QED BY <2>2, <2>6, <2>7, <2>9, <2>10 DEF StockInv, Books
<1> QED
  BY <1>3, <1>8, <1>9

\* A request under the key.
LEMMA KeyForthStep ==
    ASSUME StockInv, NEW h \in Requests,
           \/ KeyFind(h) \/ KeyDelete(h) \/ KeyInsert(h) \/ KeyHandle(h) \/ KeyStore(h)
           \/ KeyFail(h)           \/ KeyCrash(h) \/ KeyWait(h) \/ KeyLost(h)
    PROVE  StockInv'
<1>1. PICK step \in KeySteps \cup {"idle"} : KeyStep(h, step)
  BY DEF KeyFind, KeyDelete, KeyInsert, KeyHandle, KeyStore, KeyFail, KeyCrash, KeyWait, KeyLost, KeyEnds,
         KeySteps
<1>2. pc[h] = "idle" => Cardinality(Busy) < scenario.width
  BY DEF KeyFind, KeyDelete, KeyInsert, KeyHandle, KeyStore, KeyFail, KeyCrash, KeyWait, KeyLost, MayBegin
<1>3. Step(h, step) /\ UNCHANGED dataVars /\ UNCHANGED <<device, offsale, row, syn>>
  BY <1>1 DEF KeyStep, OnlyKey, offlineVars
<1>4. step \in Steps /\ step \notin Selling
  BY DEF KeySteps, Steps, Selling
<1>5. pc'[h] = step
  BY <1>3 DEF Step, StockInv, StockTypes
<1>6. InHand(h)'
  BY <1>5 DEF InHand, KeySteps
<1>7. syn'[h].todo \subseteq Made /\ \A m \in Terminals : device'[m].queue \subseteq Made
  BY <1>3 DEF StockInv, MadeFirst
<1> QED
  BY <1>2, <1>3, <1>4, <1>6, <1>7, ForthStep

\* Nothing of the stock, the sales and the requests changes.
LEMMA AsideStep ==
    ASSUME StockInv, UNCHANGED vars, UNCHANGED offlineVars PROVE StockInv'
<1>1. /\ UNCHANGED <<scenario, ticket, line, stock, reserved, pc, loc>>
      /\ UNCHANGED <<device, offsale, row, syn>>
  BY DEF vars, offlineVars
<1>2. StockTypes /\ MadeFirst /\ Made' = Made
  BY <1>1 DEF StockInv, Made
<1>3. /\ ticket' \in [Tickets -> TicketRows] /\ offsale' \in [OffSales -> OfflineSales]
      /\ \A m \in Terminals : device'[m].queue \subseteq Made'
  BY <1>1, <1>2 DEF StockTypes, MadeFirst
<1> QED
  BY <1>1, <1>2, <1>3, StillStep

-----------------------------------------------------------------------------
LEMMA StockInit == OfflineInit => StockInv
<1> SUFFICES ASSUME OfflineInit PROVE StockInv
  OBVIOUS
<1>1. /\ scenario \in Scenarios
      /\ ticket = [t \in Tickets |-> [status |-> "NONE", claimed |-> None, late |-> FALSE]]
      /\ line = [t \in Tickets |-> [p \in Products |-> 0]]
      /\ stock = [p \in Products |-> Stock] /\ reserved = [p \in Products |-> 0]
      /\ pc = [h \in Requests |-> "idle"] /\ loc = [h \in Requests |-> NoWork]
      /\ offsale = [s \in OffSales |-> NoSale] /\ row = [s \in OffSales |-> NoRow]
      /\ syn = [h \in Requests |-> NoSync]
      /\ \A m \in Terminals : device[m].queue = {}
  BY DEF OfflineInit, Init
<1>2. /\ \A t \in Tickets : ticket[t] \in TicketRows /\ ticket[t].status = "NONE"
      /\ \A s \in OffSales : /\ offsale[s] \in OfflineSales /\ ~offsale[s].made
                             /\ row[s] \in SaleRows /\ ~row[s].saved
      /\ \A h \in Requests : syn[h].todo = {} /\ pc[h] = "idle"
  BY <1>1 DEF TicketRows, Statuses, OfflineSales, NoSale, SaleRows, NoRow, NoSync, Amounts
<1>3. StockTypes
  <2>1. Busy = {}
    BY <1>2 DEF Busy
  <2>2. IsFiniteSet(Busy)
    BY <2>1, FS_EmptySet
  <2>3. ticket \in [Tickets -> TicketRows] /\ line \in [Tickets -> Amounts]
    BY <1>1, <1>2 DEF Amounts
  <2>4. stock \in [Products -> Int] /\ reserved \in [Products -> Int]
    BY <1>1, StockAssumption
  <2>5. pc \in [Requests -> Steps] /\ loc \in [Requests -> Works]
    BY <1>1, NoWorkFits DEF Steps
  <2>6. offsale \in [OffSales -> OfflineSales] /\ row \in [OffSales -> SaleRows]
    BY <1>1, <1>2
  <2> QED BY <1>1, <2>2, <2>3, <2>4, <2>5, <2>6 DEF StockTypes
<1>4. Saved = {} /\ Made = {}
  BY <1>2 DEF Saved, Made
<1>5. MadeFirst /\ ChargedOnce
  BY <1>1, <1>2, <1>4 DEF MadeFirst, ChargedOnce
<1>6. OneSale /\ OneRequest /\ \A h \in Requests : InHand(h)
  BY <1>2 DEF OneSale, OneRequest, InHand
<1>7. ASSUME NEW p \in Products
      PROVE  stock[p] = Stock /\ reserved[p] = 0 /\ Held(p) = 0 /\ Charged(p) = 0 /\ Arrived(p) = 0
  <2> DEFINE g == [t \in Tickets |-> HeldBy(t, p)]
             c == [t \in Tickets |-> ChargedOn(t, p)]
             a == [s \in OffSales |-> StoredAs(s, p)]
  <2>1. /\ \A t \in Tickets : g[t] = 0 /\ c[t] = 0
        /\ \A s \in OffSales : a[s] = 0
    BY <1>2 DEF HeldBy, Pending, ChargedOn, ChargedThere, StoredAs
  <2>2. /\ Held(p) = SumFunctionOnSet(g, Tickets) /\ IsFiniteSet(Tickets)
        /\ Charged(p) = SumFunctionOnSet(c, Tickets)
        /\ Arrived(p) = SumFunctionOnSet(a, OffSales) /\ IsFiniteSet(OffSales)
    BY SumsAre
  <2> HIDE DEF g, c, a
  <2>3. Held(p) = 0 /\ Charged(p) = 0 /\ Arrived(p) = 0
    BY <2>1, <2>2, SumZero
  <2> QED BY <1>1, <2>3
<1>8. UnitsSold /\ ReservedMatches /\ ShortageTold
  BY <1>7, StockAssumption DEF UnitsSold, ReservedMatches, ShortageTold
<1> QED
  BY <1>3, <1>5, <1>6, <1>8 DEF StockInv

LEMMA TicketsKeepBooks ==
    ASSUME StockInv, Careful(scenario), Next, UNCHANGED offlineVars PROVE StockInv'
<1>1. ASSUME NEW h \in Requests, Create(h) \/ Claim(h) \/ Remove(h) \/ Reduce(h) \/ Cancel(h)
      PROVE  StockInv'
  BY <1>1, CreateStep, ClaimStep, LowerStep, CancelStep
<1>2. ASSUME NEW h \in Requests,
             AddRead(h) \/ ChargeRead(h) \/ SaleRead(h) \/ SweepRead(h) \/ CloseRead(h) \/ RebuildRead(h)
      PROVE  StockInv'
  BY <1>2, AddReadStep, ChargeReadStep, SaleReadStep, SweepReadStep, RebuildReadStep
<1>3. ASSUME NEW h \in Requests,
             AddCommit(h) \/ ChargeCommit(h) \/ SaleCommit(h) \/ SweepOne(h) \/ CloseOne(h)
             \/ RebuildWrite(h)
      PROVE  StockInv'
  BY <1>3, AddCommitStep, ChargeCommitStep, SaleCommitStep, SweepOneStep, CloseOneStep,
     RebuildWriteStep
<1>4. ASSUME NEW t \in Tickets, ClaimLapses(t) \/ Expires(t) PROVE StockInv'
  BY <1>4, TimeStep
<1> QED
  BY <1>1, <1>2, <1>3, <1>4 DEF Next

LEMMA OfflineKeepsBooks ==
    ASSUME StockInv, Shaped, Careful(scenario), [OfflineNext]_allVars PROVE StockInv'
<1>1. CASE Next /\ UNCHANGED <<offlineVars, catalogVars, keyVars, bill>>
  BY <1>1, TicketsKeepBooks
<1>2. ASSUME NEW h \in Requests, CheckEligibility(h) \/ RegisterTerminal(h) \/ UpdateTerminal(h)
      PROVE  StockInv'
  BY <1>2, TerminalStep
<1>3. ASSUME NEW h \in Requests,
             \/ SyncStart(h) \/ Look(h) \/ TakeBusiness(h) \/ SyncCommit(h)
             \/ SyncReply(h) \/ SyncCrash(h)
      PROVE  StockInv'
  BY <1>3, SyncForthStep, SyncCommitStep
<1>4. ASSUME NEW h \in Requests,
             \/ KeyFind(h) \/ KeyDelete(h) \/ KeyInsert(h) \/ KeyHandle(h) \/ KeyStore(h)
             \/ KeyFail(h) \/ KeyCrash(h) \/ KeyWait(h) \/ KeyLost(h)
      PROVE  StockInv'
  BY <1>4, KeyForthStep
<1>5. ASSUME NEW m \in Terminals, SellOffline(m) PROVE StockInv'
  BY <1>5, SellOfflineStep
<1>6. ASSUME NEW p \in Products, EditWrite(p) \/ ChangeUnstamped(p) PROVE StockInv'
  BY <1>6, AsideStep DEF EditWrite, ChangeUnstamped, OnlyCatalog
<1>7. CASE EditCommit \/ FetchCatalog \/ KeyExpires \/ ComputeBill
  BY <1>7, AsideStep DEF EditCommit, FetchCatalog, KeyExpires, ComputeBill, OnlyCatalog
<1>8. CASE UNCHANGED allVars
  BY <1>8, AsideStep DEF allVars
<1> QED
  BY <1>1, <1>2, <1>3, <1>4, <1>5, <1>6, <1>7, <1>8 DEF OfflineNext

\* A ticket charged by a synchronisation is on one sale.
LEMMA ChargedOnceCounted ==
    ASSUME StockTypes, ChargedOnce PROVE TicketChargedOnce
<1> SUFFICES ASSUME NEW t \in Tickets
             PROVE  Cardinality({s \in Saved : offsale[s].ticket = t /\ ~row[s].review}) <= 1
  BY DEF TicketChargedOnce
<1> DEFINE S == {s \in Saved : offsale[s].ticket = t /\ ~row[s].review}
<1>1. S = {} => Cardinality(S) = 0
  BY FS_EmptySet
<1>2. S # {} => Cardinality(S) = 1
  <2> SUFFICES ASSUME S # {} PROVE Cardinality(S) = 1
    OBVIOUS
  <2>1. PICK s : s \in S
    OBVIOUS
  <2>2. offsale[s].ticket # None
    BY <2>1, RowAssumption
  <2>3. S = {s}
    BY <2>1, <2>2 DEF ChargedOnce
  <2>4. Cardinality({s}) = 1
    BY FS_Singleton
  <2> QED BY <2>3, <2>4
<1>3. Cardinality(S) = 0 \/ Cardinality(S) = 1
  BY <1>1, <1>2
<1> QED
  BY <1>3

\* For any number of requests, tickets and offline sales: where handlers that write what
\* they read before stand alone, and no ticket is cancelled or swept beside a
\* synchronisation, every unit that left the stock is on one sale, reservations are
\* what pending tickets hold, each ticket is charged once, and what was short is told.
THEOREM StockAccounted == OfflineSpec => [](Careful(scenario) => StockExplained)
<1> DEFINE Part == SyncInv /\ (Careful(scenario) => StockInv)
<1>1. OfflineInit => Part
  BY SyncInit, StockInit
<1>2. Part /\ [OfflineNext]_allVars => Part'
  <2> SUFFICES ASSUME Part, [OfflineNext]_allVars PROVE Part'
    OBVIOUS
  <2>1. SyncInv'
    BY SyncStep
  <2>2. scenario' = scenario
    BY ScenarioStays
  <2>3. Careful(scenario') => StockInv'
    BY <2>2, OfflineKeepsBooks DEF SyncInv
  <2> QED BY <2>1, <2>3
<1>3. Part => (Careful(scenario) => StockExplained)
  BY ChargedOnceCounted DEF StockInv, StockExplained
<1> HIDE DEF Part
<1> QED
  BY <1>1, <1>2, <1>3, PTL DEF OfflineSpec

-----------------------------------------------------------------------------
(***************************************************************************)
(* The bill of a sale adds up.                                             *)
(***************************************************************************)

\* A ratio that is rounded is off by half a unit at most.
LEMMA RoundNear ==
    ASSUME NEW a \in Int, NEW d \in Nat, d > 0
    PROVE  /\ Round(a, d) \in Int
           /\ 2 * (Round(a, d) * d - a) <= d /\ 0 - d <= 2 * (Round(a, d) * d - a)
           /\ a >= 0 => Round(a, d) >= 0
<1> DEFINE x == 2 * a + d
           y == 2 * d
           q == x \div y
<1>1. x \in Int /\ y \in Nat /\ y > 0
  OBVIOUS
<1>2. q = Round(a, d)
  BY DEF Round
<1> HIDE DEF x, y
<1>3. q \in Int /\ y * q <= x /\ x < y * q + y
  BY <1>1
<1>4. x >= 0 => q >= 0
  BY <1>1
<1> HIDE DEF q
<1>5. y * q = 2 * (q * d)
  BY <1>3 DEF y
<1>6. q * d \in Int
  BY <1>3
<1> QED
  BY <1>2, <1>3, <1>4, <1>5, <1>6 DEF x, y

LEMMA DistanceNear ==
    ASSUME NEW a \in Int, NEW c \in Int, NEW w \in Int, 2 * (a - c) <= w, 0 - w <= 2 * (a - c)
    PROVE  2 * Distance(a, c) <= w
  BY DEF Distance

\* What is computed from: a basket with lines that are worth something together.
BillInput == \E b \in Baskets, asked \in Discounts, biz \in Tax, perLine \in BOOLEAN :
    bill = [none |-> FALSE, basket |-> b, asked |-> asked, biz |-> biz,
            is |-> Bill(b, asked, biz, perLine)]

LEMMA BasketFacts ==
    ASSUME NEW b \in Baskets
    PROVE  /\ Len(b) \in Nat /\ Len(b) > 0 /\ DOMAIN b = 1 .. Len(b)
           /\ IsFiniteSet(1 .. Len(b)) /\ IsFiniteSet(1 .. Len(b) - 1)
           /\ Cardinality(1 .. Len(b)) = Len(b) /\ Cardinality(1 .. Len(b) - 1) = Len(b) - 1
           /\ \A i \in 1 .. Len(b) : Net(b[i]) \in Int /\ b[i].taxable \in BOOLEAN
           /\ Subtotal(b) = SumFunctionOnSet([i \in 1 .. Len(b) |-> Net(b[i])], 1 .. Len(b))
           /\ Subtotal(b) \in Nat
<1>1. b \in Seq(BasketLines) /\ Len(b) > 0 /\ Subtotal(b) >= 0
  BY OfflineAssumption
<1>2. Len(b) \in Nat /\ DOMAIN b = 1 .. Len(b) /\ \A i \in 1 .. Len(b) : b[i] \in BasketLines
  BY <1>1
<1>3. /\ IsFiniteSet(1 .. Len(b)) /\ IsFiniteSet(1 .. Len(b) - 1)
      /\ Cardinality(1 .. Len(b)) = Len(b) /\ Cardinality(1 .. Len(b) - 1) = Len(b) - 1
  <2>1. 1 \in Int /\ Len(b) \in Int /\ Len(b) - 1 \in Int
    BY <1>2
  <2>2. IsFiniteSet(1 .. Len(b)) /\ Cardinality(1 .. Len(b)) = IF 1 > Len(b) THEN 0 ELSE Len(b) - 1 + 1
    BY <2>1, FS_Interval
  <2>3. /\ IsFiniteSet(1 .. Len(b) - 1)
        /\ Cardinality(1 .. Len(b) - 1) = IF 1 > Len(b) - 1 THEN 0 ELSE Len(b) - 1 - 1 + 1
    BY <2>1, FS_Interval
  <2> QED BY <1>1, <1>2, <2>2, <2>3
<1>4. \A i \in 1 .. Len(b) : Net(b[i]) \in Int /\ b[i].taxable \in BOOLEAN
  BY <1>2 DEF Net, BasketLines
<1> DEFINE g == [i \in 1 .. Len(b) |-> Net(b[i])]
<1>5. Subtotal(b) = SumFunctionOnSet(g, 1 .. Len(b))
  BY <1>2 DEF Subtotal, SumFunction
<1>6. \A i \in 1 .. Len(b) : g[i] \in Int
  BY <1>4
<1> HIDE DEF g
<1>7. SumFunctionOnSet(g, 1 .. Len(b)) \in Int
  BY <1>3, <1>6, SumInt
<1> QED
  BY <1>1, <1>2, <1>3, <1>4, <1>5, <1>7 DEF g


\* What all the parts but the last are off by, together.
LEMMA PartsNear ==
    ASSUME NEW Q, IsFiniteSet(Q), NEW S \in Nat, NEW d \in Nat, NEW net, NEW part,
           \A i \in Q : /\ net[i] \in Int /\ part[i] \in Int
                        /\ 2 * (part[i] * S - d * net[i]) <= S
                        /\ 0 - S <= 2 * (part[i] * S - d * net[i])
    PROVE  /\ 2 * (d * SumFunctionOnSet(net, Q) - S * SumFunctionOnSet(part, Q)) <= S * Cardinality(Q)
           /\ 0 - S * Cardinality(Q)
                <= 2 * (d * SumFunctionOnSet(net, Q) - S * SumFunctionOnSet(part, Q))
<1> DEFINE ideal == [i \in Q |-> d * net[i]]
           given == [i \in Q |-> S * part[i]]
           error == [i \in Q |-> d * net[i] - S * part[i]]
           twice == [i \in Q |-> 2 * (d * net[i] - S * part[i])]
<1>1. \A i \in Q : /\ net[i] \in Int /\ ideal[i] = d * net[i] /\ ideal[i] \in Int
  OBVIOUS
<1>2. \A i \in Q : /\ part[i] \in Int /\ given[i] = S * part[i] /\ given[i] \in Int
  OBVIOUS
<1>3. \A i \in Q : error[i] = ideal[i] - given[i] /\ twice[i] = 2 * error[i]
  OBVIOUS
<1>4. \A i \in Q : /\ error[i] \in Int /\ ideal[i] = error[i] + given[i]
                   /\ twice[i] \in Int
  <2> HIDE DEF ideal, given, error, twice
  <2> QED BY <1>1, <1>2, <1>3
<1>5. \A i \in Q : twice[i] <= S /\ 0 - S <= twice[i]
  <2> TAKE i \in Q
  <2>1. part[i] * S = S * part[i]
    BY <1>2
  <2>2. twice[i] = 2 * (d * net[i] - part[i] * S)
    BY <2>1
  <2>3. \A a, c \in Int : 2 * (a - c) = 0 - 2 * (c - a)
    OBVIOUS
  <2>4. d * net[i] \in Int /\ part[i] * S \in Int
    BY <1>1, <1>2, <2>1
  <2>5. twice[i] = 0 - 2 * (part[i] * S - d * net[i])
    BY <2>2, <2>3, <2>4, Zenon
  <2>6. 2 * (part[i] * S - d * net[i]) <= S /\ 0 - S <= 2 * (part[i] * S - d * net[i])
    OBVIOUS
  <2> HIDE DEF twice
  <2> QED BY <2>4, <2>5, <2>6
<1> HIDE DEF ideal, given, error, twice
<1>6. SumFunctionOnSet(ideal, Q) = d * SumFunctionOnSet(net, Q)
  BY <1>1, SumScale
<1>7. SumFunctionOnSet(given, Q) = S * SumFunctionOnSet(part, Q)
  BY <1>2, SumScale
<1>8. SumFunctionOnSet(ideal, Q) = SumFunctionOnSet(error, Q) + SumFunctionOnSet(given, Q)
  BY <1>2, <1>4, SumPlus
<1>9. SumFunctionOnSet(twice, Q) = 2 * SumFunctionOnSet(error, Q)
  BY <1>3, <1>4, SumScale
<1>10. /\ SumFunctionOnSet(twice, Q) <= S * Cardinality(Q)
       /\ 0 - S * Cardinality(Q) <= SumFunctionOnSet(twice, Q)
  BY <1>4, <1>5, SumWithin
<1>11. /\ SumFunctionOnSet(error, Q) \in Int /\ SumFunctionOnSet(given, Q) \in Int
  BY <1>2, <1>4, SumInt
<1>12. SumFunctionOnSet(twice, Q) = 2 * (SumFunctionOnSet(ideal, Q) - SumFunctionOnSet(given, Q))
  BY <1>8, <1>9, <1>11
<1> QED
  BY <1>6, <1>7, <1>10, <1>12, Zenon

\* What the last part is off by: what the others are off by.
LEMMA RestNear ==
    ASSUME NEW d \in Nat, NEW x \in Int, NEW N \in Int, NEW T \in Int, NEW S \in Nat, S = x + N,
           NEW k \in Nat, 2 * (d * N - S * T) <= S * k, 0 - S * k <= 2 * (d * N - S * T)
    PROVE  2 * Distance((d - T) * S, d * x) <= k * S
<1>1. (d - T) * S = d * S - S * T
  OBVIOUS
<1>2. d * S = d * x + d * N
  OBVIOUS
<1>3. d * S \in Int /\ S * T \in Int /\ d * x \in Int /\ d * N \in Int
  OBVIOUS
<1>4. S * k \in Int /\ k * S = S * k
  OBVIOUS
<1> DEFINE a == d * S
           c == S * T
           e == d * x
           f == d * N
           w == S * k
<1>5. /\ (d - T) * S = a - c /\ a = e + f /\ a \in Int /\ c \in Int /\ e \in Int /\ f \in Int
      /\ w \in Int /\ k * S = w /\ 2 * (f - c) <= w /\ 0 - w <= 2 * (f - c)
  BY <1>1, <1>2, <1>3, <1>4
<1>6. d * x = e
  OBVIOUS
<1> HIDE DEF a, c, e, f, w
<1>7. 2 * Distance(a - c, e) <= w
  BY <1>5 DEF Distance
<1> QED
  BY <1>5, <1>6, <1>7, Zenon

\* The lines' parts of the discount sum to it, and each is its proportion, but for the
\* rounding of the lines before it.
LEMMA SharesRight ==
    ASSUME NEW b \in Baskets, NEW d \in Nat, d <= Subtotal(b), NEW share,
           share = ManualShares(b, d, Subtotal(b))
    PROVE  /\ share \in [1 .. Len(b) -> Int]
           /\ SumFunctionOnSet(share, 1 .. Len(b)) = d
           /\ \A i \in 1 .. Len(b) :
                 2 * Distance(share[i] * Subtotal(b), d * Net(b[i]))
                    <= (IF i < Len(b) THEN 1 ELSE Len(b) - 1) * Subtotal(b)
<1>1. PICK n \in Nat, S \in Nat : n = Len(b) /\ S = Subtotal(b) /\ n > 0
  BY BasketFacts
<1> DEFINE net == [i \in 1 .. n |-> Net(b[i])]
           part == [i \in 1 .. n - 1 |-> Round(d * Net(b[i]), S)]
<1>2. /\ DOMAIN b = 1 .. n /\ IsFiniteSet(1 .. n) /\ IsFiniteSet(1 .. n - 1)
      /\ Cardinality(1 .. n - 1) = n - 1
      /\ \A i \in 1 .. n : net[i] = Net(b[i]) /\ net[i] \in Int
      /\ S = SumFunctionOnSet(net, 1 .. n)
  BY <1>1, BasketFacts
<1>3. share = [i \in 1 .. n |->
                 IF d = 0 \/ S <= 0 THEN 0
                 ELSE IF i < n THEN part[i] ELSE d - SumFunctionOnSet(part, 1 .. n - 1)]
  BY <1>1, <1>2 DEF ManualShares, SumFunction
<1>4. \A i \in 1 .. n - 1 : part[i] = Round(d * net[i], S)
  BY <1>2
<1> HIDE DEF net, part
<1>5. CASE d = 0 \/ S <= 0
  <2>1. d = 0 /\ \A i \in 1 .. n : share[i] = 0
    BY <1>1, <1>3, <1>5
  <2>2. SumFunctionOnSet(share, 1 .. n) = 0
    BY <1>2, <2>1, SumZero
  <2>3. share \in [1 .. n -> Int]
    BY <1>3, <1>5
  <2>4. \A i \in 1 .. n : Distance(share[i] * S, d * Net(b[i])) = 0
    <3>1. \A i \in 1 .. n : share[i] * S = 0 /\ d * Net(b[i]) = 0
      BY <1>2, <2>1
    <3> QED BY <3>1 DEF Distance
  <2>5. \A i \in 1 .. n : (IF i < n THEN 1 ELSE n - 1) * S >= 0
    <3>1. 1 * S >= 0 /\ (n - 1) * S >= 0
      BY <1>1
    <3> QED BY <3>1
  <2>6. \A i \in 1 .. n : 2 * Distance(share[i] * S, d * Net(b[i])) <= (IF i < n THEN 1 ELSE n - 1) * S
    BY <2>4, <2>5
  <2> QED BY <1>1, <2>1, <2>2, <2>3, <2>6
<1>6. CASE ~(d = 0 \/ S <= 0)
  <2>1. S > 0
    BY <1>1, <1>6
  <2>2. \A i \in 1 .. n - 1 : /\ share[i] = part[i] /\ part[i] \in Int /\ d * net[i] \in Int
                              /\ 2 * (part[i] * S - d * net[i]) <= S
                              /\ 0 - S <= 2 * (part[i] * S - d * net[i])
    <3> TAKE i \in 1 .. n - 1
    <3>1. i \in 1 .. n /\ i < n /\ net[i] \in Int
      BY <1>1, <1>2
    <3>2. d * net[i] \in Int
      BY <3>1
    <3>3. part[i] = Round(d * net[i], S) /\ share[i] = part[i]
      BY <1>3, <1>4, <1>6, <3>1
    <3> QED BY <2>1, <3>2, <3>3, RoundNear
  <2>3. SumFunctionOnSet(part, 1 .. n - 1) \in Int
    BY <1>2, <2>2, SumInt
  <2> PICK T \in Int : T = SumFunctionOnSet(part, 1 .. n - 1)
    BY <2>3
  <2>4. share[n] = d - T /\ n \in 1 .. n
    BY <1>1, <1>3, <1>6
  <2>5. share \in [1 .. n -> Int] /\ \A i \in 1 .. n : share[i] \in Int
    <3>1. \A i \in 1 .. n : (IF i < n THEN part[i] ELSE d - T) \in Int
      BY <1>1, <2>2, <2>3
    <3> QED BY <1>3, <1>6, <3>1
  <2>6. 1 .. n = (1 .. n - 1) \cup {n} /\ n \notin 1 .. n - 1
    BY <1>1
  <2>7. SumFunctionOnSet(share, 1 .. n) = d
    <3>1. SumFunctionOnSet(share, (1 .. n - 1) \cup {n}) = share[n] + SumFunctionOnSet(share, 1 .. n - 1)
      BY <1>2, <2>5, <2>6, SumAdd
    <3>2. SumFunctionOnSet(share, 1 .. n - 1) = T
      BY <1>2, <2>2, SumSame
    <3>3. SumFunctionOnSet(share, 1 .. n) = share[n] + T
      BY <2>6, <3>1, <3>2
    <3> QED BY <2>3, <2>4, <3>3
  <2>8. /\ S = net[n] + SumFunctionOnSet(net, 1 .. n - 1) /\ net[n] \in Int
        /\ SumFunctionOnSet(net, 1 .. n - 1) \in Int
    <3>1. SumFunctionOnSet(net, (1 .. n - 1) \cup {n}) = net[n] + SumFunctionOnSet(net, 1 .. n - 1)
      BY <1>2, <2>6, SumAdd
    <3>2. \A i \in 1 .. n - 1 : net[i] \in Int
      BY <1>1, <1>2
    <3>3. SumFunctionOnSet(net, 1 .. n - 1) \in Int
      BY <1>2, <3>2, SumInt
    <3> QED BY <1>2, <2>4, <2>6, <3>1, <3>3
  <2> PICK N \in Int, x \in Int : /\ N = SumFunctionOnSet(net, 1 .. n - 1) /\ x = net[n]
                                  /\ S = x + N
    BY <2>8
  <2>9. /\ 2 * (d * N - S * T) <= S * (n - 1) /\ 0 - S * (n - 1) <= 2 * (d * N - S * T)
    <3>1. \A i \in 1 .. n - 1 : /\ net[i] \in Int /\ part[i] \in Int
                                /\ 2 * (part[i] * S - d * net[i]) <= S
                                /\ 0 - S <= 2 * (part[i] * S - d * net[i])
      <4>1. \A i \in 1 .. n - 1 : i \in 1 .. n
        BY <1>1
      <4> QED BY <1>2, <2>2, <4>1
    <3> DEFINE Q == 1 .. n - 1
    <3>2. /\ \A i \in Q : /\ net[i] \in Int /\ part[i] \in Int
                          /\ 2 * (part[i] * S - d * net[i]) <= S
                          /\ 0 - S <= 2 * (part[i] * S - d * net[i])
          /\ IsFiniteSet(Q) /\ Cardinality(Q) = n - 1
          /\ N = SumFunctionOnSet(net, Q) /\ T = SumFunctionOnSet(part, Q)
      BY <1>2, <3>1
    <3> HIDE DEF Q
    <3>3. /\ 2 * (d * SumFunctionOnSet(net, Q) - S * SumFunctionOnSet(part, Q)) <= S * Cardinality(Q)
          /\ 0 - S * Cardinality(Q)
                <= 2 * (d * SumFunctionOnSet(net, Q) - S * SumFunctionOnSet(part, Q))
      BY <3>2, PartsNear
    <3> QED BY <3>2, <3>3, Zenon
  <2>14. 2 * Distance(share[n] * S, d * net[n]) <= (n - 1) * S
    <3>1. n - 1 \in Nat
      BY <1>1
    <3>2. 2 * Distance((d - T) * S, d * x) <= (n - 1) * S
      BY <2>9, <3>1, RestNear
    <3> QED BY <2>4, <3>2, Zenon
  <2>15. \A i \in 1 .. n - 1 : 2 * Distance(share[i] * S, d * net[i]) <= S
    <3> TAKE i \in 1 .. n - 1
    <3>2. /\ share[i] = part[i] /\ part[i] \in Int /\ d * net[i] \in Int
          /\ 2 * (part[i] * S - d * net[i]) <= S
          /\ 0 - S <= 2 * (part[i] * S - d * net[i])
      BY <2>2, Zenon
    <3>3. \A a \in Int, c \in Nat : a * c \in Int /\ c \in Int
      OBVIOUS
    <3>0. /\ share[i] = part[i] /\ part[i] * S \in Int /\ d * net[i] \in Int /\ S \in Int
          /\ 2 * (part[i] * S - d * net[i]) <= S
          /\ 0 - S <= 2 * (part[i] * S - d * net[i])
      BY <3>2, <3>3, Zenon
    <3>1. 2 * Distance(part[i] * S, d * net[i]) <= S
      BY <3>0, DistanceNear, Zenon
    <3> QED BY <3>0, <3>1, Zenon
  <2>16. \A i \in 1 .. n : 2 * Distance(share[i] * S, d * Net(b[i])) <= (IF i < n THEN 1 ELSE n - 1) * S
    <3> TAKE i \in 1 .. n
    <3>1. Net(b[i]) = net[i]
      BY <1>2
    <3>2. CASE i < n
      <4>1. i \in 1 .. n - 1
        BY <1>1, <3>2
      <4>2. (IF i < n THEN 1 ELSE n - 1) * S = S
        BY <3>2
      <4> QED BY <2>15, <3>1, <4>1, <4>2
    <3>3. CASE ~(i < n)
      <4>1. i = n
        BY <1>1, <3>3
      <4> QED BY <2>14, <3>1, <4>1
    <3> QED BY <3>2, <3>3
  <2> QED BY <1>1, <2>5, <2>7, <2>16
<1> QED
  BY <1>5, <1>6


\* A line is taxed 15% of what it comes to, but for half a cent.
TaxedAmount(l, share) == IF l.taxable THEN Greater(0, Net(l) - share) ELSE 0

LEMMA LineTaxNear ==
    ASSUME NEW l, l.taxable \in BOOLEAN, Net(l) \in Int, NEW share \in Int
    PROVE  /\ LineTax(l, share) \in Nat /\ TaxedAmount(l, share) \in Nat
           /\ 100 * LineTax(l, share) - 15 * TaxedAmount(l, share) <= 50
           /\ 0 - 50 <= 100 * LineTax(l, share) - 15 * TaxedAmount(l, share)
<1>1. CASE l.taxable
  <2>1. PICK a \in Nat : a = Greater(0, Net(l) - share)
    BY DEF Greater
  <2>2. /\ Round(a * 15, 100) \in Int
        /\ 2 * (Round(a * 15, 100) * 100 - a * 15) <= 100
        /\ 0 - 100 <= 2 * (Round(a * 15, 100) * 100 - a * 15)
        /\ Round(a * 15, 100) >= 0
    <3>1. a * 15 \in Int /\ a * 15 >= 0 /\ 100 \in Nat /\ 100 > 0
      OBVIOUS
    <3> QED BY <3>1, RoundNear
  <2>3. LineTax(l, share) = Round(a * 15, 100) /\ TaxedAmount(l, share) = a
    BY <1>1, <2>1 DEF LineTax, TaxedAmount
  <2> QED BY <2>2, <2>3
<1>2. CASE ~l.taxable
  BY <1>2 DEF LineTax, TaxedAmount
<1> QED
  BY <1>1, <1>2

\* The taxes of a bill.
LEMMA TaxesNear ==
    ASSUME NEW Q, IsFiniteSet(Q), NEW tax, NEW base,
           \A i \in Q : /\ tax[i] \in Nat /\ base[i] \in Nat
                        /\ 100 * tax[i] - 15 * base[i] <= 50 /\ 0 - 50 <= 100 * tax[i] - 15 * base[i]
    PROVE  /\ SumFunctionOnSet(tax, Q) \in Nat /\ SumFunctionOnSet(base, Q) \in Nat
           /\ Distance(100 * SumFunctionOnSet(tax, Q), 15 * SumFunctionOnSet(base, Q))
                <= 50 * Cardinality(Q)
<1> DEFINE more == [i \in Q |-> 100 * tax[i]]
           part == [i \in Q |-> 15 * base[i]]
           error == [i \in Q |-> 100 * tax[i] - 15 * base[i]]
<1>1. \A i \in Q : tax[i] \in Int /\ more[i] = 100 * tax[i] /\ more[i] \in Int
  OBVIOUS
<1>2. \A i \in Q : base[i] \in Int /\ part[i] = 15 * base[i] /\ part[i] \in Int
  OBVIOUS
<1>3. \A i \in Q : /\ error[i] \in Int /\ more[i] = error[i] + part[i]
                   /\ error[i] <= 50 /\ 0 - 50 <= error[i]
  OBVIOUS
<1> HIDE DEF more, part, error
<1>4. SumFunctionOnSet(more, Q) = 100 * SumFunctionOnSet(tax, Q)
  BY <1>1, SumScale
<1>5. SumFunctionOnSet(part, Q) = 15 * SumFunctionOnSet(base, Q)
  BY <1>2, SumScale
<1>6. SumFunctionOnSet(more, Q) = SumFunctionOnSet(error, Q) + SumFunctionOnSet(part, Q)
  BY <1>2, <1>3, SumPlus
<1>7. /\ SumFunctionOnSet(error, Q) \in Int /\ Cardinality(Q) \in Nat
      /\ SumFunctionOnSet(error, Q) <= 50 * Cardinality(Q)
      /\ 0 - 50 * Cardinality(Q) <= SumFunctionOnSet(error, Q)
  <2>1. 50 \in Nat
    OBVIOUS
  <2> QED BY <1>3, <2>1, SumWithin
<1>8. SumFunctionOnSet(tax, Q) \in Nat /\ SumFunctionOnSet(base, Q) \in Nat
  BY SumNat
<1> QED
  BY <1>4, <1>5, <1>6, <1>7, <1>8 DEF Distance

\* The lines of the basket b (Q), the sum S of what they cost, each one's share of
\* the discount d, its tax, what is taxed and what is left of it.
Split(Q, b, net, share, tax, base, part, d, S) ==
    /\ IsFiniteSet(Q) /\ d \in Int /\ d <= S
    /\ \A i \in Q : /\ net[i] = Net(b[i]) /\ Net(b[i]) \in Int /\ b[i].taxable \in BOOLEAN
                    /\ share[i] \in Int /\ tax[i] = LineTax(b[i], share[i])
                    /\ base[i] = TaxedAmount(b[i], share[i])
                    /\ part[i] = Net(b[i]) - share[i] + tax[i]
    /\ S = SumFunctionOnSet(net, Q) /\ SumFunctionOnSet(share, Q) = d

\* The parts of a bill sum to its total, and its taxes to 15% of what is taxed.
LEMMA PartsAddUp ==
    ASSUME NEW Q, NEW b, NEW net, NEW share, NEW tax, NEW base, NEW part,
           NEW d, NEW S, Split(Q, b, net, share, tax, base, part, d, S)
    PROVE  /\ SumFunctionOnSet(part, Q) = S - d + SumFunctionOnSet(tax, Q)
           /\ S - d + SumFunctionOnSet(tax, Q) >= 0
           /\ Distance(100 * SumFunctionOnSet(tax, Q), 15 * SumFunctionOnSet(base, Q))
                <= 50 * Cardinality(Q)
<1>0. /\ IsFiniteSet(Q) /\ d \in Int /\ d <= S
      /\ \A i \in Q : /\ net[i] = Net(b[i]) /\ Net(b[i]) \in Int /\ b[i].taxable \in BOOLEAN
                      /\ share[i] \in Int /\ tax[i] = LineTax(b[i], share[i])
                      /\ base[i] = TaxedAmount(b[i], share[i])
                      /\ part[i] = Net(b[i]) - share[i] + tax[i]
      /\ S = SumFunctionOnSet(net, Q) /\ SumFunctionOnSet(share, Q) = d
  BY DEF Split
<1>1. \A i \in Q : /\ tax[i] \in Nat /\ base[i] \in Nat
                   /\ 100 * tax[i] - 15 * base[i] <= 50 /\ 0 - 50 <= 100 * tax[i] - 15 * base[i]
  <2> TAKE i \in Q
  <2>0. PICK l : l = b[i]
    OBVIOUS
  <2>1. PICK s \in Int : s = share[i]
    BY <1>0
  <2>2. l.taxable \in BOOLEAN /\ Net(l) \in Int
    BY <1>0, <2>0
  <2>3. /\ LineTax(l, s) \in Nat /\ TaxedAmount(l, s) \in Nat
        /\ 100 * LineTax(l, s) - 15 * TaxedAmount(l, s) <= 50
        /\ 0 - 50 <= 100 * LineTax(l, s) - 15 * TaxedAmount(l, s)
    BY <2>2, LineTaxNear
  <2>4. tax[i] = LineTax(l, s) /\ base[i] = TaxedAmount(l, s)
    BY <1>0, <2>0, <2>1
  <2> QED BY <2>3, <2>4
<1>2. /\ SumFunctionOnSet(tax, Q) \in Nat /\ SumFunctionOnSet(base, Q) \in Nat
      /\ Distance(100 * SumFunctionOnSet(tax, Q), 15 * SumFunctionOnSet(base, Q))
           <= 50 * Cardinality(Q)
  BY <1>0, <1>1, TaxesNear
<1> DEFINE rest == [i \in Q |-> Net(b[i]) - share[i]]
<1>3. \A i \in Q : rest[i] = Net(b[i]) - share[i]
  OBVIOUS
<1> HIDE DEF rest
<1>4. \A i \in Q : rest[i] \in Int /\ share[i] \in Int /\ net[i] = rest[i] + share[i]
  BY <1>0, <1>3
<1>5. \A i \in Q : rest[i] \in Int /\ tax[i] \in Int /\ part[i] = rest[i] + tax[i]
  BY <1>0, <1>1, <1>3
<1>6. SumFunctionOnSet(net, Q) = SumFunctionOnSet(rest, Q) + SumFunctionOnSet(share, Q)
  BY <1>0, <1>4, SumPlus
<1>7. SumFunctionOnSet(part, Q) = SumFunctionOnSet(rest, Q) + SumFunctionOnSet(tax, Q)
  BY <1>0, <1>5, SumPlus
<1>8. SumFunctionOnSet(rest, Q) \in Int
  BY <1>0, <1>4, SumInt
<1>9. PICK r \in Int, t \in Nat : r = SumFunctionOnSet(rest, Q) /\ t = SumFunctionOnSet(tax, Q)
  BY <1>2, <1>8
<1>10. S = r + d /\ SumFunctionOnSet(part, Q) = r + t /\ r >= 0
  BY <1>0, <1>6, <1>7, <1>9
<1>11. SumFunctionOnSet(part, Q) = S - d + t /\ S - d + t >= 0
  BY <1>0, <1>9, <1>10
<1> QED
  BY <1>2, <1>9, <1>11

\* A bill computed line by line, and what is to hold of it.
PerLine(is, b, asked, biz, n, base) ==
    /\ is = PerLineBill(b, asked, biz) /\ n = Len(b)
    /\ base = [i \in DOMAIN b |->
                 IF b[i].taxable THEN Greater(0, Net(b[i]) - is.share[i]) ELSE 0]

AddsUp(is, b, n, base) ==
    /\ Parts(is, b) = is.total
    /\ is.total >= 0
    /\ \A i \in DOMAIN b :
          2 * Distance(is.share[i] * is.subtotal, is.discount * Net(b[i]))
             <= (IF i < n THEN 1 ELSE n - 1) * is.subtotal
    /\ Distance(100 * is.tax, 15 * SumFunction(base)) <= 50 * n

LEMMA PerLineAddsUp ==
    ASSUME NEW b \in Baskets, NEW asked \in Discounts, NEW biz, NEW is, NEW n, NEW base,
           PerLine(is, b, asked, biz, n, base)
    PROVE  AddsUp(is, b, n, base)
<1>0. /\ is = PerLineBill(b, asked, biz) /\ n = Len(b)
      /\ base = [i \in DOMAIN b |->
                   IF b[i].taxable THEN Greater(0, Net(b[i]) - is.share[i]) ELSE 0]
  BY DEF PerLine
<1>1. PICK Q : Q = DOMAIN b
  OBVIOUS
<1>2. /\ Q = 1 .. Len(b) /\ IsFiniteSet(Q) /\ Cardinality(Q) = n
      /\ \A i \in Q : Net(b[i]) \in Int /\ b[i].taxable \in BOOLEAN
      /\ Subtotal(b) = SumFunctionOnSet([i \in Q |-> Net(b[i])], Q) /\ Subtotal(b) \in Nat
  BY <1>0, <1>1, BasketFacts
<1>3. PICK S \in Nat : S = Subtotal(b)
  BY <1>2
<1>3a. PICK net : net = [i \in Q |-> Net(b[i])]
  OBVIOUS
<1>4. PICK d : d = Lesser(Greater(0, asked), S)
  OBVIOUS
<1>5. d \in Nat /\ d <= S /\ d \in Int
  BY <1>4, OfflineAssumption DEF Lesser, Greater
<1>6. PICK share : share = ManualShares(b, d, S)
  OBVIOUS
<1>7. /\ share \in [1 .. Len(b) -> Int] /\ SumFunctionOnSet(share, 1 .. Len(b)) = d
      /\ \A i \in 1 .. Len(b) :
            2 * Distance(share[i] * Subtotal(b), d * Net(b[i]))
               <= (IF i < Len(b) THEN 1 ELSE Len(b) - 1) * Subtotal(b)
  BY <1>3, <1>5, <1>6, SharesRight
<1>8. PICK tax : tax = [i \in Q |-> LineTax(b[i], share[i])]
  OBVIOUS
<1>9. /\ is.share = share /\ is.lineTax = tax /\ is.subtotal = S /\ is.discount = d
      /\ is.tax = SumFunction(tax) /\ is.total = S - d + SumFunction(tax)
  BY <1>0, <1>1, <1>3, <1>4, <1>6, <1>8 DEF PerLineBill
<1>10. PICK part : part = [i \in Q |-> Net(b[i]) - share[i] + tax[i]]
  OBVIOUS
<1>11. /\ Parts(is, b) = SumFunctionOnSet(part, Q)
       /\ SumFunction(tax) = SumFunctionOnSet(tax, Q)
       /\ SumFunction(base) = SumFunctionOnSet(base, Q)
  BY <1>0, <1>1, <1>8, <1>9, <1>10 DEF Parts, SumFunction
<1>12. \A i \in Q : /\ net[i] = Net(b[i]) /\ Net(b[i]) \in Int /\ b[i].taxable \in BOOLEAN
                    /\ share[i] \in Int /\ tax[i] = LineTax(b[i], share[i])
                    /\ base[i] = TaxedAmount(b[i], share[i])
                    /\ part[i] = Net(b[i]) - share[i] + tax[i]
  <2> TAKE i \in Q
  <2>1. net[i] = Net(b[i]) /\ Net(b[i]) \in Int /\ b[i].taxable \in BOOLEAN
    BY <1>2, <1>3a
  <2>2. share[i] \in Int
    BY <1>2, <1>7
  <2>3. tax[i] = LineTax(b[i], share[i]) /\ part[i] = Net(b[i]) - share[i] + tax[i]
    BY <1>8, <1>10
  <2>4. base[i] = TaxedAmount(b[i], share[i])
    BY <1>0, <1>1, <1>9 DEF TaxedAmount
  <2> QED BY <2>1, <2>2, <2>3, <2>4
<1>13. S = SumFunctionOnSet(net, Q) /\ SumFunctionOnSet(share, Q) = d
  BY <1>2, <1>3, <1>7, <1>3a
<1>14. /\ SumFunctionOnSet(part, Q) = S - d + SumFunctionOnSet(tax, Q)
       /\ S - d + SumFunctionOnSet(tax, Q) >= 0
       /\ Distance(100 * SumFunctionOnSet(tax, Q), 15 * SumFunctionOnSet(base, Q))
            <= 50 * Cardinality(Q)
  <2>1. Split(Q, b, net, share, tax, base, part, d, S)
    BY <1>2, <1>5, <1>12, <1>13 DEF Split
  <2> QED BY <2>1, PartsAddUp
<1>15. Parts(is, b) = is.total /\ is.total >= 0
  BY <1>9, <1>11, <1>14
<1>16. Distance(100 * is.tax, 15 * SumFunction(base)) <= 50 * n
  BY <1>2, <1>9, <1>11, <1>14
<1>17. \A i \in DOMAIN b : 2 * Distance(is.share[i] * is.subtotal, is.discount * Net(b[i]))
                              <= (IF i < n THEN 1 ELSE n - 1) * is.subtotal
  BY <1>0, <1>1, <1>2, <1>3, <1>7, <1>9
<1> QED
  BY <1>15, <1>16, <1>17 DEF AddsUp

\* Only ComputeBill writes a bill.
LEMMA BillStays == ASSUME [OfflineNext]_allVars PROVE ComputeBill \/ bill' = bill
<1>1. ASSUME NEW h \in Requests,
             \/ CheckEligibility(h) \/ RegisterTerminal(h) \/ UpdateTerminal(h)
             \/ SyncStart(h) \/ Look(h) \/ TakeBusiness(h) \/ SyncCommit(h)
             \/ SyncReply(h) \/ SyncCrash(h)
      PROVE  bill' = bill
  BY <1>1 DEF CheckEligibility, RegisterTerminal, UpdateTerminal, SyncStart, Look, TakeBusiness,
              SyncCommit, SyncReply, SyncCrash, OnlyOffline
<1>2. ASSUME NEW h \in Requests,
             \/ KeyFind(h) \/ KeyDelete(h) \/ KeyInsert(h) \/ KeyHandle(h) \/ KeyStore(h)
             \/ KeyFail(h) \/ KeyCrash(h) \/ KeyWait(h) \/ KeyLost(h)
      PROVE  bill' = bill
  BY <1>2 DEF KeyFind, KeyDelete, KeyInsert, KeyHandle, KeyStore, KeyFail, KeyCrash, KeyWait, KeyLost,
              KeyEnds, KeyStep, OnlyKey
<1>3. ASSUME NEW m \in Terminals, SellOffline(m) PROVE bill' = bill
  BY <1>3 DEF SellOffline, OnlyOffline
<1>4. ASSUME NEW p \in Products, EditWrite(p) \/ ChangeUnstamped(p) PROVE bill' = bill
  BY <1>4 DEF EditWrite, ChangeUnstamped, OnlyCatalog
<1>5. CASE EditCommit \/ FetchCatalog \/ KeyExpires
  BY <1>5 DEF EditCommit, FetchCatalog, KeyExpires, OnlyCatalog
<1>6. CASE Next /\ UNCHANGED <<offlineVars, catalogVars, keyVars, bill>>
  BY <1>6
<1>7. CASE UNCHANGED allVars
  BY <1>7 DEF allVars
<1> QED
  BY <1>1, <1>2, <1>3, <1>4, <1>5, <1>6, <1>7 DEF OfflineNext

\* Whatever basket, discount and tax: the parts of a bill sum to its total, which is
\* never below zero; shares are proportions and the tax is 15% of what is taxed, each
\* but for the cents that are rounded.
THEOREM BillRight == OfflineSpec => []BillAddsUp
<1> DEFINE BillInv == bill = NoBill \/ BillInput
<1>1. OfflineInit => BillInv
  BY DEF OfflineInit
<1>2. BillInv /\ [OfflineNext]_allVars => BillInv'
  <2> SUFFICES ASSUME BillInv, [OfflineNext]_allVars PROVE BillInv'
    OBVIOUS
  <2>1. ComputeBill \/ bill' = bill
    BY BillStays
  <2>2. CASE ComputeBill
    <3>1. BillInput'
      BY <2>2 DEF ComputeBill, BillInput
    <3> QED BY <3>1
  <2>3. CASE bill' = bill
    BY <2>3 DEF BillInput
  <2> QED BY <2>1, <2>2, <2>3
<1>3. BillInv => BillAddsUp
  <2> SUFFICES ASSUME BillInv, ~bill.none, bill.is.model = "PER_LINE" PROVE BillAddsUp
    BY DEF BillAddsUp
  <2>1. BillInput
    BY DEF NoBill
  <2>2. PICK b \in Baskets, asked \in Discounts, biz \in Tax, perLine \in BOOLEAN :
           bill = [none |-> FALSE, basket |-> b, asked |-> asked, biz |-> biz,
                   is |-> Bill(b, asked, biz, perLine)]
    BY <2>1 DEF BillInput
  <2>3. bill.is = Bill(b, asked, biz, perLine) /\ bill.basket = b
    BY <2>2
  <2>4. perLine
    <3>1. LegacyBill(b, asked, biz).model = "LEGACY"
      BY DEF LegacyBill
    <3> QED BY <2>3, <3>1 DEF Bill
  <2>5. bill.is = PerLineBill(b, asked, biz)
    BY <2>3, <2>4 DEF Bill
  <2>6. PICK is, n, base :
           /\ is = bill.is /\ n = Len(b)
           /\ base = [i \in DOMAIN b |->
                        IF b[i].taxable THEN Greater(0, Net(b[i]) - is.share[i]) ELSE 0]
    OBVIOUS
  <2>7. PerLine(is, b, asked, biz, n, base)
    BY <2>5, <2>6 DEF PerLine
  <2>8. AddsUp(is, b, n, base)
    BY <2>7, PerLineAddsUp
  <2> QED BY <2>3, <2>6, <2>8 DEF BillAddsUp, AddsUp
<1> HIDE DEF BillInv
<1> QED
  BY <1>1, <1>2, <1>3, PTL DEF OfflineSpec
=============================================================================
