------------------------ MODULE EndpointLockProofs -------------------------
(***************************************************************************)
(* Whatever any process would post was vouched for.  The inductive         *)
(* invariant says the same of everything a request can come from: the      *)
(* file, the registry every process loaded, and the file a verify is about *)
(* to write.                                                               *)
(*                                                                         *)
(* And a verify nobody interferes with takes no mapping away.  For that    *)
(* the invariant also tells where the text a verify is about to write came *)
(* from (MergedFrom), and that what is written over somebody else's text   *)
(* was interfered with (OverIsSeen).                                       *)
(***************************************************************************)
EXTENDS EndpointLock, TLAPS

Shaped(e) ==
  e = [c \in Capabilities |->
         [pinned |-> e[c].pinned, map |-> [f \in Fields[c] |-> e[c].map[f]]]]

VouchedIn(e, v) ==
  \A c \in Capabilities : \A f \in Fields[c] :
    e[c].map[f] # Unmapped => <<c, f, e[c].map[f]>> \in v

Good(e, v) == Shaped(e) /\ VouchedIn(e, v)

IsProcess(r) ==
  r = [at |-> r.at, registry |-> r.registry, page |-> r.page, base |-> r.base,
       lock |-> r.lock, alone |-> r.alone, over |-> r.over]

ProcShaped ==
  /\ proc = [p \in Procs |-> proc[p]]
  /\ \A p \in Procs : IsProcess(proc[p])

FileGood ==
  /\ file = [torn |-> file.torn, entries |-> file.entries]
  /\ Good(file.entries, vouched)

ProcsGood ==
  \A p \in Procs : Good(proc[p].registry, vouched) /\ Good(proc[p].lock, vouched)

IInv == ProcShaped /\ FileGood /\ ProcsGood

-----------------------------------------------------------------------------
(* Locks.                                                                  *)

LEMMA UnpinnedGood == ASSUME NEW v PROVE Good(Unpinned, v)
BY DEF Good, Shaped, VouchedIn, Unpinned, Blank

LEMMA GoodGrows == ASSUME NEW e, NEW v, NEW w, Good(e, v), v \subseteq w PROVE Good(e, w)
BY DEF Good, VouchedIn

\* What a lock maps is vouched for when its mappings are.
LEMMA MappingsVouch ==
  ASSUME NEW e, NEW v, Shaped(e) PROVE Good(e, v \union Mappings(e))
<1>1. ASSUME NEW c \in Capabilities, NEW f \in Fields[c], e[c].map[f] # Unmapped
      PROVE  <<c, f, e[c].map[f]>> \in Mappings(e)
  <2>1. e[c].map = [g \in Fields[c] |-> e[c].map[g]]
    BY DEF Shaped
  <2>2. f \in Mapped(e[c])
    BY <1>1, <2>1 DEF Mapped
  <2> QED BY <2>2 DEF Mappings
<1> QED BY <1>1 DEF Good, VouchedIn

LEMMA ShippedShaped == ASSUME NEW e \in Shipped PROVE Shaped(e)
<1>1. IsLock(e)
  BY LockAssumption
<1>2. ASSUME NEW c \in Capabilities
      PROVE  e[c] = [pinned |-> e[c].pinned, map |-> [f \in Fields[c] |-> e[c].map[f]]]
  <2>1. e[c] \in Entry(c)
    BY <1>1 DEF IsLock
  <2>2. /\ e[c] = [pinned |-> e[c].pinned, map |-> e[c].map]
        /\ e[c].map \in Maps(c)
    BY <2>1 DEF Entry
  <2>3. e[c].map = [f \in Fields[c] |-> e[c].map[f]]
    BY <2>2 DEF Maps
  <2> QED BY <2>2, <2>3
<1>3. e = [c \in Capabilities |-> e[c]]
  BY <1>1 DEF IsLock
<1> QED BY <1>2, <1>3 DEF Shaped

\* A merge maps nothing that neither the process nor the file nor the page mapped.
LEMMA MergedGood ==
  ASSUME NEW page, NEW r, NEW e, NEW v, Good(r, v), Good(e, v)
  PROVE  Good(Merged(page, r, e), v \union Documented(page))
<1> DEFINE m == Merged(page, r, e)
<1> DEFINE d == [c \in Capabilities |-> [pinned |-> TRUE, map |-> AutoMap(c, page[c])]]
<1>1. \A c \in Capabilities :
        AutoMap(c, page[c]) = [f \in Fields[c] |-> AutoMap(c, page[c])[f]]
  BY DEF AutoMap
<1>2. Good(d, v \union Documented(page))
  <2>1. Shaped(d)
    BY <1>1 DEF Shaped
  <2>2. Documented(page) = Mappings(d)
    BY DEF Documented
  <2> QED BY <2>1, <2>2, MappingsVouch
<1>3. ASSUME NEW c \in Capabilities, page[c] = Undocumented PROVE m[c] = e[c]
  BY <1>3 DEF Merged
<1>4. ASSUME NEW c \in Capabilities, page[c] # Undocumented
      PROVE  /\ m[c] = [pinned |-> TRUE, map |-> m[c].map]
             /\ m[c].map = [f \in Fields[c] |-> IF f \in Mapped(r[c]) THEN r[c].map[f]
                                               ELSE AutoMap(c, page[c])[f]]
  <2>1. m[c] = [pinned |-> TRUE,
                map |-> [f \in Fields[c] |-> IF f \in Mapped(r[c]) THEN r[c].map[f]
                                             ELSE AutoMap(c, page[c])[f]]]
    BY Zenon, <1>4 DEF Merged
  <2> HIDE DEF m
  <2> QED BY <2>1
<1>5. Shaped(m)
  <2>1. ASSUME NEW c \in Capabilities
        PROVE  m[c] = [pinned |-> m[c].pinned, map |-> [f \in Fields[c] |-> m[c].map[f]]]
    <3>1. CASE page[c] = Undocumented
      BY <1>3, <3>1 DEF Good, Shaped
    <3>2. CASE page[c] # Undocumented
      <4> HIDE DEF m
      <4>1. m[c] = [pinned |-> TRUE, map |-> m[c].map]
        BY <1>4, <3>2
      <4>2. m[c].map = [f \in Fields[c] |-> m[c].map[f]]
        BY <1>4, <3>2
      <4>3. m[c].pinned = TRUE
        BY <4>1
      <4> QED BY Zenon, <4>1, <4>2, <4>3
    <3> QED BY <3>1, <3>2
  <2>2. m = [c \in Capabilities |-> m[c]]
    BY DEF Merged
  <2> QED BY <2>1, <2>2 DEF Shaped
<1>6. ASSUME NEW c \in Capabilities, NEW f \in Fields[c], m[c].map[f] # Unmapped
      PROVE  <<c, f, m[c].map[f]>> \in v \union Documented(page)
  <2> HIDE DEF m
  <2>1. CASE page[c] = Undocumented
    BY <1>3, <1>6, <2>1 DEF Good, VouchedIn
  <2>2. CASE page[c] # Undocumented /\ f \in Mapped(r[c])
    <3>1. m[c].map[f] = r[c].map[f]
      BY <1>4, <2>2
    <3> QED BY <3>1, <1>6 DEF Good, VouchedIn
  <2>3. CASE page[c] # Undocumented /\ f \notin Mapped(r[c])
    <3>1. m[c].map[f] = AutoMap(c, page[c])[f]
      BY <1>4, <2>3
    <3>2. d[c].map[f] = AutoMap(c, page[c])[f]
      OBVIOUS
    <3> HIDE DEF d
    <3> QED BY <3>1, <3>2, <1>2, <1>6 DEF Good, VouchedIn
  <2> QED BY <2>1, <2>2, <2>3
<1> QED BY <1>5, <1>6 DEF Good, VouchedIn

\* One mapping of one's own is vouched for when it is added.
LEMMA EditedGood ==
  ASSUME NEW e, NEW v, Good(e, v),
         NEW c \in Capabilities, NEW f \in Fields[c]
  PROVE  Good([e EXCEPT ![c].map[f] = Own[f]], v \union {<<c, f, Own[f]>>})
<1> DEFINE n == [e EXCEPT ![c].map[f] = Own[f]]
<1>1. e = [x \in Capabilities |-> e[x]]
  BY DEF Good, Shaped
<1>2. \A x \in Capabilities \ {c} : n[x] = e[x]
  BY <1>1
<1>3. n[c] = [e[c] EXCEPT !.map[f] = Own[f]]
  BY <1>1
<1>4. e[c] = [pinned |-> e[c].pinned, map |-> [g \in Fields[c] |-> e[c].map[g]]]
  BY DEF Good, Shaped
<1>5. n[c] = [pinned |-> e[c].pinned,
              map |-> [g \in Fields[c] |-> IF g = f THEN Own[f] ELSE e[c].map[g]]]
  <2>1. e[c].map = [g \in Fields[c] |-> e[c].map[g]]
    BY <1>4
  <2> HIDE DEF n
  <2> QED BY <1>3, <1>4, <2>1
<1>6. n = [x \in Capabilities |-> n[x]]
  BY <1>1
<1> HIDE DEF n
<1>7. Shaped(n)
  <2>1. ASSUME NEW x \in Capabilities
        PROVE  n[x] = [pinned |-> n[x].pinned, map |-> [g \in Fields[x] |-> n[x].map[g]]]
    <3>1. CASE x = c
      BY <1>5, <3>1
    <3>2. CASE x # c
      BY <1>2, <3>2 DEF Good, Shaped
    <3> QED BY <3>1, <3>2
  <2> QED BY <1>6, <2>1 DEF Shaped
<1>8. VouchedIn(n, v \union {<<c, f, Own[f]>>})
  <2>1. ASSUME NEW x \in Capabilities, NEW g \in Fields[x], n[x].map[g] # Unmapped
        PROVE  <<x, g, n[x].map[g]>> \in v \union {<<c, f, Own[f]>>}
    <3>1. CASE x = c /\ g = f
      BY <1>5, <3>1
    <3>2. CASE ~(x = c /\ g = f)
      <4>1. n[x].map[g] = e[x].map[g]
        BY <1>2, <1>5, <3>2
      <4> QED BY <4>1, <2>1 DEF Good, VouchedIn
    <3> QED BY <3>1, <3>2
  <2> QED BY <2>1 DEF VouchedIn
<1> QED BY <1>7, <1>8 DEF Good, n

-----------------------------------------------------------------------------
(* Processes.                                                              *)

LEMMA ProcessIs ==
  ASSUME NEW at, NEW r
  PROVE  /\ Process(at, r).registry = r
         /\ Process(at, r).lock = Unpinned
         /\ IsProcess(Process(at, r))
BY DEF Process, IsProcess

LEMMA AloneSet ==
  ASSUME NEW r, IsProcess(r), NEW a
  PROVE  /\ IsProcess([r EXCEPT !.alone = a])
         /\ [r EXCEPT !.alone = a].registry = r.registry
         /\ [r EXCEPT !.alone = a].lock = r.lock
BY DEF IsProcess

LEMMA AtSet ==
  ASSUME NEW r, IsProcess(r), NEW at
  PROVE  /\ IsProcess([r EXCEPT !.at = at])
         /\ [r EXCEPT !.at = at].registry = r.registry
         /\ [r EXCEPT !.at = at].lock = r.lock
BY DEF IsProcess

LEMMA OverSet ==
  ASSUME NEW r, IsProcess(r), NEW o
  PROVE  /\ IsProcess([r EXCEPT !.over = o])
         /\ [r EXCEPT !.over = o].registry = r.registry
         /\ [r EXCEPT !.over = o].lock = r.lock
BY DEF IsProcess

\* n is r but for its flags.
Flagged(n, r) ==
  \/ n = r
  \/ n = [r EXCEPT !.alone = FALSE]
  \/ \E o : n = [[r EXCEPT !.alone = FALSE] EXCEPT !.over = o]

LEMMA FlagsSet ==
  ASSUME NEW r, NEW n, IsProcess(r), Flagged(n, r)
  PROVE  IsProcess(n) /\ n.registry = r.registry /\ n.lock = r.lock
<1>1. CASE n = r
  BY <1>1
<1>2. CASE n = [r EXCEPT !.alone = FALSE]
  BY Zenon, <1>2, AloneSet
<1>3. ASSUME NEW o, n = [[r EXCEPT !.alone = FALSE] EXCEPT !.over = o]
      PROVE  IsProcess(n) /\ n.registry = r.registry /\ n.lock = r.lock
  <2> DEFINE m == [r EXCEPT !.alone = FALSE]
  <2>1. IsProcess(m) /\ m.registry = r.registry /\ m.lock = r.lock
    BY Zenon, AloneSet
  <2>2. n = [m EXCEPT !.over = o]
    BY <1>3
  <2> HIDE DEF m
  <2> QED BY Zenon, <2>1, <2>2, OverSet
<1> QED BY Zenon, <1>1, <1>2, <1>3 DEF Flagged

\* The initial states.
LEMMA InitGood == Init => IInv
<1> SUFFICES ASSUME Init PROVE IInv
  OBVIOUS
<1>1. file = [torn |-> file.torn, entries |-> file.entries] /\ file.entries \in Shipped
  BY DEF Init
<1>2. proc = [p \in Procs |-> Down]
  BY DEF Init
<1>3. ProcShaped
  BY <1>2, ProcessIs DEF ProcShaped, Down
<1>4. FileGood
  <2>1. vouched = {} \union Mappings(file.entries)
    BY DEF Init
  <2> QED BY <2>1, <1>1, ShippedShaped, MappingsVouch DEF FileGood
<1>5. ProcsGood
  BY <1>2, ProcessIs, UnpinnedGood DEF ProcsGood, Down
<1> QED BY <1>3, <1>4, <1>5 DEF IInv

\* What only changes the flags of the processes changes nothing that matters.
LEMMA FlagsOnly ==
  ASSUME IInv, vouched \subseteq vouched',
         proc' = [q \in Procs |-> [proc[q] EXCEPT !.alone = FALSE]]
  PROVE  ProcShaped' /\ ProcsGood'
<1>1. ASSUME NEW q \in Procs
      PROVE  /\ IsProcess(proc'[q])
             /\ proc'[q].registry = proc[q].registry
             /\ proc'[q].lock = proc[q].lock
  <2>1. proc'[q] = [proc[q] EXCEPT !.alone = FALSE]
    OBVIOUS
  <2>2. IsProcess(proc[q])
    BY DEF IInv, ProcShaped
  <2> QED BY Zenon, <2>1, <2>2, AloneSet
<1>2. ProcShaped'
  BY <1>1 DEF ProcShaped
<1>3. ASSUME NEW q \in Procs
      PROVE  Good(proc'[q].registry, vouched') /\ Good(proc'[q].lock, vouched')
  BY <1>1, GoodGrows DEF IInv, ProcsGood
<1> QED BY <1>2, <1>3 DEF ProcsGood

\* A step that gives process p the good state n, and leaves the others alone but
\* perhaps for their flags.
LEMMA OneProc ==
  ASSUME IInv, vouched \subseteq vouched', NEW p \in Procs,
         proc' = [q \in Procs |-> proc'[q]],
         IsProcess(proc'[p]),
         Good(proc'[p].registry, vouched'), Good(proc'[p].lock, vouched'),
         \A q \in Procs \ {p} : Flagged(proc'[q], proc[q])
  PROVE  ProcShaped' /\ ProcsGood'
<1>1. ASSUME NEW q \in Procs, q # p
      PROVE  /\ IsProcess(proc'[q])
             /\ proc'[q].registry = proc[q].registry
             /\ proc'[q].lock = proc[q].lock
  <2>1. IsProcess(proc[q])
    BY DEF IInv, ProcShaped
  <2>2. Flagged(proc'[q], proc[q])
    BY <1>1
  <2> QED BY Zenon, <2>1, <2>2, FlagsSet
<1>2. ProcShaped'
  BY <1>1 DEF ProcShaped
<1>3. ASSUME NEW q \in Procs
      PROVE  Good(proc'[q].registry, vouched') /\ Good(proc'[q].lock, vouched')
  <2>1. CASE q = p
    BY <2>1
  <2>2. CASE q # p
    BY <1>1, <2>2, GoodGrows DEF IInv, ProcsGood
  <2> QED BY <2>1, <2>2
<1> QED BY <1>2, <1>3 DEF ProcsGood

-----------------------------------------------------------------------------
(* Steps.                                                                  *)

\* What a verify changes of its own process.
LEMMA Fetched ==
  ASSUME NEW r, IsProcess(r), NEW page,
         NEW n, n = [r EXCEPT !.at = "fetched", !.page = page]
  PROVE  IsProcess(n) /\ n.registry = r.registry /\ n.lock = r.lock
<1>1. n = [at |-> "fetched", registry |-> r.registry, page |-> page, base |-> r.base,
           lock |-> r.lock, alone |-> r.alone, over |-> r.over]
  BY DEF IsProcess
<1> QED BY <1>1 DEF IsProcess

MergedProcess(r, base, lock) ==
  [r EXCEPT !.at = "merged", !.page = Nothing, !.base = base, !.lock = lock, !.alone = TRUE]

LEMMA MergedOf ==
  ASSUME NEW r, IsProcess(r), NEW base, NEW lock
  PROVE  /\ IsProcess(MergedProcess(r, base, lock))
         /\ MergedProcess(r, base, lock).registry = r.registry
         /\ MergedProcess(r, base, lock).lock = lock
<1> DEFINE n == MergedProcess(r, base, lock)
<1>0. n = [r EXCEPT !.at = "merged", !.page = Nothing, !.base = base, !.lock = lock,
                    !.alone = TRUE]
  BY DEF MergedProcess
<1> HIDE DEF n
<1>1. n = [at |-> "merged", registry |-> r.registry, page |-> Nothing, base |-> base,
           lock |-> lock, alone |-> TRUE, over |-> r.over]
  BY <1>0 DEF IsProcess
<1>2. IsProcess(n) /\ n.registry = r.registry /\ n.lock = lock
  BY <1>1 DEF IsProcess
<1> QED BY <1>2 DEF n

\* The file and what is vouched for stay; process p becomes the good state n.
LEMMA BecomesGood ==
  ASSUME IInv, UNCHANGED <<file, vouched>>, NEW p \in Procs, NEW n,
         proc' = [proc EXCEPT ![p] = n],
         IsProcess(n), Good(n.registry, vouched), Good(n.lock, vouched)
  PROVE  IInv'
<1>1. /\ proc = [q \in Procs |-> proc[q]]
      /\ \A q \in Procs : IsProcess(proc[q])
  BY DEF IInv, ProcShaped
<1>2. /\ proc' = [q \in Procs |-> proc'[q]]
      /\ proc'[p] = n
      /\ \A q \in Procs \ {p} : proc'[q] = proc[q]
  BY <1>1
<1>3. ProcShaped'
  <2>1. ASSUME NEW q \in Procs PROVE IsProcess(proc'[q])
    <3>1. CASE q = p
      BY Zenon, <3>1, <1>2
    <3>2. CASE q # p
      BY <3>2, <1>1, <1>2
    <3> QED BY <3>1, <3>2
  <2> QED BY <2>1, <1>2 DEF ProcShaped
<1>4. ProcsGood'
  <2>1. ASSUME NEW q \in Procs
        PROVE  Good(proc'[q].registry, vouched') /\ Good(proc'[q].lock, vouched')
    <3>1. CASE q = p
      BY Zenon, <3>1, <1>2
    <3>2. CASE q # p
      BY <3>2, <1>2 DEF IInv, ProcsGood
    <3> QED BY <3>1, <3>2
  <2> QED BY <2>1 DEF ProcsGood
<1>5. FileGood'
  BY DEF IInv, FileGood
<1> QED BY <1>3, <1>4, <1>5 DEF IInv

LEMMA NewDocsGood == IInv /\ NewDocs => IInv'
BY DEF IInv, NewDocs, ProcShaped, FileGood, ProcsGood

LEMMA EditGood ==
  ASSUME IInv, NEW c \in Capabilities, NEW f \in Fields[c], Edit(c, f) PROVE IInv'
<1>1. /\ file' = [file EXCEPT !.entries[c].map[f] = Own[f]]
      /\ vouched' = vouched \union {<<c, f, Own[f]>>}
      /\ proc' = [q \in Procs |-> [proc[q] EXCEPT !.alone = FALSE]]
  BY DEF Edit
<1>2. ProcShaped' /\ ProcsGood'
  BY <1>1, FlagsOnly
<1>3. FileGood'
  <2>1. /\ file = [torn |-> file.torn, entries |-> file.entries]
        /\ Good(file.entries, vouched)
    BY DEF IInv, FileGood
  <2>2. file' = [torn |-> file.torn, entries |-> [file.entries EXCEPT ![c].map[f] = Own[f]]]
    BY <1>1, <2>1
  <2>3. /\ file'.torn = file.torn
        /\ file'.entries = [file.entries EXCEPT ![c].map[f] = Own[f]]
    BY <2>2
  <2>4. Good([file.entries EXCEPT ![c].map[f] = Own[f]], vouched \union {<<c, f, Own[f]>>})
    BY <2>1, EditedGood
  <2> QED BY Zenon, <1>1, <2>2, <2>3, <2>4 DEF FileGood
<1> QED BY <1>2, <1>3 DEF IInv

LEMMA RestoreGood == ASSUME IInv, Restore PROVE IInv'
<1>1. /\ file' \in [torn : {FALSE}, entries : Shipped]
      /\ vouched' = vouched \union Mappings(file'.entries)
      /\ proc' = [q \in Procs |-> [proc[q] EXCEPT !.alone = FALSE]]
  BY DEF Restore
<1>2. ProcShaped' /\ ProcsGood'
  BY <1>1, FlagsOnly
<1>3. FileGood'
  <2>1. /\ file' = [torn |-> file'.torn, entries |-> file'.entries]
        /\ file'.entries \in Shipped
    BY <1>1
  <2>2. Good(file'.entries, vouched')
    BY <1>1, <2>1, ShippedShaped, MappingsVouch
  <2> QED BY <2>1, <2>2 DEF FileGood
<1> QED BY <1>2, <1>3 DEF IInv

LEMMA LoadGood == ASSUME IInv, NEW p \in Procs, Load(p) PROVE IInv'
<1>1. Good(file.entries, vouched) /\ Good(Unpinned, vouched)
  BY UnpinnedGood DEF IInv, FileGood
<1>2. proc' = [proc EXCEPT ![p] = Up(file.entries)] /\ UNCHANGED <<file, vouched>>
  BY DEF Load
<1> QED BY Zenon, <1>1, <1>2, ProcessIs, BecomesGood DEF Up

LEMMA EndGood == ASSUME IInv, NEW p \in Procs, Exit(p) \/ Crash(p) PROVE IInv'
<1>1. proc' = [proc EXCEPT ![p] = Down] /\ UNCHANGED <<file, vouched>>
  BY DEF Exit, Crash
<1>2. Good(Unpinned, vouched)
  BY UnpinnedGood
<1> QED BY Zenon, <1>1, <1>2, ProcessIs, BecomesGood DEF Down

LEMMA FetchGood == ASSUME IInv, NEW p \in Procs, Fetch(p) PROVE IInv'
<1> DEFINE n == [proc[p] EXCEPT !.at = "fetched", !.page = docs]
<1>1. proc' = [proc EXCEPT ![p] = n] /\ UNCHANGED <<file, vouched>>
  BY DEF Fetch
<1>2. IsProcess(proc[p])
  BY DEF IInv, ProcShaped
<1>3. IsProcess(n) /\ n.registry = proc[p].registry /\ n.lock = proc[p].lock
  BY Zenon, <1>2, Fetched
<1>4. Good(n.registry, vouched) /\ Good(n.lock, vouched)
  <2> HIDE DEF n
  <2> QED BY <1>3 DEF IInv, ProcsGood
<1> HIDE DEF n
<1> QED BY Zenon, <1>1, <1>3, <1>4, BecomesGood

LEMMA MergeGood == ASSUME IInv, NEW p \in Procs, Merge(p) PROVE IInv'
<1> DEFINE r == proc[p]
<1> DEFINE m == Merged(r.page, r.registry, file.entries)
<1> DEFINE n == MergedProcess(r, file.entries, m)
<1>1. /\ file' = file
      /\ vouched' = vouched \union Documented(r.page)
      /\ proc' = IF file.torn THEN [proc EXCEPT ![p] = Up(r.registry)]
                 ELSE [proc EXCEPT ![p] = n]
  BY DEF Merge, MergedProcess
<1>2. /\ proc = [q \in Procs |-> proc[q]] /\ IsProcess(r)
      /\ Good(r.registry, vouched) /\ Good(file.entries, vouched)
  BY DEF IInv, ProcShaped, ProcsGood, FileGood
<1>3. vouched \subseteq vouched'
  BY <1>1
<1>4. FileGood'
  BY <1>1, <1>3, GoodGrows DEF IInv, FileGood
<1>5. CASE file.torn
  <2>1. /\ proc' = [q \in Procs |-> proc'[q]]
        /\ proc'[p] = Up(r.registry)
        /\ \A q \in Procs \ {p} : proc'[q] = proc[q]
    BY <1>1, <1>2, <1>5
  <2>0. proc'[p] = Up(r.registry)
    BY <2>1
  <2>2. /\ IsProcess(proc'[p])
        /\ proc'[p].registry = r.registry /\ proc'[p].lock = Unpinned
    <3>1. IsProcess(Up(r.registry)) /\ Up(r.registry).registry = r.registry
          /\ Up(r.registry).lock = Unpinned
      BY Zenon, ProcessIs DEF Up
    <3> QED BY <2>0, <3>1
  <2>3. Good(proc'[p].registry, vouched') /\ Good(proc'[p].lock, vouched')
    BY <1>2, <1>3, <2>2, GoodGrows, UnpinnedGood
  <2>4. ProcShaped' /\ ProcsGood'
    BY <1>3, <2>1, <2>2, <2>3, OneProc DEF Flagged
  <2> QED BY <1>4, <2>4 DEF IInv
<1>6. CASE ~file.torn
  <2>1. /\ proc' = [q \in Procs |-> proc'[q]]
        /\ proc'[p] = n
        /\ \A q \in Procs \ {p} : proc'[q] = proc[q]
    <3> HIDE DEF n
    <3> QED BY <1>1, <1>2, <1>6
  <2>2. IsProcess(n) /\ n.registry = r.registry /\ n.lock = m
    <3>1. IsProcess(r)
      BY <1>2
    <3>2. /\ IsProcess(MergedProcess(r, file.entries, m))
          /\ MergedProcess(r, file.entries, m).registry = r.registry
          /\ MergedProcess(r, file.entries, m).lock = m
      <4> HIDE DEF m, r, n
      <4> QED BY <3>1, MergedOf
    <3> QED BY <3>2
  <2>3. Good(m, vouched')
    BY Zenon, <1>1, <1>2, MergedGood
  <2>4. Good(r.registry, vouched')
    BY <1>2, <1>3, GoodGrows
  <2>5. /\ IsProcess(proc'[p])
        /\ Good(proc'[p].registry, vouched') /\ Good(proc'[p].lock, vouched')
    <3> HIDE DEF n, m
    <3> QED BY Zenon, <2>1, <2>2, <2>3, <2>4
  <2>6. ProcShaped' /\ ProcsGood'
    <3> HIDE DEF n, m
    <3> QED BY <1>3, <2>1, <2>5, OneProc DEF Flagged
  <2> QED BY <1>4, <2>6 DEF IInv
<1> QED BY <1>5, <1>6

LEMMA TruncateGood == ASSUME IInv, NEW p \in Procs, Truncate(p) PROVE IInv'
<1> DEFINE o == Others(p, proc)
<1>1. /\ file' = [torn |-> TRUE, entries |-> Unpinned]
      /\ vouched' = vouched
      /\ proc' = [o EXCEPT ![p].at = "truncated"]
  BY DEF Truncate
<1>2. \A q \in Procs : IsProcess(proc[q])
  BY DEF IInv, ProcShaped
<1>3. /\ o = [q \in Procs |-> o[q]]
      /\ o[p] = proc[p]
      /\ \A q \in Procs \ {p} : o[q] = [proc[q] EXCEPT !.alone = FALSE]
  BY DEF Others
<1>4. /\ proc' = [q \in Procs |-> proc'[q]]
      /\ proc'[p] = [proc[p] EXCEPT !.at = "truncated"]
      /\ \A q \in Procs \ {p} : proc'[q] = [proc[q] EXCEPT !.alone = FALSE]
  <2> HIDE DEF o
  <2> QED BY <1>1, <1>3
<1>5. /\ IsProcess(proc'[p])
      /\ proc'[p].registry = proc[p].registry /\ proc'[p].lock = proc[p].lock
  <2>1. proc'[p] = [proc[p] EXCEPT !.at = "truncated"]
    BY <1>4
  <2>2. /\ IsProcess([proc[p] EXCEPT !.at = "truncated"])
        /\ [proc[p] EXCEPT !.at = "truncated"].registry = proc[p].registry
        /\ [proc[p] EXCEPT !.at = "truncated"].lock = proc[p].lock
    BY Zenon, <1>2, AtSet
  <2> QED BY <2>1, <2>2
<1>6. Good(proc'[p].registry, vouched') /\ Good(proc'[p].lock, vouched')
  BY <1>1, <1>5 DEF IInv, ProcsGood
<1>7. \A q \in Procs \ {p} : Flagged(proc'[q], proc[q])
  BY <1>4 DEF Flagged
<1>8. ProcShaped' /\ ProcsGood'
  BY <1>1, <1>4, <1>5, <1>6, <1>7, OneProc
<1>9. FileGood'
  BY <1>1, UnpinnedGood DEF FileGood
<1> QED BY <1>8, <1>9 DEF IInv

LEMMA WriteGood == ASSUME IInv, NEW p \in Procs, Write(p) PROVE IInv'
<1> DEFINE o == Filled(p, proc)
<1>1. /\ vouched' = vouched
      /\ proc' = [o EXCEPT ![p] = Up(@.registry)]
  BY DEF Write
<1>2. PICK torn \in BOOLEAN :
        file' = [torn |-> torn, entries |-> IF torn THEN Unpinned ELSE proc[p].lock]
  BY DEF Write
<1>3. /\ o = [q \in Procs |-> o[q]]
      /\ o[p] = proc[p]
      /\ \A q \in Procs \ {p} :
           o[q] = [[proc[q] EXCEPT !.alone = FALSE] EXCEPT !.over = proc[q].at = "truncated"]
  BY DEF Filled, Others
<1>4. /\ proc' = [q \in Procs |-> proc'[q]]
      /\ proc'[p] = Up(proc[p].registry)
      /\ \A q \in Procs \ {p} : proc'[q] = o[q]
  <2> HIDE DEF o
  <2> QED BY <1>1, <1>3
<1>5. /\ IsProcess(proc'[p])
      /\ proc'[p].registry = proc[p].registry /\ proc'[p].lock = Unpinned
  <2>1. proc'[p] = Up(proc[p].registry)
    BY <1>4
  <2>2. /\ IsProcess(Up(proc[p].registry))
        /\ Up(proc[p].registry).registry = proc[p].registry
        /\ Up(proc[p].registry).lock = Unpinned
    BY Zenon, ProcessIs DEF Up
  <2> QED BY <2>1, <2>2
<1>6. Good(proc'[p].registry, vouched') /\ Good(proc'[p].lock, vouched')
  BY <1>1, <1>5, UnpinnedGood DEF IInv, ProcsGood
<1>7. ASSUME NEW q \in Procs \ {p} PROVE Flagged(proc'[q], proc[q])
  <2>1. proc'[q] = [[proc[q] EXCEPT !.alone = FALSE] EXCEPT !.over = proc[q].at = "truncated"]
    BY Zenon, <1>3, <1>4
  <2> QED BY Zenon, <2>1 DEF Flagged
<1>8. ProcShaped' /\ ProcsGood'
  BY <1>1, <1>4, <1>5, <1>6, <1>7, OneProc
<1>9. FileGood'
  <2>1. Good(proc[p].lock, vouched) /\ Good(Unpinned, vouched)
    BY UnpinnedGood DEF IInv, ProcsGood
  <2>2. /\ file' = [torn |-> file'.torn, entries |-> file'.entries]
        /\ file'.entries = Unpinned \/ file'.entries = proc[p].lock
    BY <1>2
  <2> QED BY Zenon, <1>1, <2>1, <2>2 DEF FileGood
<1> QED BY <1>8, <1>9 DEF IInv

\* The invariant is inductive.
THEOREM Inductive == IInv /\ [Next]_vars => IInv'
<1> SUFFICES ASSUME IInv, [Next]_vars PROVE IInv'
  OBVIOUS
<1>1. CASE NewDocs
  BY <1>1, NewDocsGood
<1>2. CASE Restore
  BY <1>2, RestoreGood
<1>3. ASSUME NEW c \in Capabilities, NEW f \in Fields[c], Edit(c, f) PROVE IInv'
  BY <1>3, EditGood
<1>4. ASSUME NEW p \in Procs, Load(p) PROVE IInv'
  BY <1>4, LoadGood
<1>5. ASSUME NEW p \in Procs, Verify(p) PROVE IInv'
  BY <1>5, FetchGood, MergeGood, TruncateGood, WriteGood DEF Verify
<1>6. ASSUME NEW p \in Procs, Exit(p) \/ Crash(p) PROVE IInv'
  BY <1>6, EndGood
<1>7. CASE UNCHANGED vars
  BY <1>7 DEF vars, IInv, ProcShaped, FileGood, ProcsGood
<1> QED BY <1>1, <1>2, <1>3, <1>4, <1>5, <1>6, <1>7 DEF Next

LEMMA GoodMeansVouched == IInv => PostsAreVouchedFor
<1> SUFFICES ASSUME IInv, NEW p \in Procs, NEW c \in Capabilities,
                    NEW request \in Requests(p, c), NEW item \in request
             PROVE  item \in vouched
  BY DEF PostsAreVouchedFor
<1> DEFINE entry == proc[p].registry[c]
<1>1. PICK f \in Mapped(entry) : item = <<c, f, entry.map[f]>>
  BY DEF Requests
<1>2. Good(proc[p].registry, vouched)
  BY DEF IInv, ProcsGood
<1>3. entry.map = [g \in Fields[c] |-> entry.map[g]]
  BY <1>2 DEF Good, Shaped
<1>4. f \in Fields[c] /\ entry.map[f] # Unmapped
  BY <1>1, <1>3 DEF Mapped
<1> QED BY <1>1, <1>2, <1>4 DEF Good, VouchedIn

\* Whatever is posted goes under parameters that the documentation or the user
\* gave for these fields (mfl/verify.py, mfl/write_client.py), for any number of
\* processes, capabilities, pages and changes.
THEOREM PostsVouchedFor == Spec => []PostsAreVouchedFor
<1>1. Init => IInv
  BY InitGood
<1>2. IInv /\ [Next]_vars => IInv'
  BY Inductive
<1>3. IInv => PostsAreVouchedFor
  BY GoodMeansVouched
<1> QED BY <1>1, <1>2, <1>3, PTL DEF Spec

-----------------------------------------------------------------------------
(* What a verify keeps.                                                    *)

MergedFrom(r) ==
  /\ r.at = "fetched" => r.page \in Pages
  /\ r.at \in {"merged", "truncated"} =>
       /\ Shaped(r.base)
       /\ \E page \in Pages : r.lock = Merged(page, r.registry, r.base)

OverIsSeen(r) == r.over => r.at = "truncated" /\ ~r.alone

Kept(r) == MergedFrom(r) /\ OverIsSeen(r)

KInv == docs \in Pages /\ \A p \in Procs : Kept(proc[p])

\* A process that has not fetched anything yet.
LEMMA RestKept ==
  ASSUME NEW at \in {"up", "down"}, NEW r PROVE Kept(Process(at, r))
BY DEF Process, Kept, MergedFrom, OverIsSeen

LEMMA AloneKept ==
  ASSUME NEW r, IsProcess(r), Kept(r)
  PROVE  /\ Kept([r EXCEPT !.alone = FALSE])
         /\ [r EXCEPT !.alone = FALSE].at = r.at
<1> DEFINE n == [r EXCEPT !.alone = FALSE]
<1>0. n = [r EXCEPT !.alone = FALSE]
  OBVIOUS
<1> HIDE DEF n
<1>1. n = [at |-> r.at, registry |-> r.registry, page |-> r.page, base |-> r.base,
           lock |-> r.lock, alone |-> FALSE, over |-> r.over]
  BY <1>0 DEF IsProcess
<1>2. /\ n.at = r.at /\ n.page = r.page /\ n.base = r.base /\ n.lock = r.lock
      /\ n.registry = r.registry /\ n.alone = FALSE /\ n.over = r.over
  BY <1>1
<1>3. MergedFrom(n)
  BY <1>2 DEF Kept, MergedFrom
<1>4. OverIsSeen(n)
  BY <1>2 DEF Kept, OverIsSeen
<1> QED BY <1>2, <1>3, <1>4 DEF Kept, n

LEMMA OverKept ==
  ASSUME NEW r, IsProcess(r), Kept(r)
  PROVE  LET n == [[r EXCEPT !.alone = FALSE] EXCEPT !.over = r.at = "truncated"]
         IN  Kept(n) /\ n.at = r.at
<1> DEFINE n == [[r EXCEPT !.alone = FALSE] EXCEPT !.over = r.at = "truncated"]
<1> DEFINE o == r.at = "truncated"
<1> DEFINE m == [r EXCEPT !.alone = FALSE]
<1>0. n = [m EXCEPT !.over = o] /\ m = [r EXCEPT !.alone = FALSE]
  OBVIOUS
<1> HIDE DEF n, m, o
<1>1. n = [at |-> r.at, registry |-> r.registry, page |-> r.page, base |-> r.base,
           lock |-> r.lock, alone |-> FALSE, over |-> o]
  <2>1. m = [at |-> r.at, registry |-> r.registry, page |-> r.page, base |-> r.base,
             lock |-> r.lock, alone |-> FALSE, over |-> r.over]
    BY <1>0 DEF IsProcess
  <2> QED BY <1>0, <2>1
<1>2. /\ n.at = r.at /\ n.page = r.page /\ n.base = r.base /\ n.lock = r.lock
      /\ n.registry = r.registry /\ n.alone = FALSE /\ n.over = o
  BY <1>1
<1>3. MergedFrom(n)
  BY <1>2 DEF Kept, MergedFrom
<1>4. OverIsSeen(n)
  BY <1>2 DEF OverIsSeen, o
<1> QED BY <1>2, <1>3, <1>4 DEF Kept, n

\* What every step does to a process it is not a step of.
LEMMA AsideKept ==
  ASSUME NEW r, NEW n, IsProcess(r), Kept(r),
         \/ n = r
         \/ n = [r EXCEPT !.alone = FALSE]
         \/ n = [[r EXCEPT !.alone = FALSE] EXCEPT !.over = r.at = "truncated"]
  PROVE  Kept(n) /\ n.at = r.at
<1>1. CASE n = r
  BY <1>1
<1>2. CASE n = [r EXCEPT !.alone = FALSE]
  BY Zenon, <1>2, AloneKept
<1>3. CASE n = [[r EXCEPT !.alone = FALSE] EXCEPT !.over = r.at = "truncated"]
  BY Zenon, <1>3, OverKept
<1> QED BY <1>1, <1>2, <1>3

-----------------------------------------------------------------------------
\* What the step of a process p does to the processes: p becomes n.
Turns(p, n) ==
  /\ proc'[p] = n
  /\ \A q \in Procs \ {p} : Kept(proc'[q]) /\ proc'[q].at = proc[q].at

LEMMA TurnsKept ==
  ASSUME KInv, UNCHANGED docs, NEW p \in Procs, NEW n, Turns(p, n), Kept(n)
  PROVE  KInv'
<1>1. ASSUME NEW q \in Procs PROVE Kept(proc'[q])
  <2>1. CASE q = p
    BY Zenon, <2>1 DEF Turns
  <2>2. CASE q # p
    BY <2>2 DEF Turns
  <2> QED BY <2>1, <2>2
<1> QED BY <1>1 DEF KInv

LEMMA AloneTurns ==
  ASSUME IInv, KInv, NEW p \in Procs, NEW n, proc' = [proc EXCEPT ![p] = n]
  PROVE  Turns(p, n)
<1>1. proc = [q \in Procs |-> proc[q]]
  BY DEF IInv, ProcShaped
<1>2. proc'[p] = n /\ \A q \in Procs \ {p} : proc'[q] = proc[q]
  BY <1>1
<1> QED BY <1>2 DEF Turns, KInv

LEMMA FlagsKept ==
  ASSUME IInv, KInv, docs' \in Pages,
         proc' = [q \in Procs |-> [proc[q] EXCEPT !.alone = FALSE]]
  PROVE  KInv' /\ \A q \in Procs : proc'[q].at = proc[q].at
<1>1. ASSUME NEW q \in Procs PROVE Kept(proc'[q]) /\ proc'[q].at = proc[q].at
  <2>1. proc'[q] = [proc[q] EXCEPT !.alone = FALSE]
    OBVIOUS
  <2>2. IsProcess(proc[q]) /\ Kept(proc[q])
    BY DEF IInv, ProcShaped, KInv
  <2> QED BY Zenon, <2>1, <2>2, AloneKept
<1> QED BY <1>1 DEF KInv

LEMMA FetchKept == ASSUME IInv, KInv, NEW p \in Procs, Fetch(p)
                   PROVE  KInv' /\ \A q \in Procs \ {p} : proc'[q].at = proc[q].at
<1> DEFINE n == [proc[p] EXCEPT !.at = "fetched", !.page = docs]
<1>1. proc' = [proc EXCEPT ![p] = n] /\ docs' = docs
  BY DEF Fetch
<1>2. /\ proc[p].at = "up"
      /\ IsProcess(proc[p]) /\ Kept(proc[p]) /\ docs \in Pages
  BY DEF Fetch, IInv, ProcShaped, KInv
<1>0. n = [proc[p] EXCEPT !.at = "fetched", !.page = docs]
  OBVIOUS
<1> HIDE DEF n
<1>3. n = [at |-> "fetched", registry |-> proc[p].registry, page |-> docs,
           base |-> proc[p].base, lock |-> proc[p].lock, alone |-> proc[p].alone,
           over |-> proc[p].over]
  BY <1>0, <1>2 DEF IsProcess
<1>4. Turns(p, n)
  BY <1>1, AloneTurns
<1>5. Kept(n)
  <2>1. n.at = "fetched" /\ n.page = docs /\ n.over = proc[p].over
    BY <1>3
  <2>2. ~proc[p].over
    BY <1>2 DEF Kept, OverIsSeen
  <2> QED BY <2>1, <2>2, <1>2 DEF Kept, MergedFrom, OverIsSeen
<1> QED BY <1>1, <1>4, <1>5, TurnsKept DEF Turns

LEMMA MergeKept == ASSUME IInv, KInv, NEW p \in Procs, Merge(p)
                   PROVE  KInv' /\ \A q \in Procs \ {p} : proc'[q].at = proc[q].at
<1> DEFINE r == proc[p]
<1> DEFINE m == Merged(r.page, r.registry, file.entries)
<1> DEFINE n == MergedProcess(r, file.entries, m)
<1>1. /\ docs' = docs /\ r.at = "fetched"
      /\ proc' = IF file.torn THEN [proc EXCEPT ![p] = Up(r.registry)]
                 ELSE [proc EXCEPT ![p] = n]
  BY DEF Merge, MergedProcess
<1>2. CASE file.torn
  <2>1. proc' = [proc EXCEPT ![p] = Up(r.registry)]
    BY <1>1, <1>2
  <2>2. Turns(p, Up(r.registry))
    BY <2>1, AloneTurns
  <2>3. Kept(Up(r.registry))
    BY RestKept DEF Up
  <2> QED BY <1>1, <2>2, <2>3, TurnsKept DEF Turns
<1>3. CASE ~file.torn
  <2>1. proc' = [proc EXCEPT ![p] = n]
    BY <1>1, <1>3
  <2>2. Turns(p, n)
    <3> HIDE DEF n
    <3> QED BY <2>1, AloneTurns
  <2>3. IsProcess(r) /\ Kept(r) /\ Shaped(file.entries)
    BY DEF IInv, ProcShaped, KInv, FileGood, Good
  <2>4. n = [at |-> "merged", registry |-> r.registry, page |-> Nothing,
             base |-> file.entries, lock |-> m, alone |-> TRUE, over |-> r.over]
    <3>1. n = [r EXCEPT !.at = "merged", !.page = Nothing, !.base = file.entries,
                        !.lock = m, !.alone = TRUE]
      BY DEF MergedProcess
    <3> HIDE DEF n, m, r
    <3> QED BY <2>3, <3>1 DEF IsProcess
  <2>5. /\ n.at = "merged" /\ n.registry = r.registry /\ n.base = file.entries
        /\ n.lock = m /\ n.over = r.over
    <3> HIDE DEF n, m
    <3> QED BY <2>4
  <2>6. r.page \in Pages /\ ~r.over
    BY <1>1, <2>3 DEF Kept, MergedFrom, OverIsSeen
  <2>7. n.lock = Merged(r.page, n.registry, n.base)
    <3> HIDE DEF n
    <3> QED BY <2>5
  <2>8. Kept(n)
    <3> HIDE DEF n, m
    <3> QED BY <2>3, <2>5, <2>6, <2>7 DEF Kept, MergedFrom, OverIsSeen
  <2> HIDE DEF n
  <2> QED BY <1>1, <2>2, <2>8, TurnsKept DEF Turns
<1> QED BY <1>2, <1>3

LEMMA TruncateKept == ASSUME IInv, KInv, NEW p \in Procs, Truncate(p)
                      PROVE  KInv' /\ \A q \in Procs \ {p} : proc'[q].at = proc[q].at
<1> DEFINE o == Others(p, proc)
<1> DEFINE n == [proc[p] EXCEPT !.at = "truncated"]
<1>1. docs' = docs /\ proc' = [o EXCEPT ![p].at = "truncated"] /\ proc[p].at = "merged"
  BY DEF Truncate
<1>2. /\ o = [q \in Procs |-> o[q]] /\ o[p] = proc[p]
      /\ \A q \in Procs \ {p} : o[q] = [proc[q] EXCEPT !.alone = FALSE]
  BY DEF Others
<1>3. /\ proc'[p] = n
      /\ \A q \in Procs \ {p} : proc'[q] = [proc[q] EXCEPT !.alone = FALSE]
  <2> HIDE DEF o
  <2> QED BY <1>1, <1>2
<1>4. \A q \in Procs : IsProcess(proc[q]) /\ Kept(proc[q])
  BY DEF IInv, ProcShaped, KInv
<1>0. n = [proc[p] EXCEPT !.at = "truncated"]
  OBVIOUS
<1> HIDE DEF n
<1>5. Turns(p, n)
  <2>1. ASSUME NEW q \in Procs \ {p} PROVE Kept(proc'[q]) /\ proc'[q].at = proc[q].at
    <3>1. proc'[q] = [proc[q] EXCEPT !.alone = FALSE] /\ IsProcess(proc[q]) /\ Kept(proc[q])
      BY <1>3, <1>4
    <3> QED BY <3>1, AsideKept
  <2> QED BY <1>3, <2>1 DEF Turns
<1>6. n = [at |-> "truncated", registry |-> proc[p].registry, page |-> proc[p].page,
           base |-> proc[p].base, lock |-> proc[p].lock, alone |-> proc[p].alone,
           over |-> proc[p].over]
  <2>1. IsProcess(proc[p])
    BY <1>4
  <2> QED BY <1>0, <2>1 DEF IsProcess
<1>7. Kept(n)
  <2>1. /\ n.at = "truncated" /\ n.registry = proc[p].registry /\ n.base = proc[p].base
        /\ n.lock = proc[p].lock /\ n.over = proc[p].over
    BY <1>6
  <2>2. ~proc[p].over
    BY <1>1, <1>4 DEF Kept, OverIsSeen
  <2>3. MergedFrom(n)
    BY <2>1, <1>1, <1>4 DEF Kept, MergedFrom
  <2> QED BY <2>1, <2>2, <2>3 DEF Kept, OverIsSeen
<1> QED BY <1>1, <1>5, <1>7, TurnsKept DEF Turns

LEMMA WriteKept == ASSUME IInv, KInv, NEW p \in Procs, Write(p)
                   PROVE  KInv' /\ \A q \in Procs \ {p} : proc'[q].at = proc[q].at
<1> DEFINE o == Filled(p, proc)
<1>1. docs' = docs /\ proc' = [o EXCEPT ![p] = Up(@.registry)]
  BY DEF Write
<1>2. /\ o = [q \in Procs |-> o[q]] /\ o[p] = proc[p]
      /\ \A q \in Procs \ {p} :
           o[q] = [[proc[q] EXCEPT !.alone = FALSE] EXCEPT !.over = proc[q].at = "truncated"]
  BY DEF Filled, Others
<1>3. proc'[p] = Up(proc[p].registry) /\ \A q \in Procs \ {p} : proc'[q] = o[q]
  <2> HIDE DEF o
  <2> QED BY <1>1, <1>2
<1>4. \A q \in Procs : IsProcess(proc[q]) /\ Kept(proc[q])
  BY DEF IInv, ProcShaped, KInv
<1>5. ASSUME NEW q \in Procs \ {p} PROVE Kept(proc'[q]) /\ proc'[q].at = proc[q].at
  <2>1. proc'[q] = [[proc[q] EXCEPT !.alone = FALSE] EXCEPT !.over = proc[q].at = "truncated"]
    BY Zenon, <1>2, <1>3
  <2> QED BY Zenon, <2>1, <1>4, OverKept
<1>6. Turns(p, Up(proc[p].registry))
  BY <1>3, <1>5 DEF Turns
<1>7. Kept(Up(proc[p].registry))
  BY RestKept DEF Up
<1> QED BY <1>1, <1>6, <1>7, TurnsKept DEF Turns

\* The second invariant is inductive, beside the first; and only its own write ends
\* what a process has truncated.
LEMMA StepKept ==
  ASSUME IInv, KInv, [Next]_vars
  PROVE  /\ KInv'
         /\ \A p \in Procs :
              proc[p].at = "truncated" /\ proc'[p].at = "up" => Write(p)
<1> DEFINE Same == \A q \in Procs : proc'[q].at = proc[q].at
<1> DEFINE Rest(p) == \A q \in Procs \ {p} : proc'[q].at = proc[q].at
<1>1. CASE NewDocs
  <2>1. proc' = proc /\ docs' \in Pages
    BY <1>1 DEF NewDocs
  <2> QED BY <2>1 DEF KInv
<1>2. CASE Restore
  <2>1. docs' \in Pages /\ proc' = [q \in Procs |-> [proc[q] EXCEPT !.alone = FALSE]]
    BY <1>2 DEF Restore, KInv
  <2>2. KInv' /\ Same
    BY <2>1, FlagsKept
  <2> QED BY <2>2
<1>3. ASSUME NEW c \in Capabilities, NEW f \in Fields[c], Edit(c, f) PROVE KInv' /\ Same
  <2>1. docs' \in Pages /\ proc' = [q \in Procs |-> [proc[q] EXCEPT !.alone = FALSE]]
    BY <1>3 DEF Edit, KInv
  <2> QED BY <2>1, FlagsKept
<1>4. ASSUME NEW p \in Procs, Load(p) \/ Exit(p) \/ Crash(p)
      PROVE  KInv' /\ Rest(p) /\ ~(proc[p].at = "truncated" /\ proc'[p].at = "up")
  <2>1. PICK n : /\ proc' = [proc EXCEPT ![p] = n] /\ docs' = docs
                 /\ \/ n = Up(file.entries) /\ proc[p].at = "down"
                    \/ n = Down
    BY <1>4 DEF Load, Exit, Crash
  <2>2. Turns(p, n)
    BY <2>1, AloneTurns
  <2>3. Kept(n)
    BY <2>1, RestKept DEF Up, Down
  <2>4. KInv'
    BY <2>1, <2>2, <2>3, TurnsKept
  <2>5. Down.at # "up"
    BY DEF Down, Process
  <2> QED BY <2>1, <2>2, <2>4, <2>5 DEF Turns
<1>5. ASSUME NEW p \in Procs, Fetch(p) \/ Merge(p) \/ Truncate(p) \/ Write(p)
      PROVE  KInv' /\ Rest(p) /\ (proc[p].at = "truncated" => Write(p))
  <2>1. KInv' /\ Rest(p)
    BY <1>5, FetchKept, MergeKept, TruncateKept, WriteKept
  <2>2. proc[p].at = "truncated" => Write(p)
    BY <1>5 DEF Fetch, Merge, Truncate
  <2> QED BY <2>1, <2>2
<1>6. CASE UNCHANGED vars
  BY <1>6 DEF vars, KInv
<1> QED BY <1>1, <1>2, <1>3, <1>4, <1>5, <1>6 DEF Next, Verify

\* A merge by a process that had loaded what the file says keeps the file's mappings.
LEMMA MergedKeeps ==
  ASSUME NEW e, Shaped(e), NEW page, NEW fields
  PROVE  Keeps(e, Merged(page, e, e), fields)
<1> DEFINE m == Merged(page, e, e)
<1> SUFFICES ASSUME NEW c \in Capabilities, e[c].pinned
             PROVE  /\ m[c].pinned
                    /\ \A f \in fields \intersect Mapped(e[c]) : m[c].map[f] = e[c].map[f]
  BY DEF Keeps
<1>1. CASE page[c] = Undocumented
  <2>1. m[c] = e[c]
    BY <1>1 DEF Merged
  <2> HIDE DEF m
  <2> QED BY <2>1
<1>2. CASE page[c] # Undocumented
  <2>1. m[c] = [pinned |-> TRUE,
                map |-> [f \in Fields[c] |-> IF f \in Mapped(e[c]) THEN e[c].map[f]
                                             ELSE AutoMap(c, page[c])[f]]]
    BY Zenon, <1>2 DEF Merged
  <2>2. e[c].map = [f \in Fields[c] |-> e[c].map[f]]
    BY DEF Shaped
  <2>3. Mapped(e[c]) \subseteq Fields[c]
    BY <2>2 DEF Mapped
  <2> HIDE DEF m
  <2>4. m[c].pinned
    BY <2>1
  <2>5. ASSUME NEW f \in Mapped(e[c]) PROVE m[c].map[f] = e[c].map[f]
    BY <2>1, <2>3
  <2> QED BY <2>4, <2>5
<1> QED BY <1>1, <1>2

LEMMA WriteKeeps ==
  ASSUME KInv, NEW p \in Procs, Write(p), proc[p].alone, proc[p].registry = proc[p].base
  PROVE  ~file'.torn /\ Keeps(proc[p].base, file'.entries, AllFields)
<1>1. Kept(proc[p]) /\ proc[p].at = "truncated"
  BY DEF KInv, Write
<1>2. ~proc[p].over
  BY <1>1 DEF Kept, OverIsSeen
<1>3. file' = [torn |-> FALSE, entries |-> proc[p].lock]
  BY <1>2 DEF Write
<1>4. ~file'.torn /\ file'.entries = proc[p].lock
  BY <1>3
<1>5. Shaped(proc[p].base) /\ \E page \in Pages :
        proc[p].lock = Merged(page, proc[p].registry, proc[p].base)
  BY <1>1 DEF Kept, MergedFrom
<1>6. PICK page \in Pages : proc[p].lock = Merged(page, proc[p].base, proc[p].base)
  BY <1>5
<1> QED BY <1>4, <1>5, <1>6, MergedKeeps

\* A verify that nobody interferes with, by a process that had loaded what the file
\* says, takes no entry and no mapping away (mfl/verify.py:308), whatever pages the
\* site publishes and however many processes read the file meanwhile.
THEOREM VerifyKeeps == Spec => VerifyKeepsWhatIsPinned
<1>1. Init => IInv /\ KInv
  <2> SUFFICES ASSUME Init PROVE KInv
    BY InitGood
  <2>1. docs \in Pages /\ proc = [p \in Procs |-> Down]
    BY DEF Init
  <2>2. Kept(Down)
    BY RestKept DEF Down
  <2> QED BY <2>1, <2>2 DEF KInv
<1>2. IInv /\ KInv /\ [Next]_vars => (IInv /\ KInv)'
  BY Inductive, StepKept
<1>3. IInv /\ KInv /\ [Next]_vars =>
        [\A p \in Procs : Finishes(p) /\ proc[p].registry = proc[p].base
           => ~file'.torn /\ Keeps(proc[p].base, file'.entries, AllFields)]_vars
  <2> SUFFICES ASSUME IInv, KInv, [Next]_vars, NEW p \in Procs, Finishes(p),
                      proc[p].registry = proc[p].base
               PROVE  ~file'.torn /\ Keeps(proc[p].base, file'.entries, AllFields)
    OBVIOUS
  <2>1. Write(p) /\ proc[p].alone
    BY StepKept DEF Finishes
  <2> QED BY <2>1, WriteKeeps
<1> QED BY <1>1, <1>2, <1>3, PTL DEF Spec, VerifyKeepsWhatIsPinned
=============================================================================
