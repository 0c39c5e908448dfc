---------------------------- MODULE EndpointLock ----------------------------
(***************************************************************************)
(* endpoints.lock.json, the pinned write endpoints.  Every process reads   *)
(* it once, when it starts, and submits only what it read there.           *)
(* verify-endpoints fetches the site's documentation, reads the file,      *)
(* merges what the documentation confirms and the mappings the process     *)
(* knows, and writes the file over.  The user completes mappings by hand.  *)
(*                                                                         *)
(*   docs    the parameters documented for each capability's import        *)
(*   file    the lock file; a write cut short leaves it torn               *)
(*   proc    each process: how far its verify is, the entries it loaded    *)
(*           at its start, the page it fetched, what it read and is about  *)
(*           to write; alone is lost when somebody else changes the file   *)
(*           after the read, over when somebody else's write fills it      *)
(*           after the truncation                                          *)
(*   vouched the mappings that the documentation or the user ever gave     *)
(***************************************************************************)
EXTENDS Naturals, FiniteSets, Sequences

CONSTANTS
  Procs,      \* the dashboard and a command beside it
  Params,     \* the names parameters of the site's imports may have
  Fields,     \* of each capability, the payload fields its request may carry
  Obvious(_), \* the parameters that are a field's under any naming, in order
  Pages,      \* what the documentation may say
  Own,        \* of each field no parameter is obvious for, the one it needs
  Shipped,    \* the lock files an installation may begin with
  MaxChanges, \* bound: new documentation
  MaxCrashes  \* bound: processes killed

Capabilities == DOMAIN Fields
Unmapped == "unmapped"
Undocumented == {"undocumented"}   \* of an import the page does not name

Maps(c) == [Fields[c] -> Params \union {Unmapped}]
Entry(c) == [pinned : BOOLEAN, map : Maps(c)]
IsLock(entries) ==
  /\ entries \in [Capabilities -> UNION {Entry(c) : c \in Capabilities}]
  /\ \A c \in Capabilities : entries[c] \in Entry(c)

ASSUME LockAssumption ==
  /\ {MaxChanges, MaxCrashes} \subseteq Nat
  /\ Unmapped \notin Params
  /\ Pages \subseteq [Capabilities -> SUBSET Params \union {Undocumented}]
  /\ \A c \in Capabilities : \A f \in Fields[c] :
       /\ Obvious(f) \in Seq(Params)
       /\ Obvious(f) = <<>> => Own[f] \in Params
  /\ \A entries \in Shipped : IsLock(entries)

VARIABLES docs, changes, crashes, file, proc, vouched

vars == <<docs, changes, crashes, file, proc, vouched>>

Blank(c) == [f \in Fields[c] |-> Unmapped]
Unpinned == [c \in Capabilities |-> [pinned |-> FALSE, map |-> Blank(c)]]

Mapped(entry) == {f \in DOMAIN entry.map : entry.map[f] # Unmapped}
Mappings(entries) ==
  UNION {{<<c, f, entries[c].map[f]>> : f \in Mapped(entries[c])} : c \in Capabilities}

Nothing == [c \in Capabilities |-> Undocumented]

Process(at, registry) ==
  [at |-> at, registry |-> registry, page |-> Nothing, base |-> Unpinned,
   lock |-> Unpinned, alone |-> FALSE, over |-> FALSE]
Up(registry) == Process("up", registry)
Down == Process("down", Unpinned)

Others(p, ps) ==
  [q \in Procs |-> IF q = p THEN ps[q] ELSE [ps[q] EXCEPT !.alone = FALSE]]
Filled(p, ps) ==
  [q \in Procs |-> IF q = p THEN ps[q]
                   ELSE [Others(p, ps)[q] EXCEPT !.over = ps[q].at = "truncated"]]

-----------------------------------------------------------------------------
NewDocs ==
  /\ changes < MaxChanges
  /\ changes' = changes + 1
  /\ docs' \in Pages \ {docs}
  /\ UNCHANGED <<crashes, file, proc, vouched>>

\* The user maps a field no parameter is obvious for.
Edit(c, f) ==
  /\ ~file.torn /\ file.entries[c].pinned
  /\ Obvious(f) = <<>> /\ file.entries[c].map[f] = Unmapped
  /\ file' = [file EXCEPT !.entries[c].map[f] = Own[f]]
  /\ vouched' = vouched \union {<<c, f, Own[f]>>}
  /\ proc' = [q \in Procs |-> [proc[q] EXCEPT !.alone = FALSE]]
  /\ UNCHANGED <<docs, changes, crashes>>

\* A file nobody can read is replaced by one of those an installation begins with.
Restore ==
  /\ file.torn /\ \A p \in Procs : proc[p].at # "truncated"
  /\ file' \in [torn : {FALSE}, entries : Shipped]
  /\ vouched' = vouched \union Mappings(file'.entries)
  /\ proc' = [q \in Procs |-> [proc[q] EXCEPT !.alone = FALSE]]
  /\ UNCHANGED <<docs, changes, crashes>>

-----------------------------------------------------------------------------
\* A process starts: it needs a file it can read, or none.
Load(p) ==
  /\ proc[p].at = "down" /\ ~file.torn
  /\ proc' = [proc EXCEPT ![p] = Up(file.entries)]
  /\ UNCHANGED <<docs, changes, crashes, file, vouched>>

\* A page that says nothing of any endpoint is an error, and ends the verify.
Fetch(p) ==
  /\ proc[p].at = "up"
  /\ \E c \in Capabilities : docs[c] # Undocumented
  /\ proc' = [proc EXCEPT ![p] = [@ EXCEPT !.at = "fetched", !.page = docs]]
  /\ UNCHANGED <<docs, changes, crashes, file, vouched>>

AutoMap(c, params) ==
  [f \in Fields[c] |->
     LET known == {i \in DOMAIN Obvious(f) : Obvious(f)[i] \in params}
     IN IF known = {} THEN Unmapped
        ELSE Obvious(f)[CHOOSE i \in known : \A j \in known : i <= j]]

Documented(page) ==
  Mappings([c \in Capabilities |-> [pinned |-> TRUE, map |-> AutoMap(c, page[c])]])

\* Slip: the mappings the process knows are not carried over.
MergedAnew(page, registry, pinned) ==
  [c \in Capabilities |->
     IF page[c] = Undocumented THEN pinned[c]
     ELSE [pinned |-> TRUE, map |-> AutoMap(c, page[c])]]

\* Slip: the placeholders of unmapped fields are kept as if they were mappings.
MergedWithBlanks(page, registry, pinned) ==
  [c \in Capabilities |->
     IF page[c] = Undocumented THEN pinned[c]
     ELSE [pinned |-> TRUE,
           map |-> LET auto == AutoMap(c, page[c])
                   IN [f \in Fields[c] |-> IF f \in Mapped(registry[c]) THEN registry[c].map[f]
                                           ELSE IF auto[f] = Unmapped THEN "" ELSE auto[f]]]]

\* What is not documented keeps its pinned entry; of what is, the mapping is the
\* obvious one, under whatever the process knew when it started.
Merged(page, registry, pinned) ==
  [c \in Capabilities |->
     IF page[c] = Undocumented THEN pinned[c]
     ELSE [pinned |-> TRUE,
           map |-> [f \in Fields[c] |-> IF f \in Mapped(registry[c]) THEN registry[c].map[f]
                                        ELSE AutoMap(c, page[c])[f]]]]

\* A torn file raises, and nothing is written.
Merge(p) ==
  /\ proc[p].at = "fetched"
  /\ proc' = IF file.torn THEN [proc EXCEPT ![p] = Up(@.registry)]
             ELSE [proc EXCEPT ![p] =
                     [@ EXCEPT !.at = "merged", !.page = Nothing, !.base = file.entries,
                               !.lock = Merged(proc[p].page, proc[p].registry, file.entries),
                               !.alone = TRUE]]
  /\ vouched' = vouched \union Documented(proc[p].page)
  /\ UNCHANGED <<docs, changes, crashes, file>>

\* write_text opens the file, which empties it, and then fills it.
Truncate(p) ==
  /\ proc[p].at = "merged"
  /\ file' = [torn |-> TRUE, entries |-> Unpinned]
  /\ proc' = [Others(p, proc) EXCEPT ![p].at = "truncated"]
  /\ UNCHANGED <<docs, changes, crashes, vouched>>

\* Over a longer text that somebody wrote since, the end of that stays behind.
Write(p) ==
  /\ proc[p].at = "truncated"
  /\ \E torn \in IF proc[p].over THEN BOOLEAN ELSE {FALSE} :
       file' = [torn |-> torn, entries |-> IF torn THEN Unpinned ELSE proc[p].lock]
  /\ proc' = [Filled(p, proc) EXCEPT ![p] = Up(@.registry)]
  /\ UNCHANGED <<docs, changes, crashes, vouched>>

\* A process ends, or is killed while nothing of its write is in the file.
Exit(p) ==
  /\ proc[p].at \notin {"down", "truncated"}
  /\ proc' = [proc EXCEPT ![p] = Down]
  /\ UNCHANGED <<docs, changes, crashes, file, vouched>>

\* It is killed in the middle of the write.
Crash(p) ==
  /\ proc[p].at = "truncated" /\ crashes < MaxCrashes
  /\ crashes' = crashes + 1
  /\ proc' = [proc EXCEPT ![p] = Down]
  /\ UNCHANGED <<docs, changes, file, vouched>>

-----------------------------------------------------------------------------
\* What a process would post: each field of the payload under its parameter; an
\* entry that is not pinned, or lacks one of the fields, is refused.
Requests(p, c) ==
  LET entry == proc[p].registry[c]
  IN IF proc[p].at = "down" \/ ~entry.pinned THEN {}
     ELSE {{<<c, f, entry.map[f]>> : f \in wire} : wire \in SUBSET Mapped(entry)}

-----------------------------------------------------------------------------
Init ==
  /\ docs \in Pages /\ changes = 0 /\ crashes = 0
  /\ file \in [torn : {FALSE}, entries : Shipped]
  /\ proc = [p \in Procs |-> Down]
  /\ vouched = Mappings(file.entries)

Verify(p) == Fetch(p) \/ Merge(p) \/ Truncate(p) \/ Write(p)

Next ==
  \/ NewDocs \/ Restore
  \/ \E c \in Capabilities : \E f \in Fields[c] : Edit(c, f)
  \/ \E p \in Procs : Load(p) \/ Verify(p) \/ Exit(p) \/ Crash(p)

Spec == Init /\ [][Next]_vars

-----------------------------------------------------------------------------
(* Properties.                                                             *)

\* Whatever is posted goes under parameters that the documentation or the user
\* gave for these fields, whoever verified, edited, crashed or restarted meanwhile
\* (README: "the bot will not POST an unverified endpoint").
PostsAreVouchedFor ==
  \A p \in Procs, c \in Capabilities :
    \A request \in Requests(p, c) : request \subseteq vouched

Finishes(p) == /\ proc[p].at = "truncated" /\ proc'[p].at = "up"
               /\ proc[p].alone

Keeps(old, new, fields) ==
  \A c \in Capabilities :
    old[c].pinned =>
      /\ new[c].pinned
      /\ \A f \in fields \intersect Mapped(old[c]) : new[c].map[f] = old[c].map[f]

AllFields == UNION {Fields[c] : c \in Capabilities}

\* A verify that nobody interferes with, by a process that had loaded what the file
\* says, takes no entry and no mapping away, whatever the documentation leaves out
\* or renames ("never deleted", src/README.md:66; "Preserve any mapping the user
\* already completed by hand", mfl/verify.py:308).
VerifyKeepsWhatIsPinned ==
  [][\A p \in Procs : Finishes(p) /\ proc[p].registry = proc[p].base
       => ~file'.torn /\ Keeps(proc[p].base, file'.entries, AllFields)]_vars

\* The same of what was completed by hand, also when the process started before the
\* user completed it (mfl/verify.py:308).
HandMappingsAreKept ==
  [][\A p \in Procs : Finishes(p)
       => Keeps(proc[p].base, file'.entries, {f \in AllFields : Obvious(f) = <<>>})]_vars
=============================================================================
