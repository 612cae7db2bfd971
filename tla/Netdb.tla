-------------------------------- MODULE Netdb --------------------------------
(***************************************************************************)
(* mnet/netdb.c: the network database, a hash table in memory (module      *)
(* NetdbHashmap, whose actions are conjoined here) over a directory tree   *)
(* on disk.  A process builds the tree, loads it and may flush it; it can  *)
(* be killed between any two system calls and be started again.            *)
(*                                                                         *)
(* router_info_load (ri.c over bencode.c) is taken by what it makes of a   *)
(* file's content: a router info for the contents in Parsable, otherwise   *)
(* it refuses.                                                             *)
(***************************************************************************)
EXTENDS NetdbHashmap

CONSTANTS
    Letters,    \* number of subdirectories, 64 in the code (MNET_BASE64_CHARS)
    File,       \* names of node files, directory included
    DirOf,      \* the subdirectory of a file
    NodeFile,   \* the file netdb_open_file names for an ident hash
    Contents,   \* what may be placed in each file from outside
    Parsable    \* the contents from which router_info_load makes a router info

Letter == 1 .. Letters

ASSUME LettersAssumption  == Letters \in Nat
ASSUME DirOfAssumption    == DirOf \in [File -> Letter]
ASSUME NodeFileAssumption == NodeFile \in [Ident -> File]
ASSUME ParsableAssumption == Parsable \subseteq RI
ASSUME FileAssumption     == IsFiniteSet(File)

\* A path: missing, a directory, or something opendir refuses to open with an
\* error other than ENOENT.
Path == {"absent", "dir", "other"}

\* A file: missing, not to be opened, truncated, not a router info, or the
\* bencoded form of a router info.
Damaged == {"none", "noaccess", "empty", "garbage"}
Content == Damaged \cup RI

ASSUME ContentsAssumption == Contents \in [File -> SUBSET Content] /\ Damaged \cap RI = {}

VARIABLES
    proc,       \* where the process is
    root,       \* the path db->rootdir
    sub,        \* the path of each subdirectory
    content,    \* the content of each file
    letter,     \* ensure_skiplist: next subdirectory, 0 for the root itself
    dirs,       \* load_all: subdirectories still to list
    files,      \* load_all: files of the current one still to read
    loaded,     \* netdb_read_ctx.loaded
    failed,     \* netdb_read_ctx.failed
    result,     \* netdb_write_ctx.result
    before      \* during a flush, the files when it began (history)

table_vars == <<pc, table, sz, mem, idx, pos, seen, atStart, reply>>
disk == <<root, sub, content>>
load == <<dirs, files, loaded, failed>>
nvars == <<proc, root, sub, content, letter, dirs, files, loaded, failed,
           result, before, table_vars>>

NInit ==
    /\ Init
    /\ proc = "down"
    /\ root \in Path
    /\ sub \in [Letter -> Path]
    /\ root # "dir" => \A d \in Letter : sub[d] = "absent"
    /\ content \in [File -> Content]
    /\ \A f \in File : content[f] \in Contents[f] \cup {"none"}
    /\ \A f \in File : sub[DirOf[f]] # "dir" => content[f] = "none"
    /\ letter = 0 /\ dirs = {} /\ files = {} /\ loaded = 0 /\ failed = 0
    /\ result = 1 /\ before = content

-----------------------------------------------------------------------------
(* Start: mnet_netdb_new, then ensure_skiplist, then load_all, in the order
   of router_context_load. *)

Start ==
    /\ proc = "down"
    /\ proc' = "ensure"
    /\ InitMap
    /\ UNCHANGED <<disk, letter, load, result, before>>

\* Mutant of EnsureRoot: a root that exists is taken to be complete.
EnsureRootTrusts ==
    /\ proc = "ensure" /\ letter = 0
    /\ \/ root = "dir" /\ letter' = Letters + 1 /\ UNCHANGED <<proc, root>>
       \/ root = "absent" /\ root' = "dir" /\ letter' = 1 /\ UNCHANGED proc
       \/ root # "dir" /\ proc' = "refused" /\ UNCHANGED <<root, letter>>
    /\ UNCHANGED <<sub, content, load, result, before, table_vars>>

\* The root is opened, else made; mkdir can fail, and does if it exists.
EnsureRoot ==
    /\ proc = "ensure" /\ letter = 0
    /\ \/ root = "dir" /\ letter' = 1 /\ UNCHANGED <<proc, root>>
       \/ root = "absent" /\ root' = "dir" /\ letter' = 1 /\ UNCHANGED proc
       \/ root # "dir" /\ proc' = "refused" /\ UNCHANGED <<root, letter>>
    /\ UNCHANGED <<sub, content, load, result, before, table_vars>>

\* A missing subdirectory is made; one that cannot be opened for another
\* reason is passed over.
EnsureSubdir ==
    /\ proc = "ensure" /\ letter \in Letter
    /\ \/ /\ sub[letter] # "absent"
          /\ letter' = letter + 1 /\ UNCHANGED <<proc, sub>>
       \/ /\ sub[letter] = "absent"
          /\ sub' = [sub EXCEPT ![letter] = "dir"]
          /\ letter' = letter + 1 /\ UNCHANGED proc
       \/ /\ sub[letter] = "absent"
          /\ proc' = "refused" /\ UNCHANGED <<sub, letter>>
    /\ UNCHANGED <<root, content, load, result, before, table_vars>>

\* ensure_skiplist returns 1 and load_all lists the root.
BeginLoad ==
    /\ proc = "ensure" /\ letter = Letters + 1
    /\ proc' = "loading"
    /\ dirs' = {d \in Letter : sub[d] = "dir"}
    /\ UNCHANGED <<disk, letter, files, loaded, failed, result, before, table_vars>>

ListSubdir(d) ==
    /\ proc = "loading" /\ files = {} /\ d \in dirs
    /\ dirs' = dirs \ {d}
    /\ files' = {f \in File : DirOf[f] = d /\ content[f] # "none"}
    /\ UNCHANGED <<proc, disk, letter, loaded, failed, result, before, table_vars>>

Reading(f) ==
    /\ proc = "loading" /\ f \in files
    /\ files' = files \ {f}
    /\ UNCHANGED <<disk, letter, dirs, result, before>>

ReadUnopened(f) ==
    /\ Reading(f)
    /\ content[f] = "noaccess"
    /\ failed' = failed + 1
    /\ UNCHANGED <<proc, loaded, table_vars>>

\* Mutant of ReadRouterInfo: a router info is parsed, counted, and kept only
\* while the table has no other of its bucket.
ReadRouterInfoOnePerBucket(f) ==
    /\ Reading(f)
    /\ content[f] \in Parsable
    /\ \/ Chain(IdentOf[content[f]]) = <<>> /\ InsertNew(content[f])
       \/ Chain(IdentOf[content[f]]) # <<>> /\ UNCHANGED table_vars
    /\ loaded' = loaded + 1
    /\ UNCHANGED <<proc, failed>>

\* The result of the insert is not looked at: a second file of the same
\* ident counts as loaded.
ReadRouterInfo(f) ==
    /\ Reading(f)
    /\ content[f] \in Parsable
    /\ InsertNew(content[f]) \/ InsertDuplicate(content[f])
    /\ loaded' = loaded + 1
    /\ UNCHANGED <<proc, failed>>

\* Anything else ends the process: without an "iwp" entry the router info has
\* no link, and router_info_free of the bad entry dereferences it; a dict
\* without an ident counts as a success and is hashed through a NULL.
ReadBadEntry(f) ==
    /\ Reading(f)
    /\ content[f] \notin Parsable \cup {"noaccess"}
    /\ proc' = "crashed"
    /\ UNCHANGED <<loaded, failed, table_vars>>

LoadReturns ==
    /\ proc = "loading" /\ dirs = {} /\ files = {}
    /\ proc' = "up"
    /\ UNCHANGED <<disk, letter, load, result, before, table_vars>>

-----------------------------------------------------------------------------
(* A loaded database.  Each operation is a call of the table's. *)

\* mnet_netdb_find_router_info asks the table and nothing else.
Find(k) ==
    /\ proc = "up" \/ proc = "visiting"
    /\ Get(k)
    /\ UNCHANGED <<proc, disk, letter, load, result, before>>

\* mnet_netdb_loaded_peer_count
PeerCount ==
    /\ proc = "up"
    /\ Size
    /\ UNCHANGED <<proc, disk, letter, load, result, before>>

\* mnet_netdb_put_router_info is "TODO: implement": it returns 0.
Put(ri) ==
    /\ proc = "up"
    /\ reply' = <<"put", ri, 0>>
    /\ UNCHANGED <<proc, disk, letter, load, result, before, pc, table, sz, mem, iter>>

\* mnet_netdb_for_each for a client whose callback looks idents up
\* (test_netdb.c), and mnet_netdb_flush_to_disk, which is for_each over
\* netdb_write_entry.
BeginVisit ==
    /\ proc = "up"
    /\ proc' = "visiting"
    /\ ForEach
    /\ UNCHANGED <<disk, letter, load, result, before>>

BeginFlush ==
    /\ proc = "up"
    /\ proc' = "flushing"
    /\ result' = 1
    /\ before' = content
    /\ ForEach
    /\ UNCHANGED <<disk, letter, load>>

IterateOn ==
    /\ proc \in {"visiting", "flushing"}
    /\ CallCallback \/ NextBucket
    /\ UNCHANGED <<proc, disk, letter, load, result, before>>

VisitCallbackReturns ==
    /\ proc = "visiting"
    /\ CallbackReturns
    /\ UNCHANGED <<proc, disk, letter, load, result, before>>

IterationReturns ==
    /\ proc \in {"visiting", "flushing"}
    /\ ForEachReturns
    /\ proc' = "up"
    /\ before' = content
    /\ UNCHANGED <<disk, letter, load, result>>

\* The ident the callback was given.
Handed == seen[Len(seen)]

\* netdb_open_file for writing: the subdirectory must be there.
Openable(f) == sub[DirOf[f]] = "dir" /\ content[f] # "noaccess"

\* router_info_write puts the ident into a bencode object in memory, frees
\* it, and returns 0 with nothing written to the file.
Written == [ret |-> 0, file |-> "empty"]

Writing == proc = "flushing" /\ pc = "callback"

Calling(r) ==
    /\ CallbackReturns
    /\ result' = r
    /\ UNCHANGED <<proc, root, sub, letter, load, before>>

\* Mutant of WriteEntry: it goes on after a failure.
WriteEntryGoesOn ==
    /\ Writing
    /\ \/ /\ Openable(NodeFile[Handed])
          /\ content' = [content EXCEPT ![NodeFile[Handed]] = Written.file]
          /\ Calling(Written.ret)
       \/ Calling(0) /\ UNCHANGED content

\* netdb_write_entry: fopen "w+" truncates the file, or fails; then the entry
\* is written.  Once result is 0, the later calls do nothing.
WriteEntry ==
    /\ Writing
    /\ \/ /\ result = 1 /\ Openable(NodeFile[Handed])
          /\ content' = [content EXCEPT ![NodeFile[Handed]] = Written.file]
          /\ Calling(Written.ret)
       \/ Calling(0) /\ UNCHANGED content

\* mnet_netdb_free, and the end of the process.
Close ==
    /\ proc = "up"
    /\ Free
    /\ proc' = "closed"
    /\ UNCHANGED <<disk, letter, load, result, before>>

-----------------------------------------------------------------------------
(* The world around the process. *)

\* The process is killed, or has ended: memory goes, the disk stays.
Ends ==
    /\ proc # "down"
    /\ proc' = "down"
    /\ pc' = "null" /\ table' = EmptyTable /\ sz' = 0
    /\ mem' = [ri \in RI |-> "live"]
    /\ idx' = 0 /\ pos' = 0 /\ seen' = <<>> /\ atStart' = {}
    /\ reply' = <<"none", NoRI, 0>>
    /\ letter' = 0 /\ dirs' = {} /\ files' = {} /\ loaded' = 0 /\ failed' = 0
    /\ result' = 1 /\ before' = content
    /\ UNCHANGED disk

\* Someone else puts a node file into an existing subdirectory.
Place(f) ==
    /\ proc \in {"down", "up"}
    /\ sub[DirOf[f]] = "dir"
    /\ \E c \in Contents[f] \ {content[f]} : content' = [content EXCEPT ![f] = c]
    /\ before' = content'
    /\ UNCHANGED <<proc, root, sub, letter, load, result, table_vars>>

NNext ==
    \/ Start
    \/ EnsureRoot
    \/ EnsureSubdir
    \/ BeginLoad
    \/ \E d \in Letter : ListSubdir(d)
    \/ \E f \in File : ReadUnopened(f) \/ ReadRouterInfo(f) \/ ReadBadEntry(f)
    \/ LoadReturns
    \/ \E k \in Ident : Find(k)
    \/ PeerCount
    \/ \E ri \in RI : Put(ri)
    \/ BeginVisit
    \/ BeginFlush
    \/ IterateOn
    \/ VisitCallbackReturns
    \/ WriteEntry
    \/ IterationReturns
    \/ Close
    \/ Ends
    \/ \E f \in File : Place(f)

NSpec == NInit /\ [][NNext]_nvars

-----------------------------------------------------------------------------
(* Properties. *)

\* Files that a listing of the tree reaches.
Listed == {f \in File : sub[DirOf[f]] = "dir" /\ content[f] # "none"}

\* Files that hold a router info load_all can read.
Readable == {f \in Listed : content[f] \in Parsable}

Loaded == proc = "loading" /\ dirs = {} /\ files = {}

\* Past ensure_skiplist no subdirectory is missing, whatever an earlier
\* process had made of the tree when it was killed.
SkiplistComplete ==
    proc \in {"loading", "up", "visiting", "flushing"} =>
        root = "dir" /\ \A d \in Letter : sub[d] # "absent"

\* When load_all is through, memory and disk agree: an ident is bound exactly
\* if some readable file holds a router info of it, and the bound router info
\* is one of those.  What load_all returns counts files, the peer count counts
\* idents: the difference is the number of router infos the load has leaked.
LoadAgreesWithDisk ==
    Loaded =>
        /\ Bound = {IdentOf[content[f]] : f \in Readable}
        /\ \A k \in Bound : \E f \in Readable : content[f] = Lookup(k)
        /\ loaded = Cardinality(Readable)
        /\ failed = Cardinality({f \in Listed : content[f] = "noaccess"})
        /\ sz = Cardinality({IdentOf[content[f]] : f \in Readable})

\* A flush that fails in the middle does not go on damaging: it leaves at most
\* one file without the router info it had, that of a resident of buckets 1 and
\* up, and does not report success then (netdb_write_entry, whose result stays
\* 0).  A file that is rewritten whole is not damaged.
FlushDamage ==
    proc = "flushing" =>
        LET damaged == {f \in File : content[f] # before[f] /\ content[f] \in Damaged}
        IN  /\ Cardinality(damaged) <= 1
            /\ \A f \in damaged : \E k \in Bound : f = NodeFile[k] /\ SlotOf[k] # 0
            /\ damaged # {} => result = 0
=============================================================================
