---------------------------- MODULE RouterContext ----------------------------
(***************************************************************************)
(* mnet/router.c: router_context_load, the start of the daemon, and the two *)
(* files it keeps in its data directory: router.keys, made once and read on *)
(* every start, and router.info, rewritten on every start.  A start can be *)
(* killed between two system calls, and any system call of it can fail.    *)
(*                                                                         *)
(* No lock guards the data directory, so several daemons may start over    *)
(* one: each has its own control state, they share the disk.               *)
(***************************************************************************)
EXTENDS Integers

CONSTANTS
    Daemon,     \* processes started over the data directory
    Key         \* private keys mnet_identity_keys_generate may draw

\* What router.keys can hold of someone else's: a bencoded dict with no entry,
\* a list with items, a dict whose keys bencode_obj_dict_set does not take.
Foreign == {"dict", "list", "unordered"}

\* What router.keys can hold: nothing, the first bytes of a key dict, something
\* foreign, or a whole key dict.
KeysContent == {"none", "empty", "cut"} \cup Foreign \cup Key

\* What router.info can hold; "unordered" is a list with items or a dict whose
\* keys bencode_obj_dict_set does not take.
InfoContent == {"none", "empty", "junk", "dict", "unordered"}

ASSUME KeyAssumption ==
    Key \cap ({"none", "empty", "cut", "null", "blank"} \cup Foreign) = {}

VARIABLES
    proc,       \* where each daemon is in router_context_load
    priv,       \* ctx->privkeys: null, allocated without a key, or a key
    gen,        \* the keys regenerate_identity holds until they are written
    datadir,    \* the data directory exists
    keys,       \* content of router.keys
    info,       \* content of router.info
    linked,     \* daemons whose open router.keys has not been deleted since
    fault,      \* a system call of this start has failed (history)
    cut,        \* router.keys was last opened for writing and the writing
                \* was not completed (history)
    met         \* a daemon was started while another was up (history)

disk == <<datadir, keys, info, cut, linked>>
vars == <<proc, priv, gen, fault, disk, met>>

Label == {"down", "datadir", "check", "open", "reopen", "write", "read",
          "update", "writeinfo", "openinfo", "refused", "crashed", "hung"}

Init ==
    /\ proc = [d \in Daemon |-> "down"]
    /\ priv = [d \in Daemon |-> "null"]
    /\ gen = [d \in Daemon |-> "null"]
    /\ fault = [d \in Daemon |-> FALSE]
    /\ datadir \in BOOLEAN
    /\ keys = "none" /\ info = "none" /\ cut = FALSE /\ linked = {} /\ met = FALSE

At(d, label) == proc[d] = label

Idle == \A d \in Daemon : At(d, "down")

Goto(d, label) == proc' = [proc EXCEPT ![d] = label]

\* A system call fails: what the code then does is where it goes.
FailTo(d, label) ==
    /\ Goto(d, label)
    /\ fault' = [fault EXCEPT ![d] = TRUE]

-----------------------------------------------------------------------------
(* router_context_load *)

\* main allocates a context (router_context_new) and loads it.
Start(d) ==
    /\ At(d, "down")
    /\ Goto(d, "datadir")
    /\ met' = (met \/ ~Idle)
    /\ UNCHANGED <<priv, gen, fault, disk>>

EnsureDataDir(d) ==
    /\ At(d, "datadir")
    /\ \/ datadir /\ Goto(d, "check") /\ UNCHANGED <<datadir, fault>>
       \/ ~datadir /\ datadir' = TRUE /\ Goto(d, "check") /\ UNCHANGED fault
       \/ ~datadir /\ FailTo(d, "refused") /\ UNCHANGED datadir
    /\ UNCHANGED <<priv, gen, keys, info, cut, linked, met>>

\* Mutant of CheckKeys: the file is there if it can be opened.
CheckKeysByOpening(d) ==
    /\ At(d, "check")
    /\ \/ keys = "none" /\ Goto(d, "open") /\ UNCHANGED fault
       \/ keys # "none" /\ Goto(d, "read") /\ UNCHANGED fault
       \/ keys # "none" /\ FailTo(d, "open")
    /\ UNCHANGED <<priv, gen, disk, met>>

\* check_file(router_keys) is access(F_OK): any content will do.
CheckKeys(d) ==
    /\ At(d, "check")
    /\ IF keys = "none" THEN Goto(d, "open") ELSE Goto(d, "read")
    /\ UNCHANGED <<priv, gen, fault, disk, met>>

\* Mutant of OpenKeys: the keys are put into the context before they are
\* written.
OpenKeysEarly(d) ==
    /\ At(d, "open") \/ At(d, "reopen")
    /\ \/ \E k \in Key :
            /\ gen' = [gen EXCEPT ![d] = k]
            /\ priv' = [priv EXCEPT ![d] = k]
            /\ keys' = "empty" /\ cut' = TRUE /\ linked' = linked \cup {d}
            /\ Goto(d, "write") /\ UNCHANGED fault
       \/ /\ At(d, "open") /\ FailTo(d, "reopen")
          /\ keys' = "none" /\ cut' = FALSE /\ linked' = {} /\ UNCHANGED <<gen, priv>>
       \/ /\ At(d, "reopen") /\ FailTo(d, "refused") /\ UNCHANGED <<gen, priv, keys, cut, linked>>
    /\ UNCHANGED <<datadir, info, met>>

\* router_context_regenerate_identity, up to the fclose: fopen "w+" truncates
\* router.keys, new keys are generated and printed into the stream's buffer,
\* which holds all of them.  If the open fails the file is deleted and the
\* call repeated once; nothing else makes the call return 0.
OpenKeys(d) ==
    /\ At(d, "open") \/ At(d, "reopen")
    /\ \/ /\ \E k \in Key : gen' = [gen EXCEPT ![d] = k]
          /\ keys' = "empty" /\ cut' = TRUE /\ linked' = linked \cup {d}
          /\ Goto(d, "write") /\ UNCHANGED fault
       \/ /\ At(d, "open") /\ FailTo(d, "reopen")
          /\ keys' = "none" /\ cut' = FALSE /\ linked' = {} /\ UNCHANGED gen
       \/ /\ At(d, "reopen") /\ FailTo(d, "refused") /\ UNCHANGED <<gen, keys, cut, linked>>
    /\ UNCHANGED <<priv, datadir, info, met>>

\* The bytes go to the file d has open, which may be in no directory any more.
Writes(d, bytes) == keys' = IF d \in linked THEN bytes ELSE keys

\* ... and the fclose, which writes the buffer out.  Its result is not looked
\* at: if the disk is full the call still returns 1.
CloseKeys(d) ==
    /\ At(d, "write")
    /\ priv' = [priv EXCEPT ![d] = gen[d]]
    /\ gen' = [gen EXCEPT ![d] = "null"]
    /\ linked' = linked \ {d}
    /\ \/ Writes(d, gen[d]) /\ cut' = FALSE /\ Goto(d, "read") /\ UNCHANGED fault
       \/ /\ Writes(d, "cut") \/ UNCHANGED keys
          /\ cut' = TRUE /\ FailTo(d, "read")
    /\ UNCHANGED <<datadir, info, met>>

\* What mnet_identity_keys_read returns.  The bencode reader takes no string
\* of more than one byte, so it refuses (-1) every key dict the daemon wrote
\* and every beginning of one; in a list or a dict it can read there is no key
\* (0).
KeysRead(c) == IF c \in {"dict", "list"} THEN 0 ELSE -1

\* Where the process can end inside mnet_identity_keys_read.  The items of a
\* list were freed by the reader and are freed again with the list, which is
\* undefined and may go by unnoticed; keys that dict_set does not take end in a
\* NULL dereference or close the chain to a circle, over which the iteration
\* does not end.
ReadEnds(c) == IF c \in {"list", "unordered"} THEN {"crashed", "hung"} ELSE {}

\* The context gets new, blank keys, into which the file is read.  The code
\* asks whether the result is true, and -1 is.
ReadKeys(d) ==
    /\ At(d, "read")
    /\ \/ FailTo(d, "refused") /\ UNCHANGED priv
       \/ /\ \E end \in ReadEnds(keys) : Goto(d, end)
          /\ priv' = [priv EXCEPT ![d] = "blank"]
          /\ UNCHANGED fault
       \/ /\ keys # "none" /\ KeysRead(keys) = 0
          /\ priv' = [priv EXCEPT ![d] = "null"]
          /\ Goto(d, "refused") /\ UNCHANGED fault
       \/ /\ keys \notin {"none", "unordered"} /\ KeysRead(keys) # 0
          /\ priv' = [priv EXCEPT ![d] = "blank"]
          /\ Goto(d, "update") /\ UNCHANGED fault
    /\ UNCHANGED <<gen, disk, met>>

\* router_context_update_router_info makes a router info that shares the
\* identity of the keys and opens router.info, truncating it; a failure to
\* open is logged.
UpdateInfo(d) ==
    /\ At(d, "update")
    /\ \/ info' = "empty" /\ Goto(d, "writeinfo") /\ UNCHANGED fault
       \/ FailTo(d, "openinfo") /\ UNCHANGED info
    /\ UNCHANGED <<priv, gen, datadir, keys, cut, linked, met>>

\* router_info_write goes through the identity, which blank keys have not.
WriteInfo(d) ==
    /\ At(d, "writeinfo") /\ priv[d] = "blank"
    /\ Goto(d, "crashed")
    /\ UNCHANGED <<priv, gen, fault, disk, met>>

\* router.info could not be opened for writing; if it can be for reading, a
\* content that is no dict ends in router_info_free, which dereferences the
\* NULL link, and a dict in router_info_base64_ident, which dereferences the
\* NULL identity, unless the reader ends the process before.
OpenInfo(d) ==
    /\ At(d, "openinfo")
    /\ \/ info # "none" /\ Goto(d, "crashed") /\ UNCHANGED <<priv, fault>>
       \/ info = "unordered" /\ Goto(d, "hung") /\ UNCHANGED <<priv, fault>>
       \/ FailTo(d, "refused") /\ priv' = [priv EXCEPT ![d] = "null"]
    /\ UNCHANGED <<gen, disk, met>>

-----------------------------------------------------------------------------
(* The world around. *)

\* Killed, or ended by itself: main frees the context and returns 0.
Ends(d) ==
    /\ ~At(d, "down")
    /\ Goto(d, "down")
    /\ priv' = [priv EXCEPT ![d] = "null"]
    /\ gen' = [gen EXCEPT ![d] = "null"]
    /\ fault' = [fault EXCEPT ![d] = FALSE]
    /\ linked' = linked \ {d}
    /\ UNCHANGED <<datadir, keys, info, cut, met>>

\* While no daemon runs, someone restores a backup of router.keys, or removes
\* it, or puts a file of another program in its place.
PlaceKeys ==
    /\ Idle /\ datadir
    /\ keys' \in ({"none"} \cup Foreign \cup Key) \ {keys}
    /\ cut' = FALSE
    /\ UNCHANGED <<proc, priv, gen, fault, linked, datadir, info, met>>

PlaceInfo ==
    /\ Idle /\ datadir
    /\ info' \in {"none", "junk", "dict", "unordered"} \ {info}
    /\ UNCHANGED <<proc, priv, gen, fault, linked, datadir, keys, cut, met>>

Next ==
    \/ \E d \in Daemon :
        \/ Start(d) \/ EnsureDataDir(d) \/ CheckKeys(d)
        \/ OpenKeys(d) \/ CloseKeys(d) \/ ReadKeys(d)
        \/ UpdateInfo(d) \/ WriteInfo(d) \/ OpenInfo(d)
        \/ Ends(d)
    \/ PlaceKeys
    \/ PlaceInfo

Spec == Init /\ [][Next]_vars

-----------------------------------------------------------------------------
(* Properties. *)

\* Every variable has its type.
TypeOK ==
    /\ proc \in [Daemon -> Label]
    /\ priv \in [Daemon -> {"null", "blank"} \cup Key]
    /\ gen \in [Daemon -> {"null"} \cup Key]
    /\ fault \in [Daemon -> BOOLEAN]
    /\ datadir \in BOOLEAN
    /\ keys \in KeysContent
    /\ info \in InfoContent
    /\ cut \in BOOLEAN
    /\ linked \subseteq Daemon
    /\ met \in BOOLEAN

\* A whole router.keys is the router's identity: no step of a daemon, killed
\* where it may be, changes or deletes it, as long as no two were up at once.
KeysStay == [][~met /\ ~Idle /\ keys \in Key => keys' = keys]_vars

\* A router.keys that check_file accepts and no one can read was left by a
\* start killed between fopen and fclose, or by a full disk, as long as no two
\* daemons were up at once.
BadKeysAreCut == keys \in {"empty", "cut"} => cut \/ met

\* Keys in memory are the keys on disk: a start never goes on with an
\* identity that the next start will not find, unless a write was lost or two
\* daemons were up at once.
MemoryAgrees ==
    \A d \in Daemon : priv[d] \in Key => keys = priv[d] \/ fault[d] \/ met

\* router.h of router_context_load: "return 1 on success otherwise return 0
\* if any errors happen".  Over its own whole router.keys it crashes.
LoadReturns == \A d \in Daemon : keys \in Key => ~At(d, "crashed") /\ ~At(d, "hung")

\* router.c goes on with "loaded router identity private keys from" the file,
\* and otherwise with "failed to read identity": what counts as loaded is a whole
\* key dict, on disk for the next start.  A start goes on with a file that a kill
\* or a full disk has left empty or cut, and with two daemons up one truncates the
\* file the other has loaded (check_file, fopen).
LoadedKeysAreWhole == \A d \in Daemon : At(d, "update") \/ At(d, "writeinfo") => keys \in Key
=============================================================================
