# i2p-lite in TLA+

This directory holds TLA+ modules, TLC configurations and TLAPS proofs for the
daemon in `src/`: what its data structures promise, how it starts, what it keeps
on disk, and what becomes of both when calls interleave, files are cut short or
processes are killed. It also covers two libraries that lie under `src/contrib`
and have a logic of their own: the streaming bencode reader and the Ed25519
reference. The code is the reference; where a comment or header says something
else, the modules follow the code and this file says so.

The daemon is one process with one thread. What interleaves is therefore not
threads but

- callbacks that call back into the structure that calls them (`for_each`),
- the ticks of a libuv timer, whoever writes the files a tick reads, and the
  calls of `router.h` on the same context,
- several processes, or one process and its successor after a kill, over one
  data directory,
- an editor and the daemon over one configuration file,
- the boundaries of buffers with the structure of the text that is in them.

Everything in `src/mnet` that allocates does so through `xmalloc`, which zeroes,
and aborts when memory runs out; the modules use both facts.

## Inventory

| Part | State | Operations | Talks to | Hard about it | Correct if |
|---|---|---|---|---|---|
| hash map of router infos (`netdb_hashmap.c`) | chains in 128 buckets, a counter, ownership of router infos | init, insert, get, size, for_each, remove, free | `netdb.c` through callbacks | a callback that changes the chain being walked; duplicates; ownership | one node per ident, counter exact, nothing handed out twice or missed, first insert wins |
| network database (`netdb.c`) | the map; 64 subdirectories and node files on disk | ensure_skiplist, load_all, find, put, for_each, flush | map, `ri.c`, file system | kill in the middle, files of any content in any order, failing flush | memory agrees with disk after a load; a flush damages no more than it says |
| start of the router (`router.c`) | `router.keys`, `router.info`, keys in memory | context_load, regenerate_identity, update_router_info | `identity.c`, `bencode.c`, `ri.c`, file system | every system call can fail; killed between open and close; no lock on the directory | a whole identity is never lost; memory and disk agree |
| running router (`router.c`) | timer, peers, bootstrap file | run, tick, close | event loop, `ri.c` | runs every 5 s for ever over a file others write | no tick costs memory, none ends the process without need |
| ownership of the identity (`router.c`, `identity.c`, `ri.c`) | an identity that keys and router info share | regenerate, update, free | running router | two structures with a free of their own over one object | what is in use has not been freed |
| router info (`ri.c`, `iwp.c`) | identity, link, caps | load, verify, write, free | bencode, identity | half-loaded values, ownership | callers survive each outcome |
| transport muxer (`transport.c`) | three slots | register, deregister | transports | holes, taken names, no room | behaves as a set of names |
| tunnel table (`tunnel_context.c`) | chains of tunnels in buckets | put, get, remove, free | tunnels | a loop that stops one node early | the first tunnel of an id stays; what was put is freed once |
| bencode dict (`bencode.c`) | a chain in key order | dict_set, iter, free | codec | pointer juggling in the insertion loop | sorted, whole, calls end |
| bencode codec (`bencode.c`) | a file, a count that is an error flag too | read, write | identity, router info | files of others, files cut short | what is read was there |
| streaming bencode reader (`contrib/bencode/bencode.c`) | a stack of frames with buffers that outlive their use | new, dispatch | callbacks of its user | buffers cut anywhere; frames used again | callbacks depend on the text only, nest, and stay in their room |
| configuration (`config.c`, `mrouter.c`) | a file, a list of entries, `main_config` | generate, load, apply | main, editor | killed while generating, edited between steps | first line decides; own file loads |
| encodings (`encoding.c`) | none | base64, base32 | identity, netdb | padding, 8-bit arithmetic, room | inverse of each other, as defined |
| identities, certificates (`identity.c`, `cert.c`) | key, certificate | generate, read, text, hash, file | router info, router | lengths that include headers or not | whole or refused |
| Ed25519 reference (`contrib/ref10`) | limbs, words, points | field, scalars, groups, both multiplications, keypair, sign, open | SHA-512 | carries, bounds that are only in comments, one string per element, exceptional points | computes the field, the scalars and the group; opens what was signed and nothing else |
| tunnels, pools, garlic | | stubs | | | not modelled |
| crypto wrappers, log, memory, util | | libc and libraries | | | not modelled |

`main` reads the configuration, creates a router context, has it load (data
directory, keys, router info, network database) and runs the loop. The context's
timer asks the network database for its size and, below 20 peers, reads the
bootstrap file.

The build of the daemon takes neither of the two contrib libraries:
`CMakeLists.txt` names libsodium, through `eddsa.c`, for signatures, and
`mnet/bencode.c`, whose reader works on files, for bencode. The second half of
`contrib/bencode/bencode.c` (from line 376) is an older copy of
`mnet/bencode.c`. They are kept apart in the modules too: nothing of the daemon
rests on what is shown of them.

## Modules

Order of writing, most important behaviour first: hash map, its abstract map and
proofs; network database over it; start of the router and proofs; muxer, tunnel
table and proofs; bencode; configuration; encodings and identities; running
router and ownership; the streaming reader; Ed25519 from the field upwards; the
proofs of the network database and of the running router, then those of the
configuration, of the streaming reader and of Ed25519's points, multiplications
and signatures.

| Module | Models | Extends or implements |
|---|---|---|
| `NetdbMap` | what `netdb_hashmap.h` promises: a put-if-absent map | |
| `NetdbHashmap` | `netdb_hashmap.c` | implements `NetdbMap` |
| `Netdb` | `netdb.c` | conjoins the actions of `NetdbHashmap` |
| `NetdbProofs` | theorems about the hash map and the database | |
| `RouterContext`, `RouterContextProofs` | `router_context_load` and what it calls | |
| `Bootstrap` | run, close and tick of `router.c` with `ri.c` and `iwp.c` | |
| `RouterOwnership` | who owns the identity of keys and router info | extends `Bootstrap`: its calls interleave with ticks |
| `BootstrapProofs` | theorems about both | |
| `TransportSet` | what `transport.h` promises | |
| `TransportMux` | `transport.c` | implements `TransportSet` |
| `TunnelTable` | the hash table of `tunnel_context.c` | |
| `GarlicProofs` | theorems about both | |
| `BencodeDict` | the dict of `bencode.c` as pointers | |
| `BencodeCodec` | the reader and writer of `bencode.c` | takes the dict as `BencodeDict` shows it |
| `BencodeStream` | the streaming reader of `contrib/bencode` | |
| `BencodeText` | the text of a value and the callbacks it should give | extends `BencodeStream` |
| `BencodeProofs` | theorems about the dict and the streaming reader | |
| `Config` | `config.c` and `mrouter.c` up to the context | |
| `ConfigProofs` | theorems | |
| `Encoding` | `encoding.c` as operators | |
| `Identity` | `identity.c`, `cert.c` | extends `Encoding` |
| `Wide` | numbers larger than TLC's integers | |
| `Fe25519` | the field of 2^255 - 19 in ten limbs | over `Wide` |
| `FeChains` | the two addition chains | takes squares and products as `Fe25519` shows them |
| `Sc25519` | scalars modulo l in 24 words | over `Wide` |
| `Ge25519` | the formulas of `ge_*.h`, the field a parameter | |
| `SmallField` | a field of few elements that carry bounds | gives `Ge25519` its field |
| `EdGroup` | a caller of the points | `Ge25519` over `SmallField` |
| `EdScalarMult` | both multiplications | extends `EdGroup` |
| `EdProofs` | theorems about points, strings and digits | |
| `Ed25519` | keypair, sign and open | takes `Sc25519` and `EdScalarMult` as they are shown |
| `EdMultProofs` | theorems about the group, both multiplications and signatures | builds on `EdProofs` |
| `MC*` | the instances TLC checks | |

`MCDaemon`, `MCFormats` and `MCEd25519` put parts that share no state into one
run: the start of the router, its timer with the ownership of the identity, the
muxer, the tunnel table, and the configuration; the dict, the codec, the
streaming reader, and the identities with their encodings; the layers of
Ed25519. A behaviour is of one part, named by `part`, and the others stand
still. `MCRouterContext` and `MCBootstrap` are the instances of two parts of
`MCDaemon`, used alone by the runs that end in a violation; `MCIdentity` adds to
`Identity` what the encodings are compared with.

Mutants stand next to the definition they mutate, with a comment that names the
change. Each is a mistake that could plausibly be made there, and each property
below is violated by one of them.

### How the variables and actions correspond to the code

**NetdbHashmap.** `table` is the chain behind each anchor node, `sz` is
`map->sz`, `idx` and `pos` are the locals of `netdb_hashmap_for_each`, `pc` says
whether a map exists and whether an iteration is between two turns (`scan`) or
inside a callback (`callback`). `mem` follows each router info's ownership: a
router info freed twice, or freed while linked, would show. `seen` and `atStart`
are history. `InsertNew` and `InsertDuplicate` are the two ends of
`netdb_hashmap_insert`; both can be called between iterations and from inside a
callback, as can lookups and the size (`test_netdb.c:29` does lookups). The map
is not freed inside a callback and an iteration is not nested in another. `idx`
begins at `BUCKETS - 1`, as `while(--idx)` has it, and never is 0 inside the
loop. `netdb_hashmap_remove` has no caller; it is in `ApiSpec`, apart from `Spec`.

**Netdb.** `proc` is where the process is. `root`, `sub`, `content` are the
disk. Each system call on which a kill can fall is a step: the root, each
subdirectory, each listing, each file read, each entry written. `Ends` is a kill
or an exit anywhere: the map's variables go back to their initial values, the
disk stays. `Place` is another program that puts a node file into the tree.
`Parsable` is what `router_info_load` makes of contents, and is a parameter. As
built the bencode reader takes no string longer than one byte, so a real
`router_info_load` yields a router info without an identity; the run takes the
contract that a whole file is parsed, which is the more demanding case for the
map and the counts. `ReadBadEntry` is every other file that opens: its load, its
hash or its free ends the process. A file whose reading never ends (a dict whose
keys close a circle) is a behaviour in which that step is not taken and only the
kill is left.

**RouterContext.** `proc[d]` is the place of daemon `d` in
`router_context_load`, `priv[d]` its `privkeys`, `gen[d]` the keys
`regenerate_identity` holds until they are written. `keys` and `info` are the
contents of the two files. A file opened with `"w+"` is empty at once and gets
its bytes at `fclose`, which may fail or keep a part. A daemon that deletes
`router.keys` unlinks what another has open: `linked` says whose writes still
reach the name. `fault`, `cut` and `met` are history: a system call failed in
this start, the last writing was not completed, a daemon was started while
another was up. `Foreign` is what another program may have put in the place of
`router.keys`: a dict without entries, a list with items, a dict whose keys
`bencode_obj_dict_set` does not take; `ReadEnds` says where a start can end over
it, `hung` being an iteration over a circle, or a double free gone on with.

**Bootstrap, RouterOwnership.** A tick is atomic, as it is on the loop's thread.
The file is described by what `router_info_process` distinguishes (`kind`,
`caps`, `ident`, `iwp`) and by what reading it does (`reader`): all goes well,
`bencode_obj_dict_set` dereferences NULL, or it closes a circle. `LoadOutcomes`
follows `router_info_load` through the reader, the iteration and the free at its
end, which frees the items of a list a second time. The items of a dict are taken
by contract, as in `Netdb`: as built, strings have one byte at most, so no file
has an item of those names, and a dict that is read ends the process in
`router_info_base64_ident`. `infos` counts router infos left allocated, `reads`
the loads that returned and left the lines of `getdelim`, the nodes of the object
and the decoded bytes of the identity behind. The context gets its file by
`router_context_config`; the `-b` option of `main` is parsed and not passed on.
As built, `router_context_load` never reports success, so a daemon does not come
to this point; the module says what its loop does once it does.
`RouterOwnership` adds identities, numbered as they are allocated: `privkeys` and
`our_ri` say which one each structure points to, `gone` which have been freed.
`UpdateRouterInfo` and `UpdateRouterInfoNull` are `router_context_update_router_info` with a
configuration and without one, `FreeInfo` the `router_info_free` it makes of the
router info there is.

**TransportMux, TunnelTable, BencodeDict.** One variable per field or pointer.
In `BencodeDict` a step is one turn of a loop; nodes are numbered as they are
allocated and 0 is the head.

**BencodeCodec.** `Read` follows `_bencode_read` byte by byte with its position,
its count and whether memory is still sound; `ReadFile` and `WriteFile` are
evaluated by the properties over each file. `Freed` is what is left of an item
that the reader has freed and its list still has; an object with one is not
`Freeable`, and where the reader frees such an object itself, an item of a list
or of a dict, memory is not sound from there on. Bytes are ASCII codes. NUL bytes in
keys and lengths of more than 31 digits are left out.

**BencodeStream.** `reader` holds the stack of frames (`stk`, `d`), the callbacks
made so far and how the reader has ended, by an assertion or by refusing a
buffer. `Dispatch` is the entry of `bencode_dispatch_from_buffer` with its test of
the depth, `Feed` one turn of its loop, `Return` the end of a buffer, which can
come after any byte. `value` and `rest` are the value whose text is fed; without
one, any bytes are fed. A frame keeps its key and its buffers when it is popped,
as in the code, and its next use finds them. The numbers of a text do not
overflow.

**Config.** The file is a sequence of tokens, a word being one token; the line
buffer holds `LineMax` tokens for 1023 characters. `GenOpen` and `GenClose` are
the two ends of `mnet_config_gen`; the second may leave any beginning of the
text on disk. The editor does not write while `main` is reading. A HOME that is
empty (an assertion in `path_join`), and the options of the command line, are
left out.

**Encoding, Identity.** A character is its place in the alphabet, so the two
tables are the identity on numbers; a byte is a number below 256. `KeyLen` is 4
for the 32 bytes of a key, `DataMax` 12 for the 128 of the buffer: the same
relation of key, certificate and buffer with fewer bytes. The three bytes read
past the end of a short certificate are zero, as the decoder's buffer is zeroed.
Texts the decoder answers with -1 are not handed to `FromBase64`, and
certificates of more than 65532 bytes are left out.

**Ed25519.** `Fe25519`, `FeChains` and `Sc25519` compute over the real numbers:
32-bit limbs are TLC integers, which refuse what does not fit, and 64-bit words
are numbers of `Wide`. In `Fe25519` `acc` is an element in limbs, `ref` the
element it should be, `bnd` the bound a comment promises for its limbs, and an
action one call of `fe_*`. In `FeChains` a register holds the exponent of its
power of z and a step is a call. In `Sc25519` a step is a line of the schedule
that `sc_reduce` and `sc_muladd` share. The points are checked over a small
field, where every point of a curve can be tried: an element of `SmallField`
carries the bound of its limbs, and a call that its callee's bounds do not allow
gives a `Wild` element that shows. `EdScalarMult` keeps the 256 bits of scalars, a
step being a turn of a loop; the tables of `base.h` and `base2.h` are computed
from what they are said to hold. In `Ed25519` SHA-512, which is OpenSSL's, is a
function chosen as it is asked that remembers its answers.

## Runs

States are distinct states.

| Run | Instance | States | Asks |
|---|---|---|---|
| `hashmap` | 3 buckets, 4 idents, 5 router infos, 2 of one ident | 49,495 | is the table a map, and an iteration sound and finite while its callback inserts |
| `hashmap_visit` | same | violation | is every item visited |
| `hashmap_remove` | same, with remove | violation | is what was removed gone |
| `netdb` | 2 buckets, 2 subdirectories, 4 files | 88,062 | do memory and disk agree, whatever was killed when |
| `daemon` | start: 2 daemons, 2 keys; timer: every file, 19 and 20 peers, 3 identities; muxer: 3 slots, 5 transports, 2 of one name; tunnels: 2 buckets, 4 ids, 4 puts; configuration: 3 edits of 7 pieces, 2 starts, 6 environments | 977,749 | is an identity safe; what a tick costs, and who may free the identity; is the muxer a set; what put's short loop costs; which line decides, and does the own file load |
| `router_crash` | 1 daemon, 2 keys | violation | does a load return |
| `router_loaded` | 2 daemons, 2 keys | violation | is what counts as loaded a whole file |
| `bootstrap_crash` | the timer's part of `daemon` | violation | is a file that does not do reported |
| `formats` | dict: 4 keys, 4 sets; files: 5 chunks of 8 kinds, 6 objects the program writes; stream: values up to three levels in 2 frames, other texts up to 7 bytes of 8; identities: 3 keys, certificates of 0 or 2 bytes; encodings: 4 byte values up to length 6, 6 characters up to length 8 | 2,344,961 | what a dict is after any sequence of sets; what can be read of any file; are values reported whatever their buffers; are texts whole, and the encodings right |
| `bencode_own` | same | violation | is what was written read back |
| `bencode_list` | same | violation | can what was read be freed |
| `ed25519` | 5 elements and 4 corners, 2 operations; 6 long scalars and 3 triples; the 40 points of a curve over 37 and B of order 5, 2 calls, 10 multiplications, 3 hashes, 2 messages | 58,662 | do the limbs, words and formulas compute what their names say |

### Why the bounds are enough

- `hashmap`: one bucket has two colliding idents, bucket 0 one, another bucket
  one, and one ident has two router infos: collision, duplicate, the skipped
  bucket, and inserts before, into and behind the place of an iteration all
  happen. The theorems drop the bound.
- `netdb`: one file in each of the states none, readable, not to be opened, not
  to be parsed; two of one ident in two directories; a flush that meets bucket 0
  and a chain of two. The theorems drop the bounds.
- `daemon`, start: with two daemons each step of one falls between any two of the
  other; a third adds no new content of the files. The theorems drop the bound.
- `daemon`, garlic: the code has three slots. Four puts give a chain of four in one
  bucket with every pattern of repetition. The theorems drop both bounds.
- `daemon`, timer: counts stop at `MaxInfos`, 3; the property compares two of them
  and asks whether the third is 0. Three identities (`MaxIdents`) are one before,
  one with and one after the router info that shares it. The theorems drop the
  bounds.
- `daemon`, configuration: three pieces make two entries for a key, or an entry, a blank and a
  comment, or a line longer than the buffer, before, behind or instead of a
  generated file or part of one. For `FirstLineWins` the theorem drops the
  number of edits, the pieces and the length of the line buffer.
- `formats`, bencode: for the dict, a chain of three with a key put in front, in between
  and behind is the first that shows every case; `MaxNodes` 4 gives one more on
  each side, and the theorems drop the bound. For files, `MaxChunks` 5 holds a
  dict with two items, a list in a dict, and each of them cut short. For the stream, `Depth` 2 lets values go one
  level above, up to and not up to the last frame; `FirstRoom` is 2 where the
  code has 20, so that a text of seven bytes (`MaxFree`) or a string of three
  makes a buffer grow, and the formula of the growth is kept. For `WritesInRoom`
  the theorem drops these bounds too.
- `formats`, encodings: six bytes are two groups of three and every remainder; eight
  characters are two groups of four. The four byte values set no bit, the
  lowest, a mix and all of them.
- `ed25519`: the elements are those at which carries and the quotient by p turn,
  and the corners are limbs as large as comments allow, of one sign and of both.
  Two operations (`MaxOps`) bring each of them into every call as both operands
  and its result into the next. The chains have no bound: each is run to its
  end, with `out` apart from z and in its place. Scalars are 0, l, its
  neighbour, a large multiple, all ones. The curve has points of order 1, 2, 4
  and 8 and of B's odd order, as the real one has; `Q` = 37 is 5 modulo 8 as
  2^255 - 19 is, so that the square root takes all its branches, and d is no
  square, so that the formulas are complete. The theorems drop the field, the
  curve and the number of calls for points and their strings; the scalars, A, B
  and the number of points for the multiplications; L, the bounds of scalars,
  the hash and the messages for signatures. The limbs and the words are sampled:
  TLC cannot go through 2^255 of them, and of these the run shows no more than
  that.

`CHECK_DEADLOCK FALSE` stands in `daemon`, `formats` and `ed25519`, where bounded
calls or starts run out, a table has been freed, a computation is done, or a
crashed process stays crashed. Everywhere else a deadlock would be reported.

### What the properties say

- **Hash map.** `NoDanglingRI`: between any two callbacks. `NoIdentTwice`,
  `ResidentsVisited`: an iteration hands out each ident at most once, and all that were there when it began, bucket 0 excepted.
  `ImplementsMap`: as a caller sees it; `ForEachEnds`: see fairness. `SizeExact`,
  `OneNodePerIdent` and `FirstInsertWins` are proved and not run: the first is
  part of `LoadAgreesWithDisk`, the other two show in `ImplementsMap`.
- **Network database.** `SkiplistComplete`: whatever was killed, no
  subdirectory is missing after a start. `LoadAgreesWithDisk`: what is in memory
  and what is reported follow from the disk, not from the order of the listing;
  the count of files and the count of idents differ by the router infos that a
  load leaks. `FlushDamage`: a flush that fails leaves one file at most without
  what it had, and does not report success; a flush that rewrote its files would
  keep it as well. That this flush never writes one is not stated by it.
- **Start.** `KeysStay`: no step of a daemon changes or deletes a whole
  `router.keys`. `MemoryAgrees`: no daemon holds keys that the next start will
  not find. Both are claimed as long as no two daemons were up at once, and the
  second not after a failed write: what happens to two daemons and to a cut file
  is not in them but in `LoadedKeysAreWhole`, which fails.
  `BadKeysAreCut`, that an unreadable file comes from a
  kill or a full disk, is part of what is proved.
- **Running router.** `LeaksAreUnopened`: in a process that runs, and has tried no
  bootstrap, memory is lost only to ticks that could not open the file. Reading one
  leaves more than that behind, but no tick that reads one is survived
  (`NoFileIsSurvived`, proved; `BadFilesAreReported` fails). `IdentityOutlivesUse`: keys and router info never point to an
  identity that is freed, while the process runs.
- **Muxer.** `ImplementsSet`: holes are found again, and names behind them too.
  **Tunnel table.** `AdjacentCopies`, `FirstStays`: put misses the last node of a
  bucket, which costs at most one more copy of an id, right behind the first, and
  never hides a tunnel. `FreedAsTaken`: each tunnel is freed as often as it was
  taken.
- **Dict.** `SortedOrCircular`: whatever the sets, the chain is whole and sorted
  or closed to a circle. `CrashForLargest`: on one that is no circle a call ends
  the process for no other set than one of a key not below any there; that each
  of those does, and which sequences close a circle, is not claimed. `CallsEnd`:
  on a chain that is no circle.
- **Codec.** `ReadWithinFile`: the count never exceeds the file. It is an upper
  bound only; an error may be lost in it (see below).
- **Streaming reader.** `ReportsValue`: a value is reported by the same callbacks
  in whatever buffers it comes, items of a dict with their key, and it is refused
  or ends the process only for its depth. What key the others come with is
  left open (see below). `EntersAreOpen`: over any bytes, enters and leaves nest as
  the frames do, until the value at the bottom is left. `WritesInRoom`: no byte goes past a
  buffer, the terminator included, however often a frame was used before.
- **Configuration.** `FirstLineWins`: of any file, a cut one included.
  `OwnFileLoads`: of a whole generated file; a cut one sets less.
- **Identities and encodings.** `PlainHashIsOfSource`: of identities whose
  certificate has no data; of the others, see below.
  `OwnTextIsAccepted`: accepted, though the text names another identity;
  `EncodesInDigits` and `DecodeInverts` against a definition by bits.
- **Ed25519.** `FieldAgrees`: limbs stand for the right element, in the bounds
  that comments promise, and products stay in 64 bits. `OneString`: however an
  element is held, it is written as its least bytes. `ChainMeets`: the chains end
  with p - 2 and (p - 5) / 8. `ScalarReduced`: each line of the schedule keeps
  the scalar modulo l, and the result is the least. `PointsAdd`,
  `StringsArePoints`: the formulas are the group's for every two points and keep
  limbs within what the next call takes, and strings are points or refused.
  `DigitsHaveEntries`: a digit of a scalar never chooses beyond a table.
  `MultiplesAreReached`: windows keep the scalar
  and the loops return its multiple. `OpensAsSigned`: what was signed opens, and
  what opens satisfies the equation over the very strings it was given.

### Where the code and its comments disagree

Seven disagreements have runs of their own, each the violation of what the
quoted line says:

- `hashmap_visit` (`EveryItemVisited`): `for_each` skips bucket 0
  (`netdb_hashmap.h:55`).
- `hashmap_remove` (`RemovedIsGone`): `remove` leaves the first node of a chain
  linked (`netdb_hashmap.h:52`).
- `router_crash` (`LoadReturns`): a start that has made its keys crashes and does
  not return (`router.h:37`).
- `router_loaded` (`LoadedKeysAreWhole`): a start logs "loaded router identity
  private keys" (`router.c:101`) over a `router.keys` that is empty or cut,
  though `router.c:109` provides for one. A kill or a full disk leaves such a
  file, and with two daemons up so does the second: it regenerates what it did
  not find (`router.c:76`) and truncates what the first has written and loaded
  since.
- `bootstrap_crash` (`BadFilesAreReported`): a bootstrap file that does not load or
  verify ends the process where `router.c:188` and `:194` report it.
- `bencode_own` (`OwnDictIsRead`): the reader leaves out the first digit of a
  length and takes strings of one byte at most, so it refuses what the writer
  wrote (`bencode.h:138`, `router.c:97`).
- `bencode_list` (`ReadCanBeFreed`): list items are freed by the reader, although
  `bencode.h:101` says they are copied, and again with the list by every caller.

The others can be read off definitions, and the passing properties state what
holds instead or leave them open:

- `mnet_netdb_flush_to_disk` writes no entry: `router_info_write` puts the ident
  into an object in memory and returns 0, so a flush that meets an entry truncates
  its file and fails (`netdb.h:37`; `Written`).
- A start over a `router.keys` that is a list crashes or goes on after a double
  free, and over a dict in an order of keys the reader cannot take it crashes or
  never ends; neither returns 0 (`router.h:37`; `ReadEnds`).
- An item's error is counted on from -1 by the bytes behind it, so a list or a
  dict with such an item is read without an error (`bencode.h:138`; `ReadList`).
- The streaming reader reports items of a list with the key that their frame
  held before, or with a buffer nothing was written to
  (`contrib/include/bencode.h:34`; `Tell` has NULL there, and `Agrees` compares
  the keys of dict items only).
- A certificate of up to three bytes more than there are is read, the length in
  its header being compared with one that has the header in it (`identity.h:16`;
  `CertReadBuffer`).
- `mnet_netdb_find_router_info` does not load from disk (`netdb.h:34`); a bad
  node file ends the process in `router_info_free`, where `netdb.c:100` counts
  it (`ReadBadEntry`); a subdirectory that `opendir` refuses for another reason
  than ENOENT counts as ensured (`netdb.h:40`).
- `router_context_update_router_info` frees the router info and then reads
  through a configuration that is NULL, though `router.h:47` says that it does
  nothing then (`UpdateRouterInfoNull`). With a configuration, the second call for the
  same keys ends the process, as a generated router info has no link
  (`FreeInfo`). The identity it shares with the keys is freed just before: that
  no one frees it again is owed to the crash alone (`IdentityStays`).
  `mnet_identity_keys_free` frees the signer and not the identity, and
  `router_context_free` neither keys nor router info.
- `bencode_obj_dict_set` crashes for a key that is not below one the dict has,
  or closes the chain to a circle (`bencode.h:81`, `:76`; `CrashForLargest`,
  `SortedOrCircular`). Writing or cloning a list recurses without end
  (`Writable`, `Clonable`).
- The streaming reader takes an `e` where a key should begin for the end of the
  key's frame: an empty dict stays open, and its `e` is its first pop
  (`InKeyLen`). A key of length zero takes all the bytes that follow. A minus sign in a number, a
  byte it does not expect in a length, and a value deeper than was announced run
  into assertions. When all frames are in use at the end of a buffer, the next
  buffer is refused (`Dispatch`), so where the text is cut decides. Bytes after
  the end of the value at the bottom are read as more of it (`Over`).
- The data directory of the generated file has a key nothing reads, the one in
  a file is replaced by the key's name, and `$MNET_ROOT` is copied to a NULL
  pointer (`FirstLineWins` states all three). A configuration file written
  between `check_file` and `fopen` is truncated (`mrouter.c:97`).
- The text of an identity has its certificate over the beginning of the key
  (`OwnTextIsAccepted`); a certificate with data is read with a length of zero
  in its header (`PlainHashIsOfSource` is about one without); an identity is
  never read from a file (`identity.h:18`; `ReadFile`).
- A bootstrap router info is never tried: its length is not set, so it does not
  verify (`router.c:183`).
- Deregistering a transport that was refused for its name takes out the one that
  has the name (`transport.h:27`; `TransportSet` says so too).
- In `contrib/ref10`, `ge_add.h:90` hands `fe_add` elements beyond the bound that
  `fe_add.c:7` asks for; what comes out is still within what `fe_mul` takes
  (`PointsAdd`). The comment of `fe_isnonzero` says 1 for zero and 0 for the rest, and
  it returns 0 for zero and -1 for the rest. `slide` loses
  the carry of a scalar with its top bit set, which no caller has
  (`MultiplesAreReached` leaves such scalars out). `ge_frombytes` accepts x = 0
  with a sign bit (`StringsArePoints`).

## Fairness

Two specifications have it. `NetdbHashmap!FairSpec` is weak fairness of
`Iterate`, a turn of the loop of `for_each` or the return of a callback: the loop
runs on the only thread, nothing else of the process runs until it returns, and
a callback that does not return is not `for_each`'s matter. `ForEachEnds` needs
no more, because a router info can be inserted only once. `BencodeDict!FairSpec`
is weak fairness of `Step`, a turn of a loop in a call that has begun;
`MCFormats!MCSpec` keeps it for the part of the dict. No fairness is assumed of
callers, editors, other daemons or the disk.

## Proofs

TLAPS checks the following for every value of the constants. The only
assumptions are the named ones in the modules: the hash of an ident is a bucket,
the sets of idents and of files are finite, what is damaged is no router info,
the marks for missing keys are no keys, a line buffer holds something, texts are
sequences of tokens or bytes, what `FieldAssumption` says of a field, that no Z of
a given point is 0 (`ScaleAssumption`), that some number of times every point is
neutral (`OrderAssumption`), that scalars are 32 bytes and A is on the curve
(`TasksAssumption`), and that L is the order of B and has no more bits than S may
have (`SignAssumption`). TLC evaluates each of them on a run.

**NetdbProofs: hash map.** `Inv` is `TableInv /\ NoIdentTwice /\ IterInv`. The
properties alone are not inductive: that an iteration hands nothing out twice
depends on where it is. `IterInv` says that what was handed out so far is exactly
what lies behind the place of the iteration, in the buckets passed and in the
first `Reach` nodes of the current one. One lemma carries the argument:
`InsertionAppends`, an insert appends one node to one chain and leaves
everything else where it was, so it can fall before, into or behind the place of
the iteration and change nothing of what is behind. Theorems: `TypeCorrect`,
`InvHolds`, `TableIsSound`, `InfosAreAlive`, `NoneVisitedTwice`,
`IterationVisits`, `FirstInsertStays` (a lookup takes the first hit and there is
only one) and `TableImplementsMap` (each action maps to one of `NetdbMap` or to a
stutter, the map being what `Lookup` finds).

**NetdbProofs: database.** `StepOfTable` connects the table with the database: every step of the
database is a step of the table, leaves it alone, or ends the process and with it
the table. So `TableInv`, with all that the hash map's proofs say of it, is an
invariant of the database, across any number of kills and restarts, and the rest
of `NInv` is about what lies between disk and table. `TreeInv`: below the
subdirectory that `ensure_skiplist` is at, none is missing, whoever made it.
`LoadInv` goes by `Done`, the files that `load_all` is through with: the bound
idents are those of the readable ones among them, each to one of their router
infos, and the two counts are their numbers; nothing in it depends on the order
of a listing, and when nothing is left to list or read, `Done` is all that is
listed. `CallInv` and `FlushInv`: the callback of a flush has an ident that is
bound and not of bucket 0, and once a file may have changed, the result is 0,
which keeps the later calls from opening another. Theorems: `NInvHolds`,
`TreeIsCompleted`, `LoadIsOfDisk`, `FlushDamagesOne`.

**RouterContextProofs.** `IInv` is `Local /\ (~met => Apart)`. `Local` says of
each daemon that it holds no keys before it has opened the file, and holds some
while it writes. `Apart` is what one daemon at a time adds: one is up,
`router.keys` is opened only when it is missing or the opener's own, an
unreadable file was cut, memory agrees with disk. `met` never becomes false
again, so the steps of a daemon that is not alone need only `Local`. Theorems:
`InvHolds`, `MemoryIsOnDisk`, `IdentityStays`.

**BootstrapProofs.** `ReadEnds` goes through what reading, hashing and freeing
make of a file. A load that returns leaves no link, because the iwp dict of two
entries that makes one is not cloned, so the free of the router info ends the
process; and none verifies, which alone would keep it from being freed.
So what is inductive for `LeaksAreUnopened` is `Books`: while the process runs,
each tick has counted a router info and an unopened file together, and no read.
`IdentityOutlivesUse` is not; what is inductive is `NothingGone`, a process that
runs has freed no identity at all, because the one free there is ends it.
Theorems: `LeaksAreBounded`, `IdentityStays`, and `NoFileIsSurvived`.

**GarlicProofs.** Of the muxer, `MuxInv` is `MuxTypeOK /\ OneSlotPerName`. Theorems:
`OneOfAName`; `RefusalHasCause`, by counting used slots; `MuxImplementsSet`, the
registered set being the contents of the used slots, whose number is theirs
because of `OneSlotPerName`. Of the tunnel table, `TableInv` is `Chains /\
AdjacentCopies`: put compares all but the last node, so a second copy can only
follow a first that is last, and a third is refused. `Books` adds that while the
table lives a tunnel has been taken as often as there are nodes with it; a put
that is taken adds one pair of bucket and place to them (`PutAddsOne`). Theorems:
`AtMostTwoCopies`, `FirstTunnelStays`, `FreesAsTaken`.

**BencodeProofs.** Of the dict, `DInv` is `DTypeOK /\ Shape`, and a dict has one
of two shapes. In a `Chain` the head points at the newest node, each node at the
one put before it, and the keys ascend: an insertion while the two pointers
differ is at the front, with a key below all others. Otherwise the pointers are
the same, and the insertion ties the node it stopped at and the new one to each
other, which leaves a `Circle`, a set of nodes that lead only into itself;
nothing opens it again. `SeekInv` is what the loop knows in a chain (all keys it
has passed are not above the new one, which a crash at the NULL behind the last
makes true of all of them), `FreeInv` that a free has freed only what is above
it. What a walk can reach follows from the shape: `CircleIsCircular`, and
`ChainIsLinked`, which takes the last node that a walk could leave out.
Theorems: `DictIsSorted`, `CrashHasCause`.

Of the streaming reader, `SInv` is about every frame of the stack and not only
the one on top, since a pop uncovers what an earlier push left behind. Each
frame `Fits` its buffers; each that has been pushed has a buffer for keys
(`kroom > 0`), and the one at the bottom, which never is pushed, reads no key,
so the terminator of a key of length zero is never written to a NULL pointer; a
buffer is taken only when there is a frame to push. One lemma for each state of
`__process_tok` shows that a byte keeps this. Theorem: `WritesStayInRoom`.

**ConfigProofs.** The first line for a key decides only at the end of two
passes in opposite directions, so `CInv` says where the value is on its way.
While the file is read, the last entry in the list for a key is its first line
so far (`ListedSoFar`): entries are put at the head. While the list is gone
through, the value that decides is still in it, behind all others for the key,
or has been taken (`Decided`). That the lines which `fgets` cuts are those of
the definition, whatever the length of the buffer, is `LinesAbut`: the next line
begins exactly where one ends. Theorem: `FirstLineDecides`.

**EdProofs.** `FieldAssumption` says that `Q` is 5 modulo 8, that powers invert
as Fermat's theorem has it, and that neither D nor Root, a square root of -1, is
a square; each holds of 2^255 - 19 and its curve, and TLC evaluates them for the
field of its run. Numbers are compared by `a \cong b`, equal modulo `Q`.

- `Complete`: the denominators 1 + t and 1 - t of a sum are never 0. If one were,
  then t^2 = 1, and the equations of the two points would make D or Root a square
  (`SquaresMeet`, `NoSquareTimesD`). So the formulas have no exceptional case, and
  `SumIsOnCurve`, an identity of polynomials, keeps sums on the curve.
- `Worth` ties an element to a number; `Represents` a point in four coordinates
  to one of the curve, for some z that is not 0; `Completes` the four values
  between. `AddCompletes`, `MaddCompletes` and `DoubleCompletes` take the formulas
  line by line. The inductive invariant is `Stands`: `stands` is on the curve,
  `point` represents it, and its limbs are as tight as a product's, which is
  what lets the next formula add before it multiplies. Theorem:
  `SumsAreOfTheGroup`.
- A string is read through a candidate for the square root whose fourth power is
  that of the right one (`CandidateMeets`), so it is right up to a fourth root of
  1; two of the four are mended by sqrt(-1), and the other two occur exactly when
  there is no root (`ReadSays`). A string is written from the parity of x, which
  the opposite of x does not have (`OppositeParity`), and a y leaves two x
  (`TwoRoots`, `WriteSays`). Theorem: `StringsNamePoints`.
- `DigitInv` follows digits through the loops that make them. For the base
  point it is `Recoding`: below i digits are between -8 and 7, above they are
  nibbles, and the carry between is at most 1; that the top one is at most 8
  needs the top bit to be 0, as `TasksAssumption` says and the comment of
  `ge_scalarmult_base` asks. For two scalars it is `Slidden`, with `Taking` for
  the window in progress: a digit is 0 or odd and at most 15 in magnitude, so its
  half is one of eight. Theorem: `TablesAreReadInside`.

**EdMultProofs.** Nothing here is bounded by an instance: scalars have 256 bits,
the field and the curve are any that the assumptions allow.

- The group. That a sum of three points does not depend on the brackets is an
  identity between two fractions of polynomials in six variables; `SumOfThree`
  brings both sides to one form, and `SidesMeet` writes their difference as a
  combination of the equations of the curve. With `SumAssociates` and
  `SumWithOpposite` the curve is a group, and `Times`, the multiple by any integer
  modulo `Order`, is additive. The functions that the modules define by recursion
  over data are shown to be what their equations say by `Recursion`, from the
  well-founded order of the naturals, and `UpTo` is induction up to a bound.
- The digits. A turn of a loop that rewrites digits moves what it takes from one
  place to the next as a carry, and carries compose (`Carried`, `CarriedOn`):
  `RecodedCarries` for digits of base 16, `SlideCarries` for windows, where `Room`
  says that there is a zero above for the carry to end in. `BitsMakeValue` and
  `DigitsMakeValue` go back from bits and digits to the bytes.
- The tables. `SelectSays`: the loop of `select` over all entries of a row leaves
  b * 256^pos * B, or its opposite, or the neutral point. `AiIs`: Ai holds A, 3A,
  ..., 15A.
- The loops. `MultInv` is `BaseSums` or `DoubleSums`: h is the multiple that the
  digits so far make, in whichever order the loops go through them (odd places,
  times 16, even places; from the top down, doubling). Digits at the end make the
  value of the bytes, and h is its multiple. Theorem: `ScalarsMultiply`.
- Signatures. `SignKept` says where what is in `sig`, `pk` and `made` came from:
  some nonce and some answer of the hash, which is still remembered. From it and
  the group: a written key is read as the opposite of its point (`KeyRead`), so
  h * A cancels h * az * B in what was signed (`MadeChecks`), whatever is reduced
  modulo L on the way (`ReducedIs`); and an S that checks for the same R and key
  is another multiple of B with the same value, so it differs by a multiple of L,
  which is the least that gives the neutral point (`LeastOrder`). Theorem:
  `SignaturesOpen`.

Only model-checked:

- `ForEachEnds`, `CallsEnd`: liveness under fairness is out of the prover's reach.
- `ReadWithinFile`, `ReportsValue`, `EncodesInDigits`,
  `DecodeInverts`, `PlainHashIsOfSource`, `OwnTextIsAccepted`: the readers and
  encoders they are about are recursive operators, on which the prover has no SMT
  backend, and what they return for every input needs induction over data.
  `EntersAreOpen` relates all the callbacks made so far to the stack, by a fold
  over them. `OwnFileLoads` is about one text, token by token, and needs a line
  buffer that holds its lines.
- `FieldAgrees`, `OneString`, `ChainMeets`, `ScalarReduced`: sums of limbs and
  words, with carries, for the numbers 2^255 - 19 and l themselves, which the
  prover's arithmetic does not take.

## Not modelled

- Tunnel pools, tunnels and garlic messages are stubs without state changes; iwp
  sessions and the server are declared and have no code.
- The crypto wrappers, logging, memory and path functions have no protocol of
  their own. SHA-512 and signatures of the daemon come from libraries.
- The composition of the start of the router with the network database and the
  running router: as built no start reaches the database (`router_crash`), so a
  composed module would have no behaviour beyond those of its parts. Each part is
  modelled for what it does once it is reached.
- The tables `base.h` and `base2.h` of the Ed25519 reference, number by number:
  they are computed from what they are said to hold.
- The second half of `contrib/bencode/bencode.c`, an older copy of
  `mnet/bencode.c`, which is modelled; its test framework.
- `mnet_netdb_find_router_info` is modelled as the lookup in memory it is: it has
  no step at which another program's write to the node file could matter, though
  `netdb.h:34` promises to load it.

## Plan from here

1. When `router_context_load` returns 1, compose `RouterContext`, `Netdb` and
   `RouterOwnership`, the peer count that `Bootstrap` takes as given then being
   the database's.
2. When `router_info_write` writes, replace `Written` by what it leaves, and let
   `Parsable` be what `BencodeCodec` reads of it; that a flush which succeeds has
   written every resident should then hold, and a flush and a load restore the
   table.
3. As the code comes to do what its comments say, the runs that end in a violation
   become runs that pass, their properties being stated as the comments have it.
4. Prove of `Sc25519` and `Fe25519` what `Ed25519` and `EdGroup` take from them;
   that needs numbers wider than the prover's arithmetic handles by itself, limb
   by limb, as `Wide` has them.
5. Split `Identity` from the recursive operators of `Encoding`, and prove what of
   it needs no induction.
