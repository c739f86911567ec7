# A verification of cocoagit

Cocoagit is an implementation of git in Objective-C: it reads repositories
(loose objects, packs, refs), walks histories, serves them over the git
protocol and fetches from other servers, over SSH with the libssh2 it carries
in its tree. This directory holds TLA+ modules
that model its core, the TLC configurations that check them on small
instances, and theorems about them that TLAPS checks. All source paths below
are relative to `src/Source/`.

Run the tools in this directory: `tlc -config X.cfg M` for a run,
`tlapm M.tla` for the proofs of a module. `PROJECT.json` maps every definition
to the lines it models, and lists the runs, the seeded faults that show each
property can fail, the hazards, the findings and the theorems.

## 1. The system

The program is single-threaded and synchronous. The server takes its
connections one after the other on one run loop. What makes it hard to get
right is elsewhere:

- *the repository belongs to others too*: git processes update, pack and prune
  refs and objects between any two file accesses of a call;
- *state outlives calls*: flags and counters in the nodes of a graph, caches of
  refs, the list of packs, the store and the pack of the last hit; callers
  combine the calls in orders no test tries;
- *exceptions*: `setObject:nil`, a range beyond the data or a failed `NSAssert`
  leave a call half way, and its caller may go on;
- *connections come in pieces*: libssh2 is written so that every function can
  say EAGAIN in the middle and be called again; where it was is kept in some
  fifty `..._state` members, and what arrives for one caller is read by
  another;
- *answers come late*: a call that gives up, or fails, leaves its answer to the
  calls that follow;
- *boundaries*: the ends of binary searches, the last object of a pack, the
  sizes a format writes as 0.

### Components

| Component | State | Operations | Interacts with | What makes it correct |
|---|---|---|---|---|
| Commit graph (`Graph/GITGraph.m`, `GITNode.m`) | nodes by sha1; edge lists of each node; its indegree and two flags | build from a commit, three sorts | loads parents through the repository; called by git-rev-list | the graph is the history, every order lists each commit once and keeps its constraint, in any order of calls |
| Commit enumerator (`Graph/GITCommitEnumerator.m`) | queue, visited set, started flag | queue a start, next object | loads parents through the repository | complete, no repeats, breadth or depth first, ends |
| Ref store (`Stores/GITRefStore.m`, `Refs/GITRef.m`) | ref cache, unresolved symbolic refs, two "fetched" flags, whether packed-refs existed | seven lookups, write, invalidate | the files under refs/, HEAD, packed-refs, shared with git | no ref missed, no value a ref never had, links resolved |
| Object stores (`Stores/GITFileStore.m`, `GITPackStore.m`, `GITCombinedStore.m`) | opened packs, last pack hit, stores and last store hit | open, add a store, two lookups, write | loose files and packs, shared with git; pack files | an object that is there is found, damage is reported, nothing else fails |
| Pack index (`Packs/Index/`) | none after opening (file mapped); a lazily built reverse index | offset of a sha1, next offset | pack file | finds exactly what is indexed |
| Pack file and deltas (`Packs/File/`, `Categories/NSData+Patching.m`) | none after opening | load an object | pack index; zlib | the contents are the original ones, through any chain of deltas |
| Class clusters (`GITPlaceholderPack*.m`) | none | pick a class for a version | | |
| Server (`Network/GITServerHandler.m`, `GITServer.m`) | per connection: refs to read and write, objects needed, base objects | upload-pack, receive-pack | object stores, ref store, client | what it acknowledges is stored; what it sends is complete |
| Client transport (`Network/GITTransport.m`, `GITSshTransport.m`, `GITClient.m`, `GITFetchProcess.m`) | the stream's buffer and the place in it | packets, refs, pack stream | a server; SSH or a socket | reads what was sent, notices a torn stream |
| Repository (`GITRepo.m`) | its stores | forwards | all of the above | |
| Object types (`Types/`, `Refs/GITBranch.m`) | lazily loaded parts | parse, load | repository | |
| SSH wrappers (`Utils/SSH*.m`) | a session | connect, log in, run a command, read, write | libssh2 | every call ends, or the connection is lost |
| SSH transport (`libssh2/src/transport.c`) | a read buffer, the packet being collected, the rest of one being sent, sequence numbers | read a packet, write one | a socket; `packet_add` | packets arrive whole, once, in order, under the right keys |
| SSH packets (`libssh2/src/packet.c`) | the brigade of packets nobody has asked for yet | add, ask, require, burn | transport, channels, key exchange | an answer goes to who asked |
| SSH key exchange (`libssh2/src/kex.c`) | what was agreed on; states | begin, go on | packets | both ends change keys at the same packet |
| SSH login (`libssh2/src/userauth.c`) | a state per method | five methods | packets | a user is in when the server says so |
| SSH channels (`libssh2/src/channel.c`) | channels, two windows each; listeners and their queues | open, request, read, write, flush, close, free, listen, accept, cancel | packets | streams in order, windows that agree at both ends, none lost |
| SSH session (`libssh2/src/session.c`) | all of the above | start, disconnect, free | a socket | |
| SFTP (`libssh2/src/sftp.c`) | packets not asked for yet, the part of one, a state per function, handles | calls on paths and handles | a channel | answers go to who asked, files are read and written in order |
| SCP, public keys, algorithms (`libssh2/src/`) | | | channels; crypto libraries | |
| Value helpers (`GITUtilityBelt.m`, `Utils/`, `Categories/`) | none | conversions | | |
| Tools (`Tools/`), Ruby and Nu bindings, vendored sockets | | | | |

### How they interact

`GITRepo` owns a `GITCombinedStore` (the file store asked first, then the pack
store) and a `GITRefStore`. An object lookup goes combined store → file store →
pack store → each pack file → its index → the chain of deltas. `GITGraph` and
`GITCommitEnumerator` load commits by sha1 through the repository, and a commit
they cannot load is `nil`, which raises where it is put into a dictionary or an
array. `GITServerHandler` reads refs and objects through the repository, and
writes what a push sends with `writeObject:type:error:` and
`updateRef:toSha:error:`.

`GITSshTransport` makes an `SSHSession` and runs one command on an
`SSHChannel`. Both call libssh2, in which every function that waits calls
`libssh2_packet_read`, for whatever packet comes: `libssh2_packet_add` carries
out what concerns the connection or a channel at once — windows, ends of
streams, channels the server opens, a new exchange of keys — and puts the rest
in the brigade, where the function it is for will find it. So any call may do
part of another's work. SFTP does the same once more over one channel.

## 2. Plan

The order is that of the program's own weight: histories first, then what the
repository shares with git, then the formats under it, then the network.

| Step | Modules | Composes or refines | State |
|---|---|---|---|
| 1 | `CommitHistory`, `CommitGraph`, `WorkListTheorems`, `CommitProofs` | | checked and proved |
| 2 | `CommitEnumerator`, `CommitProofs` | over the same histories | checked and proved |
| 3 | `RefStore`, `RefStoreProofs` | store and git over one set of files | checked and proved |
| 4 | `ObjectStores`, `ObjectLookup`, `ObjectStoresProofs` | `ObjectStores` implements `ObjectLookup`; stores and git over one set of files | checked and proved |
| 5 | `PackIndex`, `PackFile`, `PackFileProofs` | `PackFile` extends `PackIndex` | checked and proved |
| 6 | `PacketPipe`, `SshTransport`, `SshProofs` | `SshTransport` implements `PacketPipe` | checked and proved |
| 7 | `SshPackets`, `SshKex`, `SshUserAuth`, `SshChannels`, `SshSession` | functions of one session, each over the ones before | checked |
| 8 | `SshServer`, `SshClient`, `SshKeyProofs`, `SshProofs` | a program that calls 7, and the server it talks to | checked; that both ends change keys together is proved |
| 9 | `Sftp`, `SftpClient`, `SftpClientProofs` | a program, SFTP and its server over a channel | checked; whose answers are taken is proved |
| 10 | `FilesInOrder` of `SftpClient`, the windows and streams of `SshClient` | what the calls of a program may leave behind, as an invariant | open |
| 11 | damaged streams in `PackFile` | | open |
| 12 | a module of the client's pack stream | the parsing of `GITTransport` over a stream that may end | open |

The server of git conversations, planned before, has been struck out: it cannot
get past its first step (section 7).

Abstract specifications worth stating: the lookup of a single store
(`ObjectLookup`), the pipe of packets (`PacketPipe`), both done.

## 3. The modules and the code

The modules share some conventions. `pc` names the routine that runs, or
`"idle"`; everything else a call keeps on the C stack is a variable. A variable
or constant named *observation* does not exist in the code; it records what a
property has to know of the past. Next to the definitions stand *seeded
faults*: what a definition would be if the code had a plausible bug. No
specification uses them; each was put in place of the definition it stands
beside to see the property fail.

### CommitHistory and CommitGraph — `Graph/GITGraph.m`, `Graph/GITNode.m`

`CommitHistory` is what both walks of a history start from: which commits there
are, the parents each names, and which of them the repository still has.
`HistoryAssumption` says that a history has no circle.

One step of `CommitGraph` is one turn of a loop. The repository (`parentShas`,
`sortDate`, `stored`) is fixed in a behaviour and chosen at its start; `nodes`,
`outNodes`, `inNodes`, `indegree`, `visited` and `processed` are the fields of
`GITGraph` and `GITNode`. An in-edge carries which entry of the child's
out-edges it belongs to, because a commit may name a parent twice and
`resetIndegree` counts entries, not children. Shas are numbers: a parent is
below its children, since a sha covers those of its parents.

| Action | Code |
|---|---|
| `BuildGraphWithStartingCommit` | `buildGraphWithStartingCommit:` up to the loop; the starting commit is not yet a node (building again on a node would replace and free it under the nodes that point to it) |
| `PopNode`, `ExpandParent`, `EdgesDone` | the two loops of `buildGraphWithStartingNode:` |
| `MissingParent` | a parent that cannot be loaded: `setObject:nil` raises out of the build, what was built stays |
| `NodesSortedByTopology`, `EmitRoot`, `ReleaseEdge` | `nodesSortedByTopology:`, with either flag: last in first out, or by date |
| `NodesSortedByDate`, `EmitYoungest`, `VisitEdge` | `nodesSortedByDate` |
| `Return` | the end of either loop |

The dictionary lists its nodes in any order, and the binary search answers any
of several equal dates, so both are nondeterministic. Two observations restrict
properties to where they are claimed: `clean` (no build failed, or ran on flags
a sort had reset) and `fresh` (the sort read indegrees that count in-edges).

### CommitEnumerator — `Graph/GITCommitEnumerator.m`

An action is one call: `SetStartCommit` before the first `nextObject`,
`NextCommit` (take, answer, queue the parents not seen, or raise over one that
cannot be loaded, with what was queued and marked before it), `NextNil`
(release the queue). The caller may go on after an exception. Observations:
the answers so far, the starts, whether an exception got out.

### RefStore — `Stores/GITRefStore.m`, `Refs/GITRef.m`

One step is one file access or one turn of a loop, because git may act between
any two: a loose file is found to exist (`ScanName`) and read later
(`ScanFile`), or is gone or empty by then (`ScanFails`, which raises and leaves
the cache half filled); HEAD comes next (`ScanHead`), then packed-refs in one
read (`FetchPackedRefs`), then the symbolic refs from the last to the first
(`ResolveLast`, `Resolved`). `Begin` and `Answer` stand for the seven lookups,
which differ in what they select from the same cache; `Answer` includes
`writeRef:` of a link, which looks up its target. `WriteRef` and
`InvalidateCachedRefs` are the other calls. A failed assertion leaves both
passes marked as done and the remaining links unresolved, as in the code.

Git is external and modelled from the files the store reads: update through a
lock file (created empty, written, renamed), pack-refs (packed-refs first, then
the loose files that still agree), deletion (packed entry first), checkout.

### ObjectStores and ObjectLookup — `Stores/GIT*Store.m`

`ListPacks`, `OpenPack`, `Opened` are `initWithPath:error:` of the pack store;
a pack without an index makes `addObject:` raise (`Unopened`), and the caller
may try again. `AddStore` is `addStore:priority:`. A lookup is `Begin`, then
one step per store asked (`AskFile`, `ReadFile`, `AskPacks`, `NotFound`),
`Return`. There are two kinds: `"load"`
(`loadObjectWithSha1:intoData:type:error:`, which checks sizes and reports
errors) and `"data"` (`dataWithContentsOfObject:`, which only the last-hit
caches of both stores serve differently). Copies of an object are whole, short,
torn, or as `writeObject:type:error:` left them. Git adds, packs, writes the
index after the pack, prunes what a pack has, and removes redundant packs; an
opened pack is mapped and stays readable.

`ObjectLookup` is the abstract specification: one store, copies that come and
go, and a call that answers found, not found or failed, each of which must be
true of one moment of the call. `ImplementsLookup` is the refinement under
`whole <- PlacesOf({"whole"})`, `flawed <- PlacesOf(Damaged)`. The moment of a
miss is subtle: when the loose file has been missed and no pack is left that
has a copy, the outcome is fixed, although the object may become loose before
the call says so. `Missed` puts the abstract decision there.

### PackIndex, PackFile — `Packs/`, `Categories/NSData+Patching.m`

`PackIndex` is the search of `indexOfSha1:`: the range of the first byte from
the fanout table, then a turn of the binary search per step (`Narrow`), and
`packOffsetWithIndex:` with the table of extended offsets. `PackFile` extends
it to `loadObjectWithSha1:intoData:type:error:`. `unpackObjectAtOffset:`
recurses over deltas; the frames are a stack of deltas that wait for their base
(`UnpackDelta` pushes, `UnpackWhole` grounds, `ApplyDelta` pops). The size of a
delta's data is asked after its base has been unpacked, as in the code. Bytes
are abstract: a header, the reference to a base and a compressed stream have
lengths, contents are short sequences, and a stream that is cut off inflates to
nil. Deltas are instructions, with the size 0 standing for a full copy.
`Writes` is what a delta of git's is: its instructions lie within the base and
make the object, a full copy is written as the size 0.

`Offsets`, `BSearch` and `NextOffsets` are the reverse index: the offsets of the
table, the place of a search among them (as many as are less) and what stands
there.
`nextOffsetWithOffset:` is asked about the offset *behind* an object's header,
which is no object's; for the last object it reads past the end of the array.
What is there is undefined: `Garbage` gives some words before, in and behind
the file, or the process crashes (`Crash`).

### PacketPipe and SshTransport — `libssh2/src/transport.c`

A byte is the packet and place it belongs to, with whether it is enciphered.
`recv` returns any number of bytes (`ReadLoop` with its `n`), or says EAGAIN
(`WouldBlock`); the buffer, the packet being collected and the sequence number
are the members of `session->packet`. One step is one turn of the loop of
`libssh2_packet_read`. `packet_add` may say EAGAIN itself (`AddAgain`): the
packet is kept and the next call must come back to it. The exchange of keys is
one step of another layer (`SwitchKeys`); until it has been taken, nobody reads
beyond the server's NEWKEYS. `WriteNew` and `SendExisting` are
`libssh2_packet_write`, which takes all of a message, a part, or nothing, and
is called by several callers who may turn to another message meanwhile.
`PacketPipe` is what the layer is for: packets arrive whole, once, in order and
in the end. `cut` is an observation: `send` has taken a part of what was left,
which the code counts as all of it.

### SshPackets, SshKex, SshUserAuth, SshChannels, SshSession — `libssh2/src/`

Here a packet is whole, and a session is a record with the two directions of
its socket. A function of the library is an operator from a session to the
session after it and what was returned. Two facts of the code make this
possible. A function does at most one `recv` between two places it can be left
at, and it keeps that place in a `..._state` member: `At` and `Goto` are those
members, under the name of the function and the channel. So one step of a call
is one application of the operator, `MORE` says that the call goes on and
`WAIT` that it is blocked; what the C stack holds in between is `call`.

The connection is a blocking socket, as `sessionToHost` makes it, so `send`
takes whole packets and `recv` waits. EAGAIN occurs all the same, when less
than a block of a packet has come (`net = "part"`), and is a timeout when the
rest takes longer still (`"late"`). Data that is in the transport's buffer but
not on the socket is not seen by the poll in front of a read (`select` asks the
socket); in the model such a packet is one that comes later.

`Modulus` is one more than the greatest number of the four bytes that a window
adjustment is written with, so that larger ones lose their high part as they do
in the code; `StreamIdLen` is the length of the stream's number in front of
extended data, which a reader of merged streams refunds too.

| Module | Code |
|---|---|
| `SshPackets` | `packet_write`; `packet_add` with all that it does at once; `packet_read`, which first goes on with an exchange of keys somebody has left; `ask`, `require`, `requirev`, `burn`. `Request` is the form most operations have |
| `SshKex` | the agreement on methods from two lists of names each; both kinds of Diffie-Hellman exchange; `kex_exchange`, begun by `session_startup`, by a KEXINIT of the server (`kex = "add"`), or gone on with (`"redirect"`) |
| `SshUserAuth` | the methods none, password with its change, host based, public key, keyboard interactive |
| `SshChannels` | everything in `channel.c` that changes state |
| `SshSession` | banners, startup, disconnect, free; the table of operations |

Deviations of the code that the modules keep: windows are adjusted and channels
closed in the middle of an exchange of keys; `Free` takes a channel that
waits in a listener's queue out of the session's list (`Unlinked`);
`request_pty_size` leaves the state of `request_pty` at sent; `session_free`
frees no channels; `wait_closed` reads on while the channel *is* closed.

### SshServer and SshClient

`SshServer` is external: the SSH protocol as the code relies on it. A server
answers in order, keeps to the windows it was granted and sends nothing else
while it exchanges keys; `may` lists what else it does (refuse, forge a
signature, ask for new keys, hang up, drop the connection). It records what it
has granted or refused, whether it got a packet under other keys, out of place
in an exchange, or data out of order.

`SshClient` is the program: a list of calls, each run step by step until it
returns (`Begin`, `Run`), with what comes next depending on the result, as in
`SSHSession.m` (`channelWithCommand:`, the two attempts with a public key),
`SSHChannel.m` (`readData:`, the repetition of a write that said EAGAIN) and
`GITSshTransport.m`. Its steps interleave with the server's in every way.
Observations: what was read, what calls said, which calls gave up (`givenUp`),
whether an exchange was left (`left`) or a write repeated (`resent`), on which
channels data was thrown away (`lossy`: on request, or because they waited in
the queue of a listener) or streams were merged (`merged`). An exchange is left
(`Leaves`) in two ways. At an EAGAIN its caller returns, and the next function
goes on with whatever comes next under the state it finds. Or it fails within
`packet_add` (`libssh2/src/packet.c:924`–951), which takes no notice of what
`kex_exchange` answered: nobody is told, and the program goes on under the old
keys with a server that waits for the rest. One scenario has the server ask for
new keys and sign them falsely.

`ProgramAssumption` is what a scenario may be: any list of calls that ends with
`disconnect` and `session_free`, on a connection just made that begins with
`startup`, the server's banner and KEXINIT being on their way (`JustMade`), or
on one with keys already exchanged (`MadeBefore`). A server that begins an
exchange later sends no guess along: the first of `Offers` has none.

### Sftp and SftpClient — `libssh2/src/sftp.c`

The same form over a channel, which delivers what was asked for, a part of it,
or EAGAIN. A state belongs to the session, not to the handle, for all functions
but closing, and so do the keys of `at`. Ids have `IdDigits` digits of base
`IdBase`: the code compares the four bytes of an id with `strncmp`, which stops
at a zero byte, so ids below 2^24 (here: below `IdBase`) all look alike. The
server of `SftpClient` is external: it does requests in order, answers them in
any order, gives any part of what is asked for, refuses, says OK before a
handle, closes the channel, also in the middle of an answer, or is gone.
`Calls` are the calls a program may be made of, and `ProgramAssumption` is what
it starts from: a new session with any first id, calls that end with that of
`shutdown`. Two observations record what a program has lost track of: `givenUp`,
the ids of calls that returned without their answer, and `mislaid`, ids that
`mkdir` put in the place of its own.

## 4. The runs

| Run | Question | Distinct states |
|---|---|---|
| `graph` | Builds and sorts in any order of calls on every history of four commits that ends in a merge or names a parent twice, with skewed clocks and a lost commit: is the graph exact, is each order a permutation of it that keeps its constraint, does everything return? | 1.2 million |
| `graph_stale_indegree` | Does the default order follow a child after any other call? No (finding 1) | violated |
| `enumerator` | Both walks on every history of four commits, one or two starts, whole or one commit lost | 566 000 |
| `refs_fetch` | The store and a git process over the same files, in every interleaving of file accesses | 1.2 million |
| `refs_head_assertion` | Does the store's own assertion hold? Not for a detached HEAD (finding 2) | violated |
| `stores` | Do the three stores together implement a single one while git works? | 664 000 |
| `stores_written` | Is an object found that was reported saved? No (finding 3) | violated |
| `packs` | Every object of every pack of up to three objects, whole or deltas of either kind | 65 000 |
| `ssh_wire` | Is the transport layer a pipe of packets, however the stream is cut, and are messages sent as was said? | 55 000 |
| `ssh_session` | 35 programs against servers that refuse, exchange keys again, hang up or vanish: do windows agree, streams keep their order, answers reach who asked, calls return? | 278 000 |
| `ssh_read_ends` | Does a read end when the connection does? No (finding 4) | violated |
| `sftp` | 189 programs of file transfer, with calls given up or made again, against servers with one fault each | 1.0 million |

### What the properties say

*Commit graph.* `HistoryComplete`: after a build every node has all the parents
its commit names, in order, although nodes reached twice are expanded once.
`EdgesMirrored`: both ends of every edge agree, also after a build that broke
off. `ChildrenFirst`: the topological constraint. `EachNodeOnce`: a sort is a
permutation of the graph. `FollowsAChild`: the default order lists no commit
before all its children. `TakesYoungest`: which commit a step of either order by
date may list. `CallsReturn`: the three work lists run dry.

*Enumerator.* `AnswersHistory` (nothing left out), `AnsweredOnce` (nothing
repeated, but for a start that is an ancestor of another start; with the types),
`GenerationsInOrder` (breadth first), `DescendsFirst` (depth first), `Ends`.

*Refs.* `NoRefMissed`: a ref that was there during the whole fetch is cached,
whichever files git moves meanwhile. `CachedWasTrue`: what is cached is a value
the ref had since the cache was emptied, never a packed value hidden by a loose
file. `AssertsOnlyOnBrokenLinks`: updates, packing, links to links and the order
of resolution never make the assertion fail. `CacheIsFilled`: although lock
files and deletions make fetches raise, a store that is asked again succeeds.

*Objects.* `ImplementsLookup`; `MissedOnlyIfPackedLater`: an object the
repository had all through a call is missed only when git put it into a pack
after the packs were listed, which `ObjectLookup` cannot see because it knows
only the places in use; `Responds`.

*Packs.* `FoundIfIndexed`: the search finds what is indexed and nothing else.
`LoadsOriginal`: through any chain of deltas, the contents are the original
ones, although the range given for the data is not the object's own.
`FailsOnlyWithoutBase`: a load fails only for a missing base, and reads past the
end of the reverse index only for the last object. `Ends`.

*SSH transport.* `PacketsWhole`: what reaches `packet_add` are the packets that
were sent, whole, confirmed, once and in order, although the buffer may hold
enciphered bytes read together with the packet that switches the keys.
`WrittenIsSent`: what is on the wire is what callers were told is sent, unless a
rest was sent in part (the code then drops what is left of it).
`ImplementsPipe`.

*SSH session.* `TypeOK` (also: what waits in the brigade is of a channel that is
there). `WindowsAgree`: the two ends of a channel agree on both windows, what is
under way counted in. `WindowConserved`: what the server may still send, what
waits to be read and what is saved up for the next adjustment is the window the
channel was opened with; merged streams are excepted, whose refunds are larger than what was
read by the number of the stream. `StreamsInOrder`: no gap, nothing twice, in both directions; a
write repeated after an EAGAIN is excepted, which the wrappers begin anew.
`KeysAgree`: the server is never sent a packet under keys it does not have, nor
one between libssh2's KEXINIT and NEWKEYS that is not of the exchange, and the
next packet to libssh2 is under the keys it reads with (`Unreadable` is that it
is not), unless an exchange was left. `AnswersAreTheirs`: what a call says
was granted or refused was, on that channel, unless a call had given up waiting
before. `Returns`: calls return or the connection is lost; `Stuck` names the four
cases in which the code waits for ever.

*SFTP.* `AnswersAreTheirs`: an answer is taken for another request's only when
the ids look alike and a request has been given up, or when a `mkdir` that waited
asks for an id it has mislaid; and nothing is left over when no request was given
up. `FilesInOrder`: a handle is of the file it was opened for; what is
read and written is in order, without a gap, and the offset agrees; excepted are
handles whose reading failed half way. `Returns`: excepted are the two cases in
`Stuck`, a length of which only a part had come and an answer cut off by the end
of the channel.

Every exception is a condition on the past of the program, as narrow as the
case it stands for.

### Bounds, and why they suffice

- *Histories*: four commits with at most two parents each: the diamond, the
  criss-cross, a parent with two children, a parent named twice, and a second
  build into a graph that is there; two dates give order, equality and
  contradiction to the topology. In `graph` the last commit has two parents
  (a history whose last commit has fewer is met by building from another) and
  the youngest date, the first the oldest, and the store is whole or has lost
  the second commit.
- *Starts*: `MaxStarts` = 2, so one start may be an ancestor of the other or
  the same commit.
- *Refs*: HEAD, a branch, and a ref that is a branch or a link to it, so HEAD
  may be a link, a link to a link, or detached; each may be loose, packed, both
  with an outdated packed value, or absent. `MaxChanges` = 2 bounds what git
  begins and the store writes: enough to update what has just been packed, to
  delete between the passes, and to have a lock file in either state.
- *Objects*: two objects, and the sha a written one is filed under; three packs
  of which two may be there and one git may make; six repositories with whole,
  short and torn copies. `MaxChanges` = 1 bounds additions; packing, pruning and
  removing are bounded by the packs.
- *Packs*: 2248 packs, of one to three out of four objects in every order and
  with every acyclic choice of bases, a missing one included; a chain of three
  objects mixes both kinds of deltas. `Extended` = 16 puts the first object
  into the small table and the others into the extended one; `FullCopy` = 2
  makes full copies occur in short contents; first bytes leave one fanout range
  empty, one with a single sha and one with three.

- *SSH transport*: four packets of 4, 3, 8 and 11 bytes, the keys changing
  after the second: the header is shorter than a block, one packet has two
  blocks and a MAC, the last is longer than the buffer of 5 bytes, so that every
  boundary falls in every place of the buffer. Two messages of three bytes, as
  only one can be pending.
- *SSH session*: windows of 4 (2 at the server), packets of 2, adjustments from 3
  on, so that windows close, small adjustments are saved up and a read needs
  several packets; at most one interruption of a stream in a program (`parts`),
  as one leaves every state that can be left; five servers' lists of methods,
  among them a wrong guess and no cipher in common; three attempts at login
  (`MaxTries`), room for one in a listener and three connections to it.
- *SFTP*: files of three bytes read in pieces of two; ids from 0 on (alike) and
  from `IdBase` on (different); packets of four bytes of which two are the
  length; at most two interruptions, one in the programs of two calls on paths;
  versions 1, 3 and 6 of the protocol. One program calls `unlink` and then a
  `mkdir` that is made again after an EAGAIN, so that the id `mkdir` falls back to
  (0, from the new session) is that of an earlier request.

### Fairness

- `WF(Run)` in every module: a call that runs goes on; there is one thread and
  nothing in a call waits for another.
- `WF(NextObject)`: `allObjects` and for-in loops call until nil.
- `WF(Begin)` and `WF(GitFinishes)` in `RefStore`: `CacheIsFilled` is about a
  store that goes on being asked, and a git process finishes what it began (an
  abandoned lock file of a crashed git makes every fetch raise for as long as
  it is empty).
- `WF(GitWritesIndex)` in `ObjectStores`: git that has written a pack writes its
  index; until then no pack store can be made.

- `SshClient` and `SftpClient`: a call that can go on does (`Runs`, which is the
  weak fairness of `Run("whole")` with its ENABLED written out), the program
  makes its next call, and the server answers, sends what it has to send, makes
  room and ends its commands (`Serve`, `SendData`, `Adjust`, `Finish`, `Send`).
  Nothing is assumed of a server that hangs up, asks for new keys or cuts a
  packet: those may happen or not.
- `SshTransport`: bytes arrive, who was told EAGAIN calls again, and `packet_add`
  ends at some time if it is called again and again (`SF(Added)`: it waits for a
  socket that becomes writable).

Deadlock is checked in every run but those of `PackFile`, where the process may
crash and stop, and of `SshClient` and `SftpClient`, where a call may be
blocked for ever in `recv` (the cases of `Stuck`).

## 5. Findings

1. **The default order reads stale indegrees.** `nodesSortedByDate` starts from
   the nodes whose `indegree` field is 0 (`Graph/GITGraph.m:161`). A
   topological sort leaves all of them at 0, so called after one it starts from
   every node and lists parents before all of their children; the comment at
   149–151 says the indegree is ignored and only the walk counts.
2. **A detached HEAD fails an assertion.** `fetchLooseRefs` adds HEAD to the
   symbolic refs without asking whether it is one
   (`Stores/GITRefStore.m:255`; the loop above asks, 247), and the assertion at
   211 fails on the first lookup. The HEAD of a repository without commits, and
   packed-refs made after the store, have the same effect.
3. **Written objects are not found.** `writeObject:type:error:` names the file
   by the sha of the bare contents and leaves the NUL out of the header
   (`Stores/GITFileStore.m:121`, 128). The server's handler stores
   the objects of a push this way.
4. **A read does not end with its connection.** `readData:` ends when
   `_readData:` says 0 (`Utils/SSHChannel.m:145`, with a comment that a closed
   socket does that), but a lost connection makes `libssh2_channel_read` answer
   a negative error, which only EAGAIN is not (124). The loop calls again for
   ever, and after a DISCONNECT of the server the library loops in it
   (`libssh2/src/channel.c:1537`).

### Observations the modules rest on

Met while reading and kept in the modules; no document of the repository
disagrees with them, so no run refutes them.

- *Refs*: lock files are refs, as every file below refs/ is taken for one
  (`Stores/GITRefStore.m:242`); whether there is a packed-refs file is decided
  once (66); writing takes no lock (187) and leaves links with the old sha (191).
- *Packs*: `nextOffsetWithOffset:` uses the place of a binary search as if the
  offset had been found (`Packs/Index/GITPackReverseIndex.m:138`). It is asked
  about an offset that is not in the array, answers the object after the next,
  which zlib forgives, and reads past the end for the last object.
- *SSH wrappers*: `channelWithCommand:` does not look at whether the command was
  started (`Utils/SSHSession.m:178`); the default configuration names the public
  key's file as the private key's (74), so the first attempt always fails; a
  write that says EAGAIN begins anew (`Utils/SSHChannel.m:181`).
- *Channels* (`libssh2/src/channel.c`): a write waits for a window although the
  server has closed the channel (1790); `accept` returns only when the
  connection is lost (671–678); freeing a channel of a listener's queue replaces
  the session's list (2165); a flush gives back 13 bytes too few per packet
  (1316), a reader of merged streams 4 too many (1637); `wait_closed` has its
  condition inverted (2084); a queue holds one more than its limit.
- *Login*: once a password has expired, every refusal of a new one asks for yet
  another. *Session*: freeing it frees no channels. *Reading*: `recv` on the
  blocking socket has no timeout, so a silent server is waited for for ever.
- *SFTP* (`libssh2/src/sftp.c`): ids below 2^24 are never told apart (258); a
  part of a length is an error after which the stream is read from its middle
  (158); a channel that ends in a packet is read for ever (185–214); handles are
  never linked to their session (939–943); a read that fails loses what it had
  (1116); the id of `mkdir` is not saved when waiting says EAGAIN (1940–1970); an
  OK without a handle is waited on.
- *Client transport* (`Network/GITTransport.m`): the length of a packet is
  unsigned, so too short ones are not noticed (121); the continuation bit of an
  offset is lost (367); a pack is read until the peer closes (229).

## 6. What is proved

The theorems hold for every value of the constants that meets the named
assumptions, where the runs check one instance. Every assumption is on data the
program is given — what git writes, what a disk holds, that names are distinct —
or on sizes; TLC evaluates each on the runs.

**CommitProofs**, of `CommitGraph` (assumes `HistoryAssumption`: histories are
acyclic, the commits numbered accordingly, and `GraphAssumption`: dates are
numbers, and what stands for no commit is none): `TypeCorrect`, `MirroredEdges`,
`TopologicalOrder`, `HistoryIsComplete`, `ListsEachNodeOnce`,
`ListsAfterAChild`, `ListsTheYoungest` — all the safety the run checks.

- `IInv`. `TypeCorrect` includes that no unsigned indegree goes below 0, which
  depends on how often a node is released; so the invariant says what the counts
  mean. `Kahn`: while a topological sort runs, the indegree of a node is the
  number of its in-edges that no listed child has released (`Released` knows how
  far the node at hand has got), and a node waits or is listed only if that
  number is 0. From this `ReleaseEdge` never decrements 0, and a node listed has
  all of its children listed before. `Mirror` makes the in-edges a node counts
  the out-edges that will release it; `OrderOfRoutine` connects the list with the
  routine that makes it.
- `JInv`, on top of it, says that nothing is left out. `Expanded`: which nodes of
  a build have all of their edges, and which waits for them. `Reached`, `Waiting`:
  whatever a sort has released or followed an edge to waits or is listed. At the
  end of a sort nothing waits; if a node were missing, the greatest missing one
  (`Downhill`: edges go from greater to lesser) would have only listed children
  and so would have been released. `Follows` and `Queue` are the two properties of
  orders by date with what is true of the nodes that wait: each has a listed
  child, and they ascend by date, so that the last is the youngest.

**CommitProofs**, of `CommitEnumerator` (assumes `HistoryAssumption` and
`EnumeratorAssumption`): `AnswersOnce`,
`AnswersTheHistory`, `GenerationsCome`, `GoesDeep`. The invariant `Inv` is about
the answers and the queue together. `Complete`: they are the starts and the
parents of what was answered. `Sound`: they are in every set that has the starts
and is closed under parents, so that with `Complete` an empty queue means the
answers are exactly the history. `Once` counts occurrences, marked or not.
`InOrder`, breadth first: answers followed by queue is a sequence that only grows
at its end; the parents of the commit at hand are a generation later at most, and
no earlier than whatever is queued, unless they have come before.

**RefStoreProofs** (assumes `RefAssumption`: names and values are distinct, links
do not go in a circle): `StoreTypeCorrect`, `FetchMissesNoRef`,
`CachesWhatWasTrue`, `AssertionNeedsABrokenLink`.

- `Accounted` follows a ref that has been there all the time through the passes:
  during the loose pass it is cached, still to be scanned, or in packed-refs;
  between the passes cached or in packed-refs; afterwards cached. It survives git
  because git takes an entry out of packed-refs only when it deletes the ref, and
  packs before it prunes. The order of the two passes is what the proof rests on.
- `Truthful` says for each ref which of the values on disk are among those it had
  since the cache was emptied, and that a packed value the store would still take
  is one: one hidden by a loose file throughout is not taken, as that file is
  found first.
- `LinkInv` does for the targets of links what `Accounted` does for held refs:
  whatever a link names, on disk, in the cache or among those to resolve, has a
  value and will be found, as long as no link was broken, nothing deleted and
  HEAD not moved. When both passes are through, all are cached, and a chain of
  links ends in a sha because the ranks of `RefAssumption` descend along it.

**ObjectStoresProofs** (assumes `StoresAssumption`): `TypeCorrect`,
`MissesOnlyLaterPacks` and `StoresImplementLookup`, the whole of
`ImplementsLookup`. `Asked` carries what the stores already asked have shown to
the end of the call although git goes on: no listed pack has the object, and if
the repository had it throughout without a whole loose file, a pack has it and
keeps it. Every action is shown to be one of `ObjectLookup` or none; the moment
at which a miss is decided is the subtle one (section 3).

**PackFileProofs** (assumes `IndexAssumption`, `PackAssumption`: the index is what
git writes for the pack — sorted, a fanout that counts, offsets of the objects —
and `ContentsAssumption`: whole objects have their contents, and a delta is one
that git may write for its object, `Writes`): `SearchIsExact`,
`UnpacksOnlyObjects`, `TypeCorrect`, `LoadsContents`, `FailsForCause`. The search
keeps the wanted sha, if it is in the table, in `lo..hi-1`. `LoadInv` says that
each delta on the stack is of the object that the one below it is based on
(`Sought` is the object looked for at each depth), and that the data at hand are
the contents of the one sought last. `nextOffsetWithOffset:` answers one object
too far; the proof shows that it is never too near — objects ascend, the offset
behind the header of the k-th is at place k, and the entry after that is object
k+2 — so zlib always gets the whole stream. `PatchRestores` is the argument that
`patch:` undoes `Writes`, size 0 included.

**SshProofs**, of `SshTransport` (assumes `SizesAssumption`: a packet is longer than its
header, an enciphered one a number of blocks and a MAC, a block fits the buffer):
`PacketsArriveWhole`, `WritesAreSent`, `StepsAreThePipes`. `InPlace` says where
the receiving side is: the bytes taken from the socket are those of the packets
before, of the one at hand, and of the buffer, in this order and each as it was
sent, deciphered up to where the packet has been opened. `Calls` says what may be
left when a call says EAGAIN, so that the next goes on where this one was.
`StepsAreThePipes` is the safety part of `ImplementsPipe`.

**SshKeyProofs** and **SshProofs**, of `SshClient` (assume `ProgramAssumption`):
`KeysStayAgreed`, for every program of any length, any methods, windows and
sizes, and every server of `SshServer`. `KeysAgree` is far from inductive: libssh2
changes its keys at two places, behind its own NEWKEYS for what it sends and
behind the server's for what it reads, any function may be the one that
takes the packet that begins an exchange or goes on with it, and what is on its
way was sealed before.

- `KeyInv` says, unless an exchange was left, where one can be and what is on
  its way there. `Calm`: none has begun, or the server's KEXINIT is the last
  thing that comes; what libssh2 has sent is all under its keys and nothing the
  server would take for an exchange (`Plainly`), or its NEWKEYS under the old keys
  comes first and the rest is under the new ones (`Switching`). `Exchanging`: the
  KEXINIT that calls for it has come (`ToOffer`), libssh2's is sent (`OfferSent`:
  what follows it belongs to the exchange, `Begun`), then with the methods agreed
  `NothingSent`, `GroupAsked`, `GroupKnown`, `InitSent` — one message is due at the
  server, or its answer and its NEWKEYS are the next two packets, maybe behind a
  wrong guess (`Replied`) — and `Confirmed`, where the server's NEWKEYS is next and
  libssh2's has been sent. `Failed`: what was to be the first exchange was not
  completed; all that such a program still does is disconnect. `Freed`: nothing
  is read any more, but what was sent still arrives.
- For the server, `Holding`: from its KEXINIT on it keeps back everything that
  is not of the exchange, so that nothing can come between, and `Flow`: what it
  has sent since is under its present keys, with at most one KEXINIT, at the end.
- `SshKeyProofs` shows that every operation of `SshSession` keeps this. Most only
  send under the keys in use and ask the brigade (`Works`, `Adds`, `Serves`); they
  reach the exchange through `packet_read`, which either takes a packet of the
  calm, or begins an exchange, or goes on with one (`Moves`, `Rekeyed`). The two
  Diffie-Hellman exchanges are followed state by state. `RunKeeps` and
  `BeginKeeps` connect this with the program.
- `SshProofs` does the server: what it takes next is by the positions either of
  the calm, or libssh2's KEXINIT, its request of a group, its first message or
  its NEWKEYS, each with its own lemma (`TakesGood`, `OfferGood`, `GroupGood`,
  `ReplyGood`, `SwitchGood`), and what it says of itself (`FreelyKeeps`,
  `RekeyGood`). `KeyInit` is that either kind of connection a program starts on
  is a position, `KeyMet` that in each the next packet is readable.

**SftpClientProofs** (assumes `ProgramAssumption`): `AnswersTheirs`, for every
program of any length, any first id, any digits, sizes and server. An answer is
found by its type and by what its id looks like, wherever in the brigade it is,
so that it is taken for the right request cannot be seen in any one function; it
depends on where every packet is.

- `Tidy` says where, as long as no request was given up: only the function that
  runs has a place; if it waits there is exactly one request on its way (`Underway`),
  or one answer (`One`), in the brigade, in the channel or with the server, or the
  status and the handle that an `open` may get (`Two`), whose ids are the last that
  was used; if it does not wait, there is nothing (`Quiet`), and a part of a packet
  only where a packet is (`Framed`). What the server held when the channel was
  closed no longer counts, hence the quantifiers in `Coming`.
- Once a request was given up nothing can be said about the brigade, but ids only
  grow: what a function then asks for is no earlier than an id that was given up,
  or was mislaid (`Suspect`).
- `SafeStep` and `TidyStep` say what one step of a function may do to either, for
  any session, and `Good` both; there is a lemma for each function of `Sftp`
  (`ReadGood`, `OpenExGood`, ...), all through `Exchange` (`ExchangeSafe`,
  `ExchangeTidy`) and the two ways to look for an answer. `mkdir` is the one
  function that may come back with another id. `CallKeepsInv` connects them with
  the program, the lemmas after it with the server.

**WorkListTheorems** has the facts the others cite: sequences as work lists
(taking and removing an element, appending, inserting, listing a set), and
induction. The library's induction theorems take an operator, which the provers
cannot instantiate; `NatSetInduction` states induction for a *set* of numbers,
and from it follow facts about recursive functions that need no operator
(`PrimitiveRecursion`, `ChainRecursion`: a function defined by recursion along
chains that end has the equation it was defined by; `LevelsGrow`, `LevelsClose`:
the generations of a history). With them `Target`, `Within`, `Chain` and the
patching can be reasoned about for every input.

### What is only model-checked

- Every liveness property (`CallsReturn`, `Ends`, `CacheIsFilled`, `Responds`,
  `Returns`) and the fairness of the pipe in `ImplementsPipe`: the prover has
  neither fairness nor ENABLED.
- `TypeOK`, `WindowsAgree`, `WindowConserved`, `StreamsInOrder` and
  `AnswersAreTheirs` of `SshClient`. These go on to hold after an exchange was
  left, which is where `KeyInv` ends, so that an invariant for them has to say
  where every function of five modules may be left by an EAGAIN or an error, for
  each channel by itself; step 10 of the plan.
- `FilesInOrder` of `SftpClient`: besides where the packets are, an invariant has
  to follow what is in them, and what the server has written.

## 7. What is not modelled, and why

- **Server**: at this commit it answers no one. `sendRefs` asks every ref for the
  key `sha` (`Network/GITServerHandler.m:373`), the refs of `allRefs`, HEAD among
  them, are `GITRef`s, whose property is `sha1`, and `valueForKey:` raises before
  anything is sent. What comes after it cannot be reached, so a model of it would
  be one of another program.
- **Client transport**: the parsing of packets, refs and pack streams in
  `GITTransport` is called only by the script `src/Nu/git-fetch.nu`; planned as
  step 12. The connection of `GITSshTransport` is among the programs of
  `ssh_session`.
- **SCP and the public key subsystem of libssh2**: the program uses neither. The
  first is a channel around the parsing of one line, the second a protocol like
  SFTP with fewer requests.
- **Algorithms, compression, key files**: tables and calls of crypto libraries.
  The modules abstract from bytes; what depends on them — which keys a packet is
  under, whether a signature is good — is kept.
- **`libssh2_poll`, non-blocking sockets, attributes of files, `SSHConnection`**:
  the program's wrappers do not use the first two outside of their own waiting,
  nothing calls the last, and attributes are data that no other step reads.
- **Version 1 of the pack index**: the same search over another layout; its
  `packEntryWithIndex:` returns the address of a local variable, on which a
  model can say nothing.
- **Damaged packs and packs without an index**: the first is planned; the
  second (`initWithData:error:`) has no use in the program for reading objects.
  The checksum of an index is verified when it is opened, and a pack whose
  index fails is a pack that cannot be opened; that of a pack is never compared
  on the way to an object. A copy offset of 2^31 or more, sign-extended at
  `Categories/NSData+Patching.m:59`, and the 32-bit product at
  `Packs/Index/GITPackIndexVersion2.m:336` need files far beyond a model.
- **`baseOffsetWithOffset:`, `sha1WithOffset:`, CRC table**: no caller.
- **`extractFromObject:`** and the header the file store leaves in the data it
  answers: the form of data, not where it is found.
- **Object types, actors, dates, hex and text**: immutable values made from
  text; commits, refs and objects are names in the modules.
- **Symbolic refs in a circle**: the store recurses without end; excluded by
  `RefAssumption` because git does not follow them either.
- **Lost updates**: `writeRef:` takes no lock, so git and the store may
  overwrite each other; the model allows it, and nothing in the repository
  claims otherwise.
- **Sockets, command-line tools, bindings, vendored code**: loops around
  libraries, argument handling, third-party code.
