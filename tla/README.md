# net367 in TLA+

net367 (this repository) is a small network emulator. One program, started with
a configuration file, makes the pipes of the configured links, forks one process
per node (a *host* or a *switch*) and stays behind as the *manager*, the console
with which a user tells the hosts what to do: show their state, set their
directory, ping one another, send files. The processes share no memory. All they
have in common are pipes, none of whose ends ever blocks.

This directory has TLA+ models of the program, the TLC configurations that check
them, and proofs about them for TLAPS.

## 1. Inventory

| Part | State | Operations | Talks to |
|---|---|---|---|
| manager, `man.c` | current host; what it waits for | user commands `s m h c p r u d q`, polling for an answer | each host: a command pipe and a reply pipe |
| host, `host.c` | directory, `ping_reply_received`, job queue, upload buffer, files | each turn of its loop: read the command pipe once, read every link port once, execute one job | the manager; its neighbours over links |
| job queue, `host_util.c` `job_q_*` | linked list of heap cells: head, tail, occ | init, add, remove, num | used by the host |
| file buffer, `host_util.c` `file_buf_*` | ring: head, tail, occ, bytes, name | init, add, remove, put and get name | used by the host |
| switch, `switch.c`, `switch_util.c` | forwarding table | read ports in turn, learn, forward or flood | its neighbours over links |
| packets, `packet.c` | none | `packet_send`, `packet_recv`, on a pipe or a socket | used by hosts and switches |
| sockets, `sockets.c` | none | a TCP connection per packet; a server process that copies into a pipe | another run of the program |
| configuration, `net.c` | lists of nodes, ports and manager ports | parse the file, make the pipes, hand a node its ports | used at the start of every process |
| process control, `main.c` | none | fork the nodes, kill them all after `q` | everything |
| DNS, `dns.c` and parts of `host.c`, `man.c` | the naming table of host 100 | register a name, ask for the id of a name | host to host, over packets |

What is hard about it, and which properties are for it (`PROJECT.json` has the
list with the lines):

- *Requests and answers.* The manager waits for an answer without a time limit,
  a ping's answer depends on a job that is put back into the queue up to ten
  times, and whatever is in the reply pipe is shown as the answer to the current
  command. One answer too few hangs the console, one too many is shown for the
  wrong question. (`OneAnswerPerRequest`, `AnswerFits`, `ConsoleSpec`,
  `ConsoleFairSpec`, `ManagerReturns`.)
- *No framing* on the command pipes: two commands read together are one.
  (`ManagerReturns` without `Patient`.)
- *Echoes.* A switch floods a packet to all ports, the one it came in on
  included, and a table entry is never changed. (`LearnedPortsLead`,
  `WayBackIsKnown`, `TrafficDrains`, `EchoesDie`, `AckIsGenuine`.)
- *Loss.* A full pipe drops what is written, a read drops what is behind its
  first packet. (All properties of the network, which allow for both.)
- *Reads that know no packets.* A read takes up to 104 bytes, may end inside a
  packet, and one packet is unpacked from its start. (`ChannelSpec`, `PipeSpec`,
  `PromptUploadsAreWhole`.)
- *Memory that is used as it is found*: the naming table on the stack, the `next`
  of a job from `malloc`, a job that is freed while it is queued.
  (`AnswersAreTrue`, `StaysInside`, `JobsComeInOrder`, `TakesTheFirst`,
  `NamePingReturns`.)
- *One buffer for all uploads*, and a file that is emptied before it is written,
  in a process that may be killed. (`StoredFilesAreWhole`, `UploadLands`,
  `FilesAreWholeOrEmpty`.)
- *Tables without bounds.* The forwarding table is indexed by what comes off the
  wire, and the naming table is searched up to an entry that is not valid.
  (`InTableMeansHeard`, `FirstHeardSpec`, `StaysInside`, `AnswersAreTrue`,
  `TwoEntriesAtMost`, `RegisteredHostsAreListed`.)
- *Two requests in one command.* A ping by name asks the DNS server and then
  pings; its answers come through three processes. (`OneRequestAtATime`,
  `PingsTheNamedHost`, `NameIsAnswered`, `NamePingReturns`.)
- *Lists built and divided back to front*, on which the index of every port
  hangs. (`PortsAreTheLinks`, `PipesJoinTheEnds`, `TopologyHolds`,
  `FirstHostIsCurrent`.)
- *A connection a packet.* A connect that does not wait, a server that blocks,
  servers that share a TCP port. (`PacketsComeInTurn`, `AcceptedIsServed`,
  `SentToTheServer`.)
- *Data structures kept by hand*, with indices or pointers and a count updated
  apart. (`TailIsLast`, `FifoSpec`, `ListEnds`, `JobsComeInOrder`.)

## 2. The modules

```
   Pipes                   topology, packets, what write() and read() do
     |-- Manager           man.c
     |-- Host              host.c
     `-- Switch            switch.c, switch_util.c
           `-- Net367      all of them: main.c; properties; INSTANCE of Console
                 |-- TreeNet        any tree of switches, and what they learn
                 |-- Uploads        files that are sent, while packets stay apart
                 `-- Net367Proofs   theorems (about Net367, TreeNet and Uploads)
   Console                 abstract: what the manager promises its user
   Fifo                    abstract: a bounded queue
     |-- FileBuf           file_buf_*: a ring that implements Fifo
     |     `-- FileBufProofs       theorems
     `-- JobQueue          job_q_* on a heap: a list that implements Fifo
           `-- JobQueueProofs      theorems
   FirstHeard              abstract: a switch that learns where nodes are
     `-- SwitchTable       the forwarding table as it lies in memory
           `-- SwitchTableProofs   theorems
   Channel                 abstract: an ordered channel that loses packets
     `-- Link              packet.c on a pipe of bytes
           `-- UploadLink          an upload over it, and a kill at any time
                 `-- LinkProofs          theorems (about Link and UploadLink)
  Sockets                 sockets.c: links between two runs of the program
     `-- NetProofs                 theorems (about Sockets and NetConfig)
   PacketQueue             abstract: the pipe of packets of Pipes; Link implements it
   NameTable               the naming table of the DNS server
     |-- NameTableProofs           theorems
     `-- Dns               names: from the user to the server and back
           `-- DnsProofs           theorems (with those of NameTable)
   NetConfig               net.c: nodes, links, ports, and who gets them
     `-- NetProofs               theorems
   MC*                     instances for TLC
```

`Pipes`. Constants give the topology (`Hosts`, `Switches`, `Port[n]`, the far
ends of the ports of each node in order), and the variables are the pipes:
`link[<<a, b>>]` for each direction of each link, `cmdPipe[h]` and
`replyPipe[h]` between the manager and each host. `Write` is `write()` on a
non-blocking pipe, which loses what does not fit. `Unread` is `packet_recv`:
`read()` takes up to 104 bytes and one packet is unpacked from their start.
`FramesPerRead` is the number of packets those bytes hold, see section 4.

`Manager`. An action for each command, and `GetReply` for the two polling loops.
What the user will type is a sequence chosen at the start (`script`). `h` is
left out because it only prints; `d` writes a command `u`, as `file_download`
does.

`Host`. `at[h]` is the host's place in its loop: 0 the command read, 1 to the
number of ports the reads of the ports, one more the job. Each of these is one
step, so pipe accesses of different processes interleave in every order; the
code between two accesses touches nothing that is shared. A job that sends to
all ports writes to all of them in one step, and reading or writing a file is
one step. `jobs[h]` is a FIFO here; `JobQueue` shows when the code's list is
one, and section 4 what that means for these runs. `pinged[h]` is `ping_reply_received`, with the sender of the reply as a
history (`None` for 0): only `AckIsGenuine` (section 3) looks at who it was.
Files are sequences of chunks, a chunk being what one packet carries; that a
chunk can be stored in part, when those of two senders mix, is left to
`FileBuf`. `Garbled` is any text in which a second command is glued to the
argument of the first, and stands for no existing file or directory.

`Switch`. `swAt[s]` is the port that is read next, `fwd[s][h]` the table, 0 for
an entry that is not valid. The two branches of `switch_main` are `Forward`,
which sends and then learns, and `Flood`, which learns and then sends. The order
makes no difference inside one step: the entry that is read is that of the
destination, before the source is learned.

`Net367` joins them: `Next` is one step of the manager, a host or a switch, or
nothing once `q` has killed all processes.

`FileBuf` has the ring with the indices of the code. A call is one step, and its
loop is written as the function the loop computes (the first `k` bytes go to the
`k` slots past `tail`). It starts with any bytes in the buffer, since the buffer
is on the stack of `host_main`.

`SwitchTable` has struct `forward_table` as the row of ints it is, `size` and
three arrays; `Valid`, `HostID` and `PortOf` are the places the code's indices
lead to, whichever array they are in, and `Load` outside of it gives `Stray`.
`Switch`, which has the whole network around it, takes ids to be within the
table. `FirstHeard` is what is left of a switch when the table is a function.

`Uploads` adds a history to `Net367`. The pipes there hold packets, those of the
program bytes, and a read takes in a second packet, or a part of one, when the
first is short. For pings, all of whose packets are equally short, `Unread` is
exact; for uploads what comes of such a read is left to `UploadLink`. So a run is
followed until a read takes in two packets, or a pipe is full (`dropped`), and
the properties are about what happens until then.

`NameTable` has the array and its two searches. `memory` is what the stack held:
the table is not initialised, so it starts with any entries that look valid.
`Readings` says what `strcmp` may read a name as, because a name is sent without
its zero byte and `packet_recv` puts its letters over those of an older packet. A
search that leaves the array sets `overrun`, and nothing is said of what comes
after that.

`Dns` takes the table as an instance and adds the way to it: the commands `r`,
`n` and the `p` that `ping` sends in the end, the packets and jobs of the hosts
and the two waits of `ping` in the manager. The hosts have a pipe link to the
server each, not a switch, because no switch has room for id 100 (section 3,
`MCDnsId.cfg`). The ping itself is a job that ends in an answer; `Host` has it in
full. A host that takes in an answer of the server frees the job while it is in
the queue (`host.c:334-340`) and again after it (`host.c:706`). From then on its
`health` is `"damaged"`: the job may be what it was (`ReplyPhysId`) or something
else, for which no answer is written (`ReplyForgotten`), and the allocator may
end the host at any time (`Abort`). `lost` is a history: since the last ping by
name a late read has dropped a packet of it.

`Link` has one direction of a pipe as counts of bytes: where each packet starts,
how far the writer and the reader are. A read takes `Taken` bytes, and unpacks a
packet only if it starts where one does; otherwise the bytes are dropped. `late`
is a history: some packet was written before the last one was read. `UploadLink`
puts an upload on top: sender, receiver with its buffer, and the file that is
emptied by `fopen` and has its bytes after `fclose`. Bytes from inside a packet
may look like any packet to the receiver (`RecvGarbage`).

`NetConfig` builds the lists of `net.c` item by item, forks, and lets each node
take its ports. `Memory` is what `malloc` may return memory with, which matters
to the one field that is not set. A loop that picks items of a list is `At`, the
items at a set of places in their order (`Sorted`), and one that also pushes
them is `Pushed` of that. `FarEnd` reads off the pipes where a port leads, which
is what `Port` of `Pipes` takes as given.

`Sockets` has a client for each switch of other programs that sends over the
link, and the server processes of this one. All the switches of a program fork a
server on the same TCP port, and a connection goes to any of them; only the pipe
of `Reader` is read, because only its switch has the port of the link. A client
is connected when the server's machine has answered (`Reaches`), and may then
write, close and connect again. Its connection is `coming` until it gets into the
queue of a server (`Queue`), in any order with others, or is lost (`Lose`). For a
client that is not `Remote`, `connect` finds the server, or that there is none,
before it returns. Both programs may end at any time, the servers' may start
again. `accepted` is a history of what `Reader` accepts.

`JobQueue` has the list with `head`, `tail`, `occ` and the `next` field of each
heap cell; `chain` is a history of which cells are in it. `Malloc` returns any
cell that is not in use, with the `next` it had when it was last used or with
`Junk`, what other data have left in it. `stale` is a history: a job that was
alone in the queue was taken out and its `next`, which `job_q_add` had not set,
was not NULL, so that `head` is an address it should not be.

## 3. What the runs check

| Run | Instance | Properties | Distinct states |
|---|---|---|---|
| `session` | hosts 0, 1 on switch 2, every session of 2 commands, and of 2 requests with a change between; fairness | `TypeOK` `OneAnswerPerRequest` `AnswerFits` `ConsoleSpec` `ConsoleFairSpec` `TrafficDrains` | 150 361 |
| `tree` | 0 - 2 - 3 - 1 with switches 2 and 3, one ping; fairness | `LearnedPortsLead` `WayBackIsKnown` `OneAnswerPerRequest` `EchoesDie` | 122 774 |
| `upload` | hosts 0, 1 on switch 2, uploads in four orders; fairness | `StoredFilesAreWhole` `UploadLands` | 56 334 |
| `file_buf` | a ring of 4 slots, bytes 0 and 1 | `TypeOK` `TailIsLast` `FifoSpec` | 6 672 |
| `job_queue` | 4 jobs, two of them waits, 3 cells that are used again | `ListEnds` `JobsComeInOrder` | 28 702 |
| `switch_table` | 4 entries, 3 ports, ids -1 to 3 | `InTableMeansHeard` `FirstHeardSpec` | 175 |
| `name_table` | 5 entries with anything in them, 2 hosts, 2 names | `AnswersAreTrue` `TwoEntriesAtMost` `StaysInside` | 156 223 |
| `dns` | 2 hosts and the server, 2 names, a table of 2 entries, every session of 3 commands; fairness | `OneRequestAtATime` `PingsTheNamedHost` `NameIsAnswered` | 404 917 |
| `upload_link` | a pipe of bytes, 3 uploads of 2 files, a kill | `TypeOK` `ChannelSpec` `PipeSpec` `FilesAreWholeOrEmpty` `PromptUploadsAreWhole` | 3 812 856 |
| `net_config` | all configurations of 2 hosts and a switch, 1 to 3 links | `PortsAreTheLinks` `PipesJoinTheEnds` `TopologyHolds` `FirstHostIsCurrent` | 33 066 |
| `sockets` | 2 clients, 2 servers, 2 packets each, a restart; fairness | `PacketsComeInTurn` `AcceptedIsServed` | 384 282 |

Each property has a mutant in `PROJECT.json`: an operator beside the action it
varies, marked `(mutant)`, that is a plausible bug, and with which the property
fails in that run. No specification uses these operators.

- `OneAnswerPerRequest`: the manager waits for host *h* exactly when its request
  is a command in the pipe to *h*, or a wait among the jobs of *h*, or an answer
  in the pipe back, and never in two of them.
- `AnswerFits`: wherever a request is, it is of the kind the user asked for.
- `ConsoleSpec`, `ConsoleFairSpec`: `Net367` implements `Console`, in which a
  request is asked, answered by the host asked and shown, one at a time; with
  fairness, always answered.
- `TrafficDrains`, `EchoesDie`: no packet circulates and no job is put back for
  ever: with one switch whatever is pinged, with two unless a host is pinged
  that does not exist.
- `LearnedPortsLead`: a table entry is the port that leads to the host, although
  a switch hears the echoes of every flood from the wrong side.
- `WayBackIsKnown`: why. Every switch between a host and any place its packets
  have been knows that host, so the first packet of a host that a switch sees
  comes from where the host is, and an echo never comes first.
- `StoredFilesAreWhole`: a file on disk is an original or its first
  `MAX_FILE_BUFFER` bytes, until a read takes in two packets or a pipe is full.
- `UploadLands`: an upload to a host with a directory ends with the file there,
  with the same exception.
- `TailIsLast`, `FifoSpec`: the ring is a bounded queue.
- `ListEnds`, `JobsComeInOrder`: the list is a queue, although jobs are made of
  memory that was used before, as long as none that is alone leaves it with a
  `next` that was never set.
- `InTableMeansHeard`, `FirstHeardSpec`: for ids within the table, each entry is
  the host's own, and lookups and learning are those of `FirstHeard`.
- `AnswersAreTrue`, `TwoEntriesAtMost`, `StaysInside`: what the searches of the
  naming table find was registered, or was in the memory; what is written for a
  host is right behind an entry of it, however often it registers; and the table
  is not left before half as many hosts have registered as it had free entries.
- `OneRequestAtATime`, `PingsTheNamedHost`: no request for a name is in two
  places or left behind, and the ping goes to a host that has the name, as the
  server read it.
- `NameIsAnswered`: the answer to a name gets back to the host that asked, unless
  a late read has dropped a packet of it, the table was left, or the host was
  ended after an earlier answer. That ping by name then returns is another
  question, see `MCNamePing.cfg`.
- `ChannelSpec`, `PipeSpec`: a pipe of bytes is an ordered channel that loses
  packets, and as long as its reader keeps up it is the very queue of `Pipes`
  with one packet a read, whatever the sizes of the packets.
- `FilesAreWholeOrEmpty`, `PromptUploadsAreWhole`: a receiver that keeps up and
  is killed leaves a file empty at worst; and an upload whose packets are read
  in time is whole whatever went wrong in earlier ones.
- `PortsAreTheLinks`, `PipesJoinTheEnds`, `TopologyHolds`, `FirstHostIsCurrent`:
  what `Pipes` assumes of the topology, and `Manager` of the first host, is what
  `net.c` makes of a configuration. `TopologyHolds` says so of networks with
  pipes alone and at most one link for two nodes (`PlainNetwork`); with two, a
  switch would send what it floods to the same neighbour twice. Only the port of a
  socket link can go astray, to a node whose id was in the memory of its unset
  `pipe_host_id`.
- `PacketsComeInTurn`, `AcceptedIsServed`: connections come to a server in any
  order, but from there on none overtakes another, none comes twice and none is
  another server's; and none waits for ever behind a read that blocks.

One run shows where the program does not do what its comments say: `hasty`, in
which `ManagerReturns` fails. `s` typed before the host has read `m` becomes
part of the directory's name (`host_util.c:179`), and the manager waits for ever
(`man.c:163`).

More of that kind can be seen with configurations that are not among the runs,
`tlc -config <cfg> <module>`; TLC finds a counterexample to each:

| Configuration | Module | Property | What happens |
|---|---|---|---|
| `MCStaleAck.cfg` | `MCTree` | `AckIsGenuine` | Two switches echo the reply of host 1, and a late copy acknowledges the next ping, of a host that does not exist (`host.c:284` takes any reply). |
| `MCTwoSenders.cfg` | `MCUpload` | `StoredFilesAreWhole` | Two hosts send to a third: the second start packet empties the one buffer the first was filling (`host.c:563`). |
| `MCTreeUpload.cfg` | `MCUpload` | `StoredFilesAreWhole` | Two switches flood an upload to a host they have not heard back and forth, and copies of its packets come between the packets (`switch.c:141`). |
| `MCStaleLink.cfg` | `JobQueue` | `TakesTheFirst` | A job put in an empty queue keeps an old `next` (`host_util.c:224`), and after it the queue gives out a job that is not in it. |
| `MCSecondName.cfg` | `MCNameTable` | `RegisteredHostsAreListed` | A host that registers again takes the entry behind its own, whose host is listed no more (`host.c:639`). |
| `MCNamePing.cfg` | `MCDns` | `NamePingReturns` | The answer of the server is freed when it is queued (`host.c:334`) and again later: the host is aborted, or does not know the job, and the manager waits for ever, though nothing was lost. |
| `MCServerPing.cfg` | `MCDns` | `NameIsAnswered` | The DNS server asks its neighbours, none of which is the server (`host.c:230`). |
| `MCDnsId.cfg` | `MCSwitchTable` | `InTableMeansHeard` | The entry of a host 100, the DNS server, lies behind the array, in the next one (`switch_util.c:129`). |
| `MCSentToServer.cfg` | `Sockets` | `SentToTheServer` | Between machines a packet is written before there is a connection (`sockets.c:201`). |

Without `late` in it, `FilesAreWholeOrEmpty` fails in `upload_link`: a late read
drops a piece of a file, which is stored without it (`packet.c:77`). And two
faults are plain from the code: a download, which is sent as an upload
(`man.c:338`), overwrites the file that was asked for, and the address of the
last socket link in the configuration is used for all (`packet.c:56`).

## 4. Bounds and assumptions, and why they are enough

- `Scripts`: every session of two commands, and of two requests with a change of
  host or directory in between, which is what it takes for an answer to meet the
  wrong request. The scripts of uploads are chosen one by one, because a useful
  upload needs four or five commands.
- `Room = 2` packets for pings, so pipes do overflow; 8 for uploads, with which
  the longest of those sessions still lands a file. A real pipe has 64 KiB.
- `FramesPerRead = 26` for pings: a ping packet has four bytes, and a read takes
  104. So a read takes all that a pipe of the instance holds and keeps the first
  packet, which is exact. A packet with a full chunk is as long as a read, so a
  read that starts with one takes in nothing else (`FullChunks`, `Taken`). What
  takes in more after a shorter one, of a start, a rest or an end, ends the part
  of the run that `Uploads` follows, so 2 does for `FramesPerRead`. That happens
  when a reader is late. A host writes one packet per turn of 10 ms and a switch
  never sleeps, so normally none is, but nothing in the code makes sure of it.
  What becomes of files then is in `upload_link`.
- `PingTimer` is 2 in `session` and 1 in `tree`, instead of 10 turns: both
  outcomes, and a reply before, in and after the last turn, occur.
  `MCStaleAck.cfg` has the real 10.
- `MaxChunks = 2` instead of 10, with a file of one chunk and one of three.
- Id 9 is an id the user may type that no host has. The id of a switch would be
  treated in the same way.
- The networks: two hosts on a switch, or three, are cut from
  `switchTest.config`; two switches in line are the topology of the
  configurations `1` and `2`, there linked by sockets, here by a pipe, which
  `net.c` permits as well. Two switches are the least network with echoes.
- `Patient = TRUE`: the user types no command before the host has read the one
  before. A host reads every 10 ms, and after `u` and `d` the manager itself
  sleeps that long, but not after `m`. `hasty` is the run without it.
- `UploadLink`, `Link`: what matters is how many packets a read takes and
  whether it ends inside one. Packets of 1 to 4 bytes with reads of 4 make one,
  one and a part, two, and parts of two; a pipe of 8 bytes fills up. One byte
  stands for the four of a header. A read that starts inside a packet may be
  dropped, or taken for any packet to the receiver with any name or chunk
  (`RecvGarbage`), of which the code would allow fewer. Its length may be up to
  127, and `packet_recv` then writes past the payload, which is left out.
- `SwitchTable`: 4 entries for 100, and ids -1, 0, 1, 3 at both ends of it, or 4
  just behind it. Ids from 127 on are negative chars; below -1 they would be in
  front of the table and are excluded (`TableAssumption`).
- `NameTable`: with five entries two hosts cannot fill a free table, and do fill
  one with two entries that look valid, so searches do leave it. `Memory` has
  three kinds of entry: not valid, valid with the id of a host and a name, and
  valid with neither. `Stray` stands for all text that is no name. One name is
  the beginning of the other, so either may be read for the one that is asked.
- `Dns`: two hosts and the server are the least in which a name is registered by
  one and asked for by another; 3 commands are two pings by name with a
  registration or a change of host between them. Two entries are filled by two
  registrations, or by chance. `PacketsPerRead` is 2, so packets that are read
  late get lost; as their lengths differ a read could also end inside one, which
  is left to `Link`. The user is patient, and starts at host 0; the hosts are
  alike. `MCNamePing.cfg` and `MCServerPing.cfg` have five entries, cleared, so
  that nothing but what they are about can go wrong.
- `NetConfig`: lists of three nodes and three links have a first, a middle and a
  last in every order. Links join different nodes, two nodes may have several,
  the nodes of a configuration have different ids, and at least one is a host:
  `ConfigsAssumption`, which the proofs use as well. `load_net_data_file`
  refuses a file without nodes or without links and checks nothing else; the
  files of the repository are like that.
- `Sockets`: `Backlog` and `Room` of 2 for 3 (Linux: 4) and 64 KiB, all full at
  times with four packets; one restart. One client is on the machine of the
  servers and one on another.
- `FileBuf`: `MaxFileBuffer = 3` and calls of up to two bytes reach every
  position of the ring, full, empty and wrapped. `JobQueue`: four jobs with two
  waits, which may be put back any number of times, in three cells, so that each
  is used again. `MaxJobs` only limits how long it runs; that is why its cfgs
  turn the deadlock check off. So do those of `UploadLink` (which ends with a kill),
  `Sockets` (whose packets are used up), `NetConfig` (which ends when all nodes
  have their ports) and of a naming table that is left.

**The job queue of `Host`** is a FIFO, and `JobQueue` proves the code's list to be
one until a job that is alone in it leaves it with a `next` nobody set
(`MCStaleLink.cfg`). What `Net367`, `TreeNet` and `Uploads` show is about hosts to
which that does not happen, as with a heap that returns zeroed memory or a
`job_q_add` that sets `next` in both branches. That is an assumption, not what
the code makes sure of: with glibc, which gives out the cell freed last, the
first such job is the answer of a host that has pinged and is pinged in turn. The
answer itself is sent, but the queue is damaged for the jobs that come after it.

**Fairness.** Hosts, switches and the manager's polling loops are weakly fair:
none of them ever blocks, because every pipe end is `O_NONBLOCK` and every loop
of `host_main` and `switch_main` is endless, so a process that can take its next
step takes it as soon as the operating system runs it. All of that ends with
`q`. `UploadFairSpec` is the same for as long as a run is followed. So is the
fairness of `Dns`, where a host also stops when it has ended; nothing is assumed
of `Abort`. In `Sockets` a client that is in `create_client` is weakly fair,
since none of its calls waits, and so are a server, whose `accept` and `read`
return when there is something to return, and the switch that reads its pipe;
nothing is assumed of `connect`, whose answer may never come, of connections on
their way, or of programs being started. Nothing is assumed of the user, who may
stop typing at any point.

**Topology.** `TopologyAssumption` says that a link is a port at each end, that
no two nodes have two links and that a switch has a link. `TreeAssumption` gives
the port `Route[s][h]` on the way from switch *s* to host *h* and says that a
host next to a switch is reached directly and that of two neighbouring switches
one is on the way of the other. With a cycle of switches there is no such
`Route` for a host attached to it.

## 5. What is proved

For every topology, every script, every content of the disk and every value of
the bounds that satisfies the assumptions of the modules:

| Theorem | Module | Says | Assumes |
|---|---|---|---|
| `TypeCorrect` | `Net367Proofs` | `Spec => []TypeOK` | |
| `OneAnswer` | `Net367Proofs` | `Spec => []OneAnswerPerRequest` | `Patient` |
| `AnswersFit` | `Net367Proofs` | `Spec => []AnswerFits` | `Patient` |
| `ImplementsConsole` | `Net367Proofs` | `Spec => ConsoleSpec` | `Patient` |
| `SwitchesLearnRight` | `Net367Proofs` | `Spec => []LearnedPortsLead` | `TreeAssumption` |
| `WaysBackKnown` | `Net367Proofs` | `Spec => []WayBackIsKnown` | `TreeAssumption` |
| `UploadsStayWhole` | `Net367Proofs` | `UploadSpec /\ []OneSenderEach(from) => []StoredFilesAreWhole` | `OneSwitch`, `TreeAssumption` |
| `OneRequest` | `DnsProofs` | `Spec => []OneRequestAtATime` | |
| `PingsRight` | `DnsProofs` | `Spec => []PingsTheNamedHost` | |
| `IndicesAgree` | `FileBufProofs` | `Spec => []TailIsLast` | |
| `FileBufTyped` | `FileBufProofs` | `Spec => []TypeOK` | |
| `ImplementsFifo` | `FileBufProofs` | `Spec => FifoSpec` | |
| `ListIsWhole` | `JobQueueProofs` | `Spec => []ListEnds` | |
| `JobQueueIsFifo` | `JobQueueProofs` | `Spec => JobsComeInOrder` | |
| `TableAnswersRight` | `SwitchTableProofs` | `Spec => []InTableMeansHeard` | `IdsFit` |
| `TableImplementsLearning` | `SwitchTableProofs` | `Spec => FirstHeardSpec` | `IdsFit` |
| `AnswersTrue` | `NameTableProofs` | `Spec => []AnswersAreTrue` | |
| `TwoEntries` | `NameTableProofs` | `Spec => []TwoEntriesAtMost` | |
| `SearchesEnd` | `NameTableProofs` | `Spec => []StaysInside` | |
| `LinkTyped` | `LinkProofs` | `Spec => []TypeOK` | |
| `LinkIsOrdered` | `LinkProofs` | `Spec => ChannelSpec` | |
| `LinkIsPacketQueue` | `LinkProofs` | `Spec => PipeSpec` | `PipeHoldsARead` |
| `LinkUnderUploads` | `LinkProofs` | `UploadSpec => []TypeOK /\ ChannelSpec /\ PipeSpec` | `PipeHoldsARead` |
| `UploadsAreWholeOrEmpty` | `LinkProofs` | `UploadSpec => []FilesAreWholeOrEmpty` | `PipeHoldsARead` |
| `PromptUploads` | `LinkProofs` | `UploadSpec => PromptUploadsAreWhole` | `PipeHoldsARead` |
| `PortsRight` | `NetProofs` | `NetSpec => []PortsAreTheLinks` | |
| `PipesRight` | `NetProofs` | `NetSpec => []PipesJoinTheEnds` | |
| `TopologyRight` | `NetProofs` | `NetSpec => []TopologyHolds` | |
| `FirstHostRight` | `NetProofs` | `NetSpec => []FirstHostIsCurrent` | |
| `SocketsKeepTurn` | `NetProofs` | `Spec => []PacketsComeInTurn` | |

*Types.* `TypeOK` is inductive. The proof has a lemma for what each helper on
pipes preserves (`Write`, `PutOn`, `TakeFrom`), one for each process, and one
step for each action.

*One answer.* `OneAnswerPerRequest` is inductive together with `TypeOK` and
`AnswerFits` once users are patient: `Asked`, `Waits` and `Answered` are the
three places a request of a host can be in, and each action moves it from one to
the next. What takes work is that a job queue to which other jobs are appended,
or whose head is taken off or put back, keeps at most one wait. That is the
subject of the lemmas `ConcatWaits`, `AppendWaits` and `TailWaits`.

*Console.* With `OneAnswerPerRequest` and `AnswerFits` as invariants, every
action maps to `Ask`, `Answer`, `Show` or `Quit` of `Console` or to a stutter.

*Learning.* `LearnedPortsLead` alone is not inductive: nothing in it says that
an echo comes late. The invariant `TreeInv` adds the three parts of
`WayBackIsKnown` and that a host sends only packets of its own (`OwnTraffic`).
If switch *s* has not learned *h*, and a packet of *h* arrives from a neighbour
*t*, then *t* is on the way to *h*: otherwise `EchoesComeLater` says *s* has
learned *h* already. So the entry it makes is right. That the invariant is kept
takes `LearnedOnTheWay`, because a switch sends what it has just learned to
neighbours that are themselves on the way.

*Uploads in the network.* Seen from the receiver back to the sender, the packets
of an upload are in four places: the receiver's jobs, the pipe from the switch,
the pipe to the switch, the sender's jobs. One behind the other (`Carries` says
which packets of a queue count) they are a `Stream`, the packets at successive
places of whole files, and the receiver's buffer holds what comes before the
first of them (`InStep`). That is `Way`, and it is inductive because a packet
leaves one place only to join the end of the next, and all packets of a file
join the end at once (`FileUploadSend`). It takes that nobody else puts such
packets anywhere on the way: `OwnTraffic`, which says for what uploads a host may
have packets, is proved for any such relation and used with the one of the
hypothesis, `FromOne(from)`. What is assumed is that without which it fails: two
senders to a host (`MCTwoSenders.cfg`) or two switches (`MCTreeUpload.cfg`) mix
the stream, and a pipe without room or a read of several packets make holes in it, which is
where `dropped` ends the claim. That files do arrive before that is shown by
`upload`, with `UploadLands`. A host may send to several hosts
and to itself, several hosts may send, directories may change at any time, and
users may be impatient: text that runs together names no file. `TreeAssumption`
is there because a packet for a host the switch knows has to go to that host;
with one switch it only says that `Route` gives the port of the link.

*File buffer.* The lemmas at the top of `FileBufProofs` replace `%` by a case
distinction, which makes the rest linear arithmetic. `TailIsLast` is inductive
with `TypeOK`, and it is what the refinement rests on: seen from `tail`, the
slots of stored bytes lie behind (`AheadOfTail`), so that an add overwrites none
of them.

*Job queue.* `ListEnds` says where `head`, `tail` and every `next` point in
terms of `chain`. It is inductive, up to `stale`, with what the code never
checks: no cell is in the list twice, or in it while its job runs or after it
was freed. Nothing is known of the `next` of a job that is alone in the queue,
since `malloc` may return memory with anything in it: it is set when another
job joins it, and if none does, it is what `head` becomes, which is `stale`
unless it is NULL. The FIFO is the sequence of the jobs at `chain`.

*Forwarding table.* With `IdsFit` the places of all entries differ, so a store
changes one entry; the rest is that an entry is valid exactly for a node heard.

*Naming table.* The entries that registrations have written (`Written`) have
only valid ones before them, each is of a registered pair, and each is the first
of its host or right behind it. That is kept because a registration writes to
the first entry that is not valid, or to the one behind the host's own first
entry. All others are as they were in `memory`. So the valid entries are at most
twice as many as the hosts that have registered, and those that were valid by
chance; when the table has more entries than that, one that is not valid stops
every search.

*Links.* Packets start at different places (`sent` is ascending), what has been
unpacked starts before `rd`, and a read unpacks only what starts at `rd`. That
is `ChannelSpec`, which holds of every pipe. For `PipeSpec` and the uploads the
pipe must hold what one read takes (`PipeHoldsARead`; the pipes of Linux hold
64 KiB, and a read takes 104 bytes). As long as nothing is late at most one
packet is in the pipe, and all of it (`KeepsUp`).

*Uploads over one link.* What the sender has still to send is, in `UploadInv`, the packets at
successive places of its files (`Stream`), behind the place of the packet it
sent last. The receiver is in step with that place when its buffer holds the
chunks up to it and the pipe is empty, or those before it and the packet is in
the pipe (`InStep`). That is claimed as long as no packet of the session was
late, which gives `FilesAreWholeOrEmpty`, or none of the current upload was,
which gives `PromptUploadsAreWhole`: an upload that went wrong does not spoil
the next, because a start packet that is read in time drops what is in the
buffer.

*Configuration.* What a loop does to a list of any length would take an
induction, which is why `Sorted` is defined as the growing sequence of a set, and
not by a recursion. That there is just one comes from counting: in a growing
sequence of all members of a set each is at its `Rank`, the number of members up
to it (`SortedIs`, `SortedUnique`). The invariant `NetInv` describes the list of
ports while it is made: those of later links come first, the two of a pipe link
in their order, none twice and none missing (`PortListIs`), and a node that has
its ports has those of the finished list. So its own ones, read from the end, are
a growing sequence of just its links, which is `PortsAreTheLinks`. At most one
end of a link is at a node (`OnePort`), so the ends of a link are all that share
its pipes, which gives `PipesJoinTheEnds`. From there the far end of a port is
the other node of its link (`FarEndIs`), and its port for the link leads back.
That ties the theorems about the network to a configuration: what they assume of
the topology is what `TopologyRight` proves. Nothing is assumed of the memory in
which ports are made.

*Sockets.* A connection is in one place at a time: on its way, in the queue of
one server, or served by one, or the server is done with it (`Arrivals`). It
comes to a queue only from its way, and it is on its way only when its client
has just been connected, for a packet it has counted last (`Sent`), so none is
accepted twice. `accepted` gives the connections of `Reader` an order, and what
it serves, what is in its pipe and what was received come in it (`InTurn`). That
a restart empties queues and pipes only takes from the row.

*Names.* The request of a ping by name, or of what it leads to, may be in the
command pipe of a host, in a job of it, in a packet on a link, in a job of the
host that answers, in the packet of the answer, or in the reply pipe. `Placed`
says that these are never two at once, that no pipe, queue or link holds it
twice, and that there is none when the manager does not wait. Jobs that are
forgotten and hosts that end only take one away. As every packet goes to all
neighbours, that rests on each link's having just one end at the host it is for.
`AsAsked` says that all of it is about the name that the user typed, and that an
id on the way back is one that registered what the name was read as, or was in
the memory with it. The latter comes from the table of the server, which is an
instance of `NameTable`: the lemmas of `NameTableProofs` are used under that
instance, after a proof that its assumptions hold there.

**Only model-checked.** Liveness (`ConsoleFairSpec`, `TrafficDrains`,
`EchoesDie`, `UploadLands`, `NameIsAnswered`, `AcceptedIsServed`): fairness and
`ENABLED` are beyond the prover. Every invariant and every other action property
of the passing runs is stated by a theorem.

## 6. Not modelled

- *Download jobs of the host* (`case 'd'`, `PKT_FILE_DOWNLOAD_SEND`): no process
  ever sends what starts them, because the manager sends `u`.
- *Reading the text of a configuration*, and what becomes of a program whose
  configuration cannot be read: `main.c:28` goes on without hosts, and the
  manager dereferences NULL at the first command.
- *What follows undefined behaviour*: a table that is left, a list of jobs with a
  stale link, a payload that is overrun. The models say that it is reached, and
  what was true until then. Memory that is freed and used after it is followed a
  little further, in `Dns`: it holds what it did or something else, or the
  allocator ends the host.
- *Two whole networks with a socket link between them.* `Sockets` has the link
  alone; for the networks it is a channel that may lose packets, as a pipe is.
- *Functions that are never called*: closing and freeing the manager's ports,
  `init_dns_table`, the file buffer for downloads.
- `client.c`, a separate program, and functions that only print.

## 7. Plan

Done, in this order: `Pipes`, `Manager`, `Host`, `Switch`, `Net367` with
`Console`; `TreeNet` and `Uploads`; `FileBuf` and `JobQueue` with `Fifo`; `SwitchTable`;
`NameTable` and `Dns`; `Link` and `UploadLink`; `NetConfig`; `Sockets`; the
theorems of section 5. What is left: liveness for every network, which is beyond
the prover, and a model of two whole networks with a socket link between them.
