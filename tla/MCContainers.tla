---------------------------- MODULE MCContainers ----------------------------
(***************************************************************************)
(* Small instances of the components that stand alone: data structures,    *)
(* caches, persistent queues, lock objects and clients.  They share no     *)
(* state: the variable which says which of them a behaviour exercises, s   *)
(* is that component's state and ref what its caller believes about it.    *)
(***************************************************************************)
EXTENDS Integers, Sequences

CONSTANTS Parts  \* the components that are checked

VARIABLES which, s, ref

vars == <<which, s, ref>>

Bytes2 == {<<1>>, <<2>>, <<1, 2>>, <<2, 1, 2>>}

RB == INSTANCE RingBuf WITH Sizes <- {2, 3}, Inputs <- Bytes2
AR == INSTANCE AtomicRing WITH Sizes <- {3}, Inputs <- Bytes2
PR == INSTANCE PointerRing WITH Sizes <- {2, 3}, Inputs <- Bytes2
BR == INSTANCE PointerRing WITH Sizes <- {2, 4}, Inputs <- Bytes2
FR == INSTANCE FrameRing WITH Capacity <- 8, Lengths <- {0, 1, 2, 6, 7}, MaxInserts <- 5
XL == INSTANCE XorList WITH MaxNodes <- 4, Values <- {1, 2}
BB == INSTANCE ByteBuffer WITH Bootstrap <- 2, MinRead <- 1, UTFMax <- 3, RuneSelf <- 3,
        Inputs <- {<<1>>, <<3, 2>>, <<2, 1, 2>>}, MaxLen <- 4, MaxCap <- 6
EC == INSTANCE ExpiringCache WITH Keys <- {"k"}, Types <- {"other"}, Width <- 2,
        MaxObjects <- 2, MaxSum <- 0, MaxClock <- 3, DefaultExpirations <- {1}
NC == INSTANCE ExpiringCache WITH Keys <- {"k"}, Types <- {"int", "uint", "float"}, Width <- 2,
        MaxObjects <- 1, MaxSum <- 2, MaxClock <- 1, DefaultExpirations <- {0}
BT == INSTANCE BTree WITH Keys <- 1..9, Versions <- {0}, Degree <- 2, FreeListSize <- 1,
        MaxTrees <- 2, CloneKeys <- 1..4
CH == INSTANCE ConsistentHash WITH Hosts <- {"a", "b", "c"},
        VnodesOf <- [a |-> <<1, 4>>, b |-> <<4, 2>>, c |-> <<2, 5>>], BucketNum <- 7, MaxLoads <- 2, MaxDrift <- 0
CK == INSTANCE Cuckoo WITH Keys <- {"a", "b", "c", "d", "e"}, Values <- {1},
        HashOf <- [a |-> [i |-> 1, tag |-> 0], b |-> [i |-> 2, tag |-> 2], c |-> [i |-> 3, tag |-> 1],
                   d |-> [i |-> 0, tag |-> 1], e |-> [i |-> 1, tag |-> 2]],
        Slots <- 2, HashPower <- 2, MaxReach <- 14, MaxPathDepth <- 3, MaxPuts <- 7
SW == INSTANCE SmoothWeighted WITH Weights <- {1, 3}, MaxFails <- 1, MaxItems <- 3, MaxFailures <- 2,
        MaxCycles <- 1
DV == INSTANCE Diskv WITH Keys <- {"a", "b"}, Values <- {<<1>>, <<2, 2>>},
        PathOf <- [a |-> <<"x", "y">>, b |-> <<"x">>], Readers <- {1, 2}, CacheSizeMax <- 2, SizeLimit <- 16,
        MaxWrites <- 2, MaxReads <- 2
BQ == INSTANCE BigQueue WITH ArenaSize <- 4, OtherSizes <- {3, 5}, LenSize <- 2, MaxInMemArenas <- 3,
        MaxLength <- 7, MaxMessages <- 3, MaxStarts <- 1
LD == INSTANCE LockDetector WITH Goroutines <- {1, 2}, Locks <- {"a", "b"}, RWLocks <- {"b"},
        MapSizes <- {1, 3}, MaxCalls <- 4
FL == INSTANCE FileLock WITH Flocks <- 1..3, MaxErrors <- 1
IV == INSTANCE Intervals WITH MaxTime <- 2, MaxSpans <- 3
BW == INSTANCE BucketWheel WITH Buckets <- 3, Parts <- 2, MaxTicks <- 5, MaxChannels <- 4
CO == INSTANCE Collections WITH minQueueLen <- 2, QueueSizes <- {1, 2, 4}, MaxQueue <- 8, BitSizes <- {1, 9},
        Positions <- {-1, 0, 1, 7, 8, 9, 15, 16, 17}, Items <- {"x", "y", "z", "NaN"}, MaxNaN <- 2
RS == INSTANCE Rsync WITH Bytes <- {0, 1}, BlockSize <- 2, Mod <- 4, MaxSrc <- 3, MaxCache <- 4,
        Faults <- {"none", "short", "error", "readAt", "write", "cached", "cancel", "elsewhere"}
ST == INSTANCE Sentinel WITH Callers <- {1, 2}, First <- <<"a", "b">>, Others <- {"c"}, MaxActive <- 1,
        Ops <- {"master", "subscribe", "role", "close"}, MaxCalls <- 3, MaxFails <- 1,
        InfoCap <- 2, MaxMsgs <- 4
SI == INSTANCE Sentinel WITH Callers <- {1, 2}, First <- <<"a", "b">>, Others <- {"c"}, MaxActive <- 1,
        Ops <- {"query", "discover", "add", "remove", "close"}, MaxCalls <- 3, MaxFails <- 1, InfoCap <- 2, MaxMsgs <- 4
KC == INSTANCE KafkaClient WITH Senders <- {1, 2}, MaxSent <- 2, ChannelSize <- 1,
        Offsets <- 0..3, MaxConsumed <- 4
AT == INSTANCE Atomics WITH Goroutines <- {1, 2}, W32 <- 2, W64 <- 3, Operands <- {1, 3},
        MaxValue <- 6, Floats <- {0, 1}, MaxAdds <- 2

Init ==
  /\ which \in Parts
  /\ \/ which = "ring" /\ RB!Init
     \/ which = "atomicRing" /\ AR!Init
     \/ which = "pointerRing" /\ PR!Init
     \/ which = "boundedRing" /\ BR!RingInit
     \/ which = "expiringCache" /\ EC!Init
     \/ which = "atomics" /\ AT!Init
     \/ which = "kafkaConsumer" /\ KC!NewConsumer
     \/ which = "kafkaProducer" /\ KC!NewAsyncProducer
     \/ which = "sentinelWatcher" /\ ST!WatchInit
     \/ which = "sentinelInstances" /\ SI!Init
     \/ which = "sentinel" /\ ST!Init
     \/ which = "rsync" /\ RS!Init
     \/ which = "set" /\ CO!SetInit
     \/ which = "bitmap" /\ CO!BitInit
     \/ which = "queue" /\ CO!QueueInit
     \/ which = "bucketWheel" /\ BW!Init
     \/ which = "intervals" /\ IV!Init
     \/ which = "fileLock" /\ FL!Init
     \/ which = "lockDetector" /\ LD!Init
     \/ which = "bigQueue" /\ BQ!Init
     \/ which = "diskv" /\ DV!Init
     \/ which = "selector" /\ SW!Init
     \/ which = "cuckoo" /\ CK!Init
     \/ which = "consistentHash" /\ CH!Init
     \/ which = "btree" /\ BT!Init
     \/ which = "numberCache" /\ NC!Init
     \/ which = "byteBuffer" /\ BB!Init
     \/ which = "frameRing" /\ FR!Init
     \/ which = "xorList" /\ XL!Init

Next ==
  /\ UNCHANGED which
  /\ \/ which = "ring" /\ RB!Next
     \/ which = "atomicRing" /\ AR!Next
     \/ which = "pointerRing" /\ PR!Next
     \/ which = "boundedRing" /\ BR!RingNext
     \/ which = "expiringCache" /\ EC!Next
     \/ which = "atomics" /\ AT!Next
     \/ which = "kafkaConsumer" /\ KC!ConsumerNext
     \/ which = "kafkaProducer" /\ KC!ProducerNext
     \/ which = "sentinelWatcher" /\ ST!WatchNext
     \/ which = "sentinelInstances" /\ SI!Next
     \/ which = "sentinel" /\ ST!Next
     \/ which = "rsync" /\ RS!Next
     \/ which = "set" /\ CO!SetNext
     \/ which = "bitmap" /\ CO!BitNext
     \/ which = "queue" /\ CO!QueueNext
     \/ which = "bucketWheel" /\ BW!Next
     \/ which = "intervals" /\ IV!Next
     \/ which = "fileLock" /\ FL!Next
     \/ which = "lockDetector" /\ LD!Next
     \/ which = "bigQueue" /\ BQ!Next
     \/ which = "diskv" /\ DV!Next
     \/ which = "selector" /\ SW!Next
     \/ which = "cuckoo" /\ CK!Next
     \/ which = "consistentHash" /\ CH!Next
     \/ which = "btree" /\ BT!Next
     \/ which = "numberCache" /\ NC!Next
     \/ which = "byteBuffer" /\ BB!Next
     \/ which = "frameRing" /\ FR!Next
     \/ which = "xorList" /\ XL!Next

Spec == Init /\ [][Next]_vars

-----------------------------------------------------------------------------
(***************************************************************************)
(* The ring buffers and the byte buffer show exactly the bytes, pointers   *)
(* or frames that were written and not yet read, oldest first, whatever    *)
(* wraps around, is overwritten, adopted, unread or held by a concurrent   *)
(* reader (container/ring, bytes/buffer).                                     *)
(***************************************************************************)
RingsAgree ==
  /\ which = "ring" => RB!ShowsContents
  /\ which = "atomicRing" => AR!HeldIsOldest
  /\ which = "pointerRing" => PR!ShowsContents
  /\ which = "boundedRing" => BR!RingShowsContents
  /\ which = "byteBuffer" => BB!UnreadRestores
  /\ which = "frameRing" => FR!ReadsInOrder /\ FR!CutKeepsRecords

(***************************************************************************)
(* The walks over the xor-linked list from the front and from the back are *)
(* reverses of each other and hold what was inserted and not removed, so   *)
(* that no link was combined with a wrong neighbour (container/xorlist).   *)
(***************************************************************************)
ListsAgree ==
  /\ which = "xorList" => XL!BothWalksAgree

(***************************************************************************)
(* A B-tree is the ordered set of what was put into it, also through lazy  *)
(* copies: a change of a clone never shows in its sibling, though they     *)
(* share nodes and a free list; nodes stay within their bounds at one      *)
(* depth (container/btree).                                                *)
(***************************************************************************)
TreesAgree ==
  /\ which = "btree" => BT!ClonesAreSets /\ BT!NodesSound

(***************************************************************************)
(* The caches answer what was stored: the expiring cache evicts each       *)
(* object once and loses no update, and the cache of diskv follows its     *)
(* files while readers and writers overlap (container/cache, io/kv/disk).  *)
(***************************************************************************)
CachesAgree ==
  /\ which = "diskv" => DV!CacheFollowsFiles /\ DV!PagesCover
  /\ which = "expiringCache" => EC!EvictedOnce
  /\ which = "numberCache" => NC!EvictedOnce

(***************************************************************************)
(* The circle of the consistent hash follows its members and loads, the    *)
(* cuckoo table keeps each key in one of its two buckets while it moves    *)
(* others, and smooth weighted selection gives each item its share         *)
(* (hash/consistent, container/hashtable, sort/selector).                  *)
(***************************************************************************)
HashingAgrees ==
  /\ which = "selector" => SW!SharesExact
  /\ which = "cuckoo" => CK!KeysStayInTheirBuckets
  /\ which = "consistentHash" => CH!CircleFollowsMembers

(***************************************************************************)
(* Queue, bitmap and set hold what was put into them; the file-backed      *)
(* queue survives a restart and a kill between two writes; a channel of    *)
(* the bucket wheel is closed when it is due and not before                *)
(* (container/queue, container/bitmap, container/set, time/wheel.go).      *)
(***************************************************************************)
QueuesAgree ==
  /\ which = "set" => CO!SetsAreSets
  /\ which = "bitmap" => CO!BitsAreASet
  /\ which = "queue" => CO!QueueKeepsOrder
  /\ which = "bucketWheel" => BW!ClosedWhenDue
  /\ which = "bigQueue" => BQ!QueueSurvives

(***************************************************************************)
(* Objects used by several goroutines or processes: the lock detector's    *)
(* reports are true and complete, a file lock's flags agree with the locks *)
(* held, the sentinel client loses no address or connection, its watcher   *)
(* and the asynchronous producer deliver everything before they stop, but  *)
(* for the races each module names (sync/deadlock, sync/flock.go,          *)
(* database/redis, log/kafka).                                             *)
(***************************************************************************)
SharedAgree ==
  /\ which = "kafkaConsumer" => KC!GapsWarned
  /\ which = "kafkaProducer" => KC!StopWaitsForAnswers
  /\ which = "sentinelWatcher" => ST!WatcherDelivers
  /\ which = "sentinelInstances" => SI!SentinelsKept
  /\ which = "sentinel" => ST!SentinelsKept
  /\ which = "fileLock" => FL!FlagsTrue
  /\ which = "lockDetector" => LD!ReportsTrueAndComplete

(***************************************************************************)
(* Computed values: unions and intersections of time spans are those of    *)
(* the sets of points, a synchronised file equals its source, and every    *)
(* call of an atomic type takes effect once (time/timespan, io/rsync,      *)
(* sync/atomic).                                                           *)
(***************************************************************************)
ValuesAgree ==
  /\ which = "atomics" => AT!CallsTakeEffectOnce
  /\ which = "rsync" => RS!RebuildsSource
  /\ which = "intervals" => IV!SpansArePointSets
=============================================================================
