------------------------------- MODULE Diskv -------------------------------
(***************************************************************************)
(* io/kv/disk/diskv.go and index.go: one file per key, a cache of bounded  *)
(* size that reads fill, and an index of the keys.                         *)
(*                                                                         *)
(* d.mu is held by a write from its first step to its last (s.w); the      *)
(* other methods under the lock are one step.  A reader holds an open file *)
(* and no lock: it goes on reading while others write, and takes the lock  *)
(* again at the end of the file to put what it read into the cache.  The   *)
(* open file of a key that was replaced or removed is detached: the reader *)
(* keeps its contents.  s.lazy are the goroutines by which ReadStream(key, *)
(* true) uncaches a key later.                                             *)
(*                                                                         *)
(* A value is a sequence of bytes.  s.temp is whether TempDir is set.      *)
(* PathOf[key] is the Path of its transformed key, and s.dirs the set of   *)
(* directories, each given by its path.                                    *)
(*                                                                         *)
(* ref.opened is what a reader's file held when it was opened, ref.changed *)
(* the readers whose key's file changed since.  For a cached key, ref.from *)
(* is what the file held when the reader that cached it opened it;         *)
(* ref.stale are the keys cached by a reader of ref.changed, or changed by *)
(* a write that failed.  ref.drift is by how much the accounted size is    *)
(* off: a key cached again is counted twice, a late uncaching subtracts    *)
(* what is no longer there.  ref.passed are the keys of which the index    *)
(* did not learn: by EraseAll, a moving Import or a failed write.          *)
(***************************************************************************)
EXTENDS Integers, Sequences, FiniteSets
LOCAL INSTANCE SequencesExt

CONSTANTS Keys, Values, PathOf, Readers, CacheSizeMax, SizeLimit, MaxWrites, MaxReads

VARIABLES s, ref

None == <<-1>>
NoWrite == [key |-> "none", val |-> <<>>, part |-> <<>>]
NoReader == [key |-> "none", file |-> None, buf |-> <<>>, eof |-> FALSE]

\* The walk over the files that fills the index.
KeysPrefix(file) == {k \in Keys : file[k] # None}

New(temp, file, dirs) ==
  [temp |-> temp, file |-> file, dirs |-> dirs, cache |-> [k \in Keys |-> None], cacheSize |-> 0,
   index |-> KeysPrefix(file), w |-> NoWrite, lazy |-> EmptyBag,
   readers |-> [r \in Readers |-> NoReader], panic |-> FALSE]

Init == /\ \E temp \in BOOLEAN : s = New(temp, [k \in Keys |-> None], {})
        /\ ref = [writes |-> 0, reads |-> 0, opened |-> [r \in Readers |-> None], changed |-> {},
                  from |-> [k \in Keys |-> None], stale |-> {}, drift |-> 0, passed |-> {}]

Unlocked == s.w = NoWrite /\ ~s.panic

Dirs(path) == {SubSeq(path, 1, i) : i \in 1..Len(path)}
ensurePathWithLock(t, k) == [t EXCEPT !.dirs = @ \cup Dirs(PathOf[k])]

\* The readers of a file that is no longer the key's keep its contents.
Detach(t, k) ==
  [t EXCEPT !.readers = [r \in Readers |->
     IF t.readers[r].key = k /\ t.readers[r].file = None THEN [@[r] EXCEPT !.file = t.file[k]] ELSE @[r]]]
Replace(t, k, v) == [Detach(t, k) EXCEPT !.file[k] = v]

uncacheWithLock(t, k, sz) == [t EXCEPT !.cacheSize = (@ - sz + SizeLimit) % SizeLimit, !.cache[k] = None]
bustCacheWithLock(t, k) == IF t.cache[k] = None THEN t ELSE uncacheWithLock(t, k, Len(t.cache[k]))

\* Readers that hold the key's file open see it change.
Changed(k) == ref.changed \cup {r \in Readers : s.readers[r].key = k}

\* A write that fails: the file may have changed, the cache and the index know
\* nothing of it.
Missed == ref' = IF s.temp THEN ref
                 ELSE [ref EXCEPT !.stale = @ \cup {s.w.key}, !.changed = Changed(s.w.key),
                                  !.passed = @ \cup {s.w.key}]

\* WriteStream up to the creation of the file, which truncates the key's file
\* unless there is a directory for temporary files.
WriteStream(k, v) ==
  /\ Unlocked /\ ref.writes < MaxWrites
  /\ s' = [ensurePathWithLock(s, k) EXCEPT !.w = [key |-> k, val |-> v, part |-> <<>>],
                                          !.file[k] = IF s.temp THEN @ ELSE <<>>]
  /\ ref' = [ref EXCEPT !.writes = @ + 1, !.changed = IF s.temp THEN @ ELSE Changed(k)]

\* io.Copy, a byte at a time.
Copy ==
  /\ s.w # NoWrite /\ Len(s.w.part) < Len(s.w.val)
  /\ LET part == SubSeq(s.w.val, 1, Len(s.w.part) + 1)
     IN  s' = [s EXCEPT !.w.part = part, !.file[s.w.key] = IF s.temp THEN @ ELSE part]
  /\ UNCHANGED ref

\* A failing step of the write removes the file that was written.
WriteFails ==
  /\ s.w # NoWrite
  /\ LET t == [s EXCEPT !.w = NoWrite]
     IN  s' = IF s.temp THEN t ELSE Replace(t, s.w.key, None)
  /\ Missed

\* A failing Close of the written file leaves it where it is.
CloseFails ==
  /\ s.w # NoWrite /\ s.w.part = s.w.val
  /\ s' = [s EXCEPT !.w = NoWrite]
  /\ Missed

writeStreamWithLock ==
  LET k == s.w.key IN
  /\ s.w # NoWrite /\ s.w.part = s.w.val
  /\ LET t == [s EXCEPT !.w = NoWrite, !.index = @ \cup {k}]
     IN  s' = bustCacheWithLock(IF s.temp THEN Replace(t, k, s.w.val) ELSE t, k)
  /\ ref' = [ref EXCEPT !.changed = IF s.temp THEN Changed(k) ELSE @, !.passed = @ \ {k}]

\* Import by rename; an Import that copies is a write.
Import(k, v) ==
  /\ Unlocked /\ ref.writes < MaxWrites
  /\ s' = bustCacheWithLock(Replace(ensurePathWithLock(s, k), k, v), k)
  /\ ref' = [ref EXCEPT !.writes = @ + 1, !.changed = Changed(k),
                         !.passed = IF k \in s.index THEN @ \ {k} ELSE @ \cup {k}]

\* ReadStream opens the file, if it does not answer from the cache.
ReadStream(r, k, direct) ==
  /\ Unlocked /\ ref.reads < MaxReads
  /\ r = CHOOSE q \in Readers : s.readers[q] = NoReader
  /\ direct \/ s.cache[k] = None
  /\ s' = [s EXCEPT !.lazy = IF s.cache[k] = None THEN @ ELSE @ (+) SetToBag({<<k, Len(s.cache[k])>>}),
                    !.readers[r] = IF s.file[k] = None THEN @ ELSE [NoReader EXCEPT !.key = k]]
  /\ ref' = [ref EXCEPT !.reads = @ + 1, !.changed = @ \ {r}, !.opened[r] = s.file[k]]

CachedLen(t, k) == IF t.cache[k] = None THEN 0 ELSE Len(t.cache[k])

\* The goroutine of a direct read.
UncacheLater(k, sz) ==
  /\ Unlocked /\ BagIn(<<k, sz>>, s.lazy)
  /\ s' = [uncacheWithLock(s, k, sz) EXCEPT !.lazy = @ (-) SetToBag({<<k, sz>>})]
  /\ ref' = [ref EXCEPT !.drift = @ - sz + CachedLen(s, k)]

\* siphon.Read, a byte at a time.
Contents(r) == LET x == s.readers[r] IN IF x.file = None THEN s.file[x.key] ELSE x.file

SiphonRead(r) ==
  LET x == s.readers[r]
      n == Len(x.buf)
  IN  /\ x # NoReader /\ ~x.eof /\ ~s.panic
      /\ s' = [s EXCEPT !.readers[r] = IF n < Len(Contents(r)) THEN [@ EXCEPT !.buf = Append(@, Contents(r)[n + 1])]
                                       ELSE [@ EXCEPT !.eof = TRUE]]
      /\ UNCHANGED ref

Safe(t, size) == (t.cacheSize + size) % SizeLimit <= CacheSizeMax

\* ensureCacheSpaceWithLock visits the keys in the order of a map, which is any.
ensureCacheSpaceWithLock(order, size) ==
  FoldLeft(LAMBDA t, k : IF Safe(t, size) THEN t ELSE bustCacheWithLock(t, k), s, order)

\* At the end of the file: cacheWithLock, and the file is closed.
cacheWithLock(r) ==
  LET x == s.readers[r]
      size == Len(x.buf)
      cached == {k \in Keys : s.cache[k] # None}
  IN
  /\ Unlocked /\ x # NoReader /\ x.eof
  /\ \E order \in SetToSeqs(cached) :
       LET t == [ensureCacheSpaceWithLock(order, size) EXCEPT !.readers[r] = NoReader] IN
       IF size > CacheSizeMax THEN s' = [s EXCEPT !.readers[r] = NoReader] /\ UNCHANGED ref
       ELSE IF ~Safe(t, size) THEN s' = [t EXCEPT !.panic = TRUE] /\ UNCHANGED ref
       ELSE /\ s' = [t EXCEPT !.cache[x.key] = x.buf, !.cacheSize = (@ + size) % SizeLimit]
            /\ ref' = [ref EXCEPT !.drift = @ + CachedLen(t, x.key), !.from[x.key] = ref.opened[r], !.opened[r] = None,
                 !.stale = IF r \in ref.changed THEN @ \cup {x.key} ELSE @ \ {x.key}]

\* Directories without entries are removed from the deepest on.
pruneDirsWithLock(t, k) ==
  LET path == PathOf[k]
      Empty(u, dir) == /\ \A j \in Keys : u.file[j] # None => PathOf[j] # dir
                       /\ \A e \in u.dirs : Len(e) = Len(dir) + 1 => SubSeq(e, 1, Len(dir)) # dir
      Pruned(u, i) == LET dir == SubSeq(path, 1, Len(path) - i + 1)
                      IN  IF Empty(u, dir) THEN [u EXCEPT !.dirs = @ \ {dir}] ELSE u
  IN  FoldLeft(Pruned, t, [i \in 1..Len(path) |-> i])

Erase(k) ==
  /\ Unlocked
  /\ LET t == [bustCacheWithLock(s, k) EXCEPT !.index = @ \ {k}]
     IN  s' = IF s.file[k] = None THEN t ELSE pruneDirsWithLock(Replace(t, k, None), k)
  /\ ref' = [ref EXCEPT !.changed = Changed(k), !.passed = @ \ {k}]

\* EraseAll does not touch the index.
EraseAll ==
  /\ Unlocked
  /\ s' = [FoldLeft(LAMBDA t, k : Replace(t, k, None), s, SetToSeq(Keys)) EXCEPT
             !.cache = [k \in Keys |-> None], !.cacheSize = 0, !.dirs = {}]
  /\ ref' = [ref EXCEPT !.changed = Readers, !.drift = 0, !.passed = s.index]

Has(k) == s.cache[k] # None \/ s.file[k] # None

\* The process ends at any point; New finds the files.
Restart ==
  /\ ref.writes < MaxWrites
  /\ s' = New(s.temp, s.file, s.dirs)
  /\ ref' = [ref EXCEPT !.opened = [r \in Readers |-> None], !.changed = {},
                         !.from = [k \in Keys |-> None], !.stale = {}, !.drift = 0, !.passed = {}]

\* BTreeIndex.Keys over the keys 1, 2, ... of an index, from = 0 for "".
IndexKeys(index, from, n) ==
  LET skipFirst == from \in index
      all == SetToSortSeq({k \in index : skipFirst => k >= from}, <)
      keys == SubSeq(all, 1, IF Len(all) < n THEN Len(all) ELSE IF n < 1 THEN 1 ELSE n)
  IN  IF index = {} THEN <<>> ELSE IF skipFirst /\ keys # <<>> THEN Tail(keys) ELSE keys

Next ==
  \/ \E k \in Keys :
       \/ \E v \in Values : WriteStream(k, v) \/ Import(k, v)
       \/ Erase(k)
       \/ \E r \in Readers, direct \in BOOLEAN : s.readers[r] = NoReader /\ ReadStream(r, k, direct)
  \/ Copy \/ WriteFails \/ CloseFails \/ writeStreamWithLock \/ EraseAll \/ Restart
  \/ \E r \in Readers : SiphonRead(r) \/ cacheWithLock(r)
  \/ \E p \in BagToSet(s.lazy) : UncacheLater(p[1], p[2])

-----------------------------------------------------------------------------
CachedKeys == {k \in Keys : s.cache[k] # None}
OnDisk == KeysPrefix(s.file)
Total == FoldLeft(LAMBDA n, k : n + Len(s.cache[k]), 0, SetToSeq(CachedKeys))

(***************************************************************************)
(* The cache answers what the file holds, unless a reader cached what it   *)
(* had begun to read before the file changed, or a write failed half way.  *)
(* With a directory for temporary files, what it answers is always what    *)
(* the key's file held when that reader opened it: a Read that overlaps a  *)
(* Write and ends after it puts the value before the Write back into the   *)
(* cache, and no reader gets, and the cache never holds, part of a value,  *)
(* even across restarts.  The accounted size is that of the cached values  *)
(* plus the drift of readers that cached one key twice and of late         *)
(* uncachings; while that is 0 the values are within the limit, and making *)
(* room panics only after a drift.  The index names the keys on disk,      *)
(* except those that EraseAll, a moving Import or a failed write passed by *)
(* and that no write or Erase mended since.  A file has its directories.   *)
(***************************************************************************)
CacheFollowsFiles ==
  /\ s.w = NoWrite => \A k \in CachedKeys \ ref.stale : s.cache[k] = s.file[k]
  /\ s.temp => /\ \A k \in OnDisk : s.file[k] \in Values
               /\ \A k \in CachedKeys : s.cache[k] = ref.from[k] /\ s.cache[k] \in Values
               /\ \A r \in Readers : s.readers[r].eof => s.readers[r].buf = ref.opened[r]
  /\ s.cacheSize = (Total + ref.drift + SizeLimit) % SizeLimit
  /\ ref.drift = 0 => Total <= CacheSizeMax /\ ~s.panic
  /\ s.w = NoWrite => \A k \in Keys \ ref.passed : k \in s.index <=> k \in OnDisk
  /\ \A k \in OnDisk : Dirs(PathOf[k]) \subseteq s.dirs

(***************************************************************************)
(* Asking the index for pages of n keys, each from the last key of the one *)
(* before, yields every key once, in order, for n >= 2: the page after a   *)
(* key has n - 1 keys.  (With n = 1 it is empty.)                          *)
(***************************************************************************)
PagesCover ==
  ref.writes + ref.reads = 0 =>
  \A index \in SUBSET (1..4), n \in 2..3 :
    LET Page(q) == q \o IndexKeys(index, IF q = <<>> THEN 0 ELSE Last(q), n)
    IN  FoldLeft(LAMBDA q, i : Page(q), <<>>, <<1, 2, 3, 4>>) = SetToSortSeq(index, <)
=============================================================================
