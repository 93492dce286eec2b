-------------------------- MODULE FuseBuffersProofs --------------------------
(***************************************************************************)
(* Proofs about FuseBuffers, for every set of names, values, handle slots    *)
(* and inodes, and whichever way image calls may fail.                       *)
(***************************************************************************)
EXTENDS FuseBuffers, FiniteSetTheorems, WellFoundedInduction, TLAPS

\* Inode numbers that have not been given out have nothing.
Fresh ==
  \A i \in Inodes : i >= nextIno =>
    node[i] = Unset /\ buf[i] = Unset /\ i \notin dirty /\ pending[i] = NoUpdate

\* Every name has an inode of its own, and it is live.
Linked ==
  /\ \A m \in Names : entry[m] # Unset => entry[m] \in Live
  /\ \A m, n \in Names : entry[m] = entry[n] /\ entry[m] # Unset => m = n

\* A slot that is taken, even by a handle the kernel has released, keeps its inode
\* alive, and a writable handle its buffer.
HandlesHold ==
  /\ \A fh \in Fhs : handles[fh] # Unset => handles[fh] \in Live
  /\ \A fh \in held : handles[fh] # Unset
  /\ wr \subseteq held
  /\ \A fh \in wr : buf[handles[fh]] # Unset

\* A buffer that is not dirty holds what the image does.
Buffers ==
  /\ \A i \in dirty : buf[i] # Unset
  /\ \A i \in Live \ dirty : buf[i] # Unset => buf[i] = node[i].data

\* VisibleIsLatest, field by field.
Matches(i) ==
  /\ latest[i].dir = node[i].dir
  /\ latest[i].data = IF buf[i] # Unset THEN buf[i] ELSE node[i].data
  /\ latest[i].load = IF pending[i].load # Unset THEN pending[i].load ELSE node[i].load
  /\ latest[i].locked =
       IF pending[i].locked # Unset THEN pending[i].locked ELSE node[i].locked

Faithful == \A i \in Live : Matches(i)

CleanEnd == result = "clean" => phase = "stopped" /\ dirty = {} /\ PendingMeta = {}

IInv ==
  /\ TypeOK /\ Fresh /\ Linked /\ HandlesHold /\ Buffers /\ Faithful
  /\ ReadAheadIsCurrent /\ CleanEnd

\* The strict inclusion of finite sets is well founded, so a set of numbers has a least
\* one: where flush_pending begins.
LEMMA Minimum ==
  ASSUME NEW S \in SUBSET Nat, S # {}
  PROVE  \E x \in S : \A y \in S : x <= y
<1> DEFINE Upto(x) == {y \in S : y <= x}
           T == {Upto(x) : x \in S}
<1>0. \A y \in S : y \in Nat
  OBVIOUS
<1>1. ASSUME NEW x \in S PROVE IsFiniteSet(Upto(x)) /\ Upto(x) \in SUBSET S
  <2>1. x \in Int /\ 0 \in Int /\ Upto(x) \in SUBSET (0 .. x)
    <3>1. ASSUME NEW z \in Upto(x) PROVE z \in 0 .. x
      BY <1>0
    <3>2. x \in Int /\ 0 \in Int
      BY <1>0
    <3> QED
      BY <3>1, <3>2
  <2>2. IsFiniteSet(0 .. x)
    BY <2>1, FS_Interval
  <2> QED
    BY <2>1, <2>2, FS_Subset
<1>2. T \subseteq FiniteSubsetsOf(S) /\ T # {}
  BY <1>1 DEF FiniteSubsetsOf
<1>3. PICK U \in T : \A V \in T : <<V, U>> \notin StrictSubsetOrdering(S)
  BY <1>2, FS_StrictSubsetOrderingWellFounded, WFMin
<1>4. PICK x \in S : U = Upto(x)
  OBVIOUS
<1>5. ASSUME NEW y \in S, y < x PROVE FALSE
  <2>1. Upto(y) \in T 
    OBVIOUS
  <2>2. Upto(y) \subseteq Upto(x) 
    <3>1. ASSUME NEW z \in Upto(y) PROVE z \in Upto(x)
      BY <1>0, <1>5
    <3> QED
      BY <3>1
  <2>3. x \in Upto(x) /\ x \notin Upto(y)
    BY <1>5
  <2> QED
    BY <1>1, <1>3, <1>4, <2>1, <2>2, <2>3 DEF StrictSubsetOrdering
<1> QED
  BY <1>5

USE FuseAssumption, UnsetAssumption DEF FuseAssumption

\* An inode with nothing pending has an update that sets nothing.
LEMMA NoUpdateType == NoUpdate \in Updates /\ NoUpdate.load = Unset /\ NoUpdate.locked = Unset
BY DEF NoUpdate, Updates

\* What create_file and make_directory leave is a node.
LEMMA NewNodeType == ASSUME NEW dir \in BOOLEAN PROVE NewNode(dir) \in Nodes
BY DEF NewNode, Nodes

\* Applying an update to a node keeps its contents and replaces the fields it sets.
LEMMA UpdatedNode ==
  ASSUME NEW n \in Nodes, NEW u \in Updates
  PROVE  /\ Updated(n, u) \in Nodes
         /\ Updated(n, u).dir = n.dir /\ Updated(n, u).data = n.data
         /\ Updated(n, u).load = IF u.load # Unset THEN u.load ELSE n.load
         /\ Updated(n, u).locked = IF u.locked # Unset THEN u.locked ELSE n.locked
BY DEF Updated, Nodes, Updates

\* Coalescing an update into a pending one: the later setting of a field wins.
LEMMA UpdatedUpdate ==
  ASSUME NEW n \in Updates, NEW u \in Updates
  PROVE  /\ Updated(n, u) \in Updates
         /\ Updated(n, u).load = IF u.load # Unset THEN u.load ELSE n.load
         /\ Updated(n, u).locked = IF u.locked # Unset THEN u.locked ELSE n.locked
BY DEF Updated, Updates

\* Opening for reading takes a slot and touches nothing else.
LEMMA OpenReadInv ==
  ASSUME IInv, NEW fh \in Fhs, NEW i \in Inodes, OpenRead(fh, i)
  PROVE  IInv'
<1> USE DEF IInv
<1>1. /\ i \in Live /\ handles[fh] = Unset
      /\ handles' = [handles EXCEPT ![fh] = i]
      /\ held' = held \cup {fh} /\ wr' = wr \ {fh}
      /\ UNCHANGED <<entry, node, nextIno, failed, ahead, buf, dirty, pending, phase,
                     result, latest>>
  BY DEF OpenRead, NewHandle, imageVars
<1>2. TypeOK'
  BY <1>1 DEF TypeOK, Live, Prefetched
<1>3. Fresh' /\ Linked' /\ Buffers' /\ CleanEnd' /\ Faithful'
  BY <1>1 DEF Fresh, Linked, Buffers, CleanEnd, Live, PendingMeta, Faithful, Matches
<1>4. HandlesHold'
  BY <1>1 DEF HandlesHold, Live, TypeOK
<1>5. ReadAheadIsCurrent'
  BY <1>1 DEF ReadAheadIsCurrent, Prefetched, Live, TypeOK
<1> QED
  BY <1>2, <1>3, <1>4, <1>5

\* _write_buffer gives an open file's contents as they read now.
LEMMA LoadedType ==
  ASSUME IInv, NEW i \in Live
  PROVE  /\ Loaded(i) \in Values /\ Loaded(i) # Unset
         /\ Loaded(i) = IF buf[i] # Unset THEN buf[i] ELSE node[i].data
BY DEF IInv, TypeOK, Live, Loaded, Nodes

\* Dropping read-ahead leaves less of it.
LEMMA FewerPrefetched ==
  ASSUME TypeOK, NEW a \in [Fhs -> Values \cup {Unset}],
         \A fh \in Fhs : a[fh] # Unset => a[fh] = ahead[fh]
  PROVE  Cardinality(Prefetched(a)) <= AheadLimit
<1>1. Prefetched(a) \in SUBSET Prefetched(ahead) /\ Prefetched(ahead) \in SUBSET Fhs
  BY DEF Prefetched
<1>2. IsFiniteSet(Prefetched(ahead))
  BY <1>1, FS_Subset
<1>3. Cardinality(Prefetched(a)) <= Cardinality(Prefetched(ahead))
  BY <1>1, <1>2, FS_Subset
<1>4. Cardinality(Prefetched(a)) \in Nat /\ Cardinality(Prefetched(ahead)) \in Nat
  BY <1>1, <1>2, FS_Subset, FS_CardinalityType
<1> QED
  BY <1>3, <1>4 DEF TypeOK

\* What _clear_inode_read_ahead leaves is part of what there was, and nothing of the
\* inode is left; a buffer that was there already had ended it.
LEMMA AheadFacts ==
  ASSUME IInv, NEW i \in Inodes
  PROVE  \A a \in {AheadOnceLoaded(i), AheadWithoutInode(i)} :
           /\ a \in [Fhs -> Values \cup {Unset}]
           /\ Cardinality(Prefetched(a)) <= AheadLimit
           /\ \A g \in Fhs : a[g] # Unset => a[g] = ahead[g] /\ handles[g] # i
<1> USE DEF IInv
<1>1. ahead \in [Fhs -> Values \cup {Unset}]
  BY DEF TypeOK
<1>2. ASSUME NEW a \in {AheadOnceLoaded(i), AheadWithoutInode(i)}
      PROVE  /\ a \in [Fhs -> Values \cup {Unset}]
             /\ \A g \in Fhs : a[g] # Unset => a[g] = ahead[g] /\ handles[g] # i
  BY <1>1 DEF AheadOnceLoaded, AheadWithoutInode, ReadAheadIsCurrent, Prefetched
<1> QED
  BY <1>2, FewerPrefetched

\* The same of _clear_read_ahead, for one handle.
LEMMA HandleAheadFacts ==
  ASSUME IInv, NEW fh \in Fhs
  PROVE  LET a == AheadWithoutHandle(fh)
         IN  /\ a \in [Fhs -> Values \cup {Unset}]
             /\ Cardinality(Prefetched(a)) <= AheadLimit
             /\ \A g \in Fhs : a[g] # Unset => a[g] = ahead[g] /\ g # fh
<1>1. ahead \in [Fhs -> Values \cup {Unset}]
  BY DEF IInv, TypeOK
<1>2. /\ AheadWithoutHandle(fh) \in [Fhs -> Values \cup {Unset}]
      /\ \A g \in Fhs : AheadWithoutHandle(fh)[g] # Unset =>
           AheadWithoutHandle(fh)[g] = ahead[g] /\ g # fh
  BY <1>1 DEF AheadWithoutHandle
<1> QED
  BY <1>2, FewerPrefetched DEF IInv

\* Opening for writing loads the buffer and may truncate it.
LEMMA OpenWriteInv ==
  ASSUME IInv, NEW fh \in Fhs, NEW i \in Inodes, NEW trunc \in BOOLEAN, OpenWrite(fh, i, trunc)
  PROVE  IInv'
<1> USE DEF IInv
<1>1. /\ i \in Live /\ handles[fh] = Unset
      /\ handles' = [handles EXCEPT ![fh] = i]
      /\ held' = held \cup {fh} /\ wr' = wr \cup {fh}
      /\ ahead' = AheadOnceLoaded(i)
      /\ buf' = [buf EXCEPT ![i] = IF trunc THEN Empty ELSE Loaded(i)]
      /\ dirty' = IF trunc THEN dirty \cup {i} ELSE dirty
      /\ latest' = IF trunc THEN [latest EXCEPT ![i].data = Empty] ELSE latest
      /\ phase = "serving"
      /\ UNCHANGED <<entry, node, nextIno, failed, pending, phase, result>>
  BY DEF OpenWrite, NewHandle, imageVars, Serving
<1>2. Loaded(i) \in Values /\ Loaded(i) # Unset
      /\ Loaded(i) = IF buf[i] # Unset THEN buf[i] ELSE node[i].data
  BY <1>1, LoadedType
<1>3. /\ ahead' \in [Fhs -> Values \cup {Unset}]
      /\ Cardinality(Prefetched(ahead')) <= AheadLimit
      /\ \A g \in Fhs : ahead'[g] # Unset => ahead'[g] = ahead[g] /\ handles[g] # i
  BY <1>1, AheadFacts
<1>4. TypeOK'
  <2>1. latest' \in [Inodes -> Nodes] /\ buf' \in [Inodes -> Values \cup {Unset}]
    BY <1>1, <1>2 DEF TypeOK, Nodes
  <2> QED
    BY <1>1, <1>3, <2>1 DEF TypeOK
<1>5. Fresh' /\ Linked' /\ CleanEnd'
  BY <1>1, <1>2 DEF Fresh, Linked, CleanEnd, Live, TypeOK
<1>6. Buffers'
  BY <1>1, <1>2 DEF Buffers, Live, TypeOK
<1>7. Faithful'
  BY <1>1, <1>2 DEF Faithful, Matches, Live, TypeOK, Nodes
<1>8. HandlesHold'
  BY <1>1, <1>2 DEF HandlesHold, Live, TypeOK
<1>9. ReadAheadIsCurrent'
  <2> SUFFICES ASSUME NEW g \in Fhs, ahead'[g] # Unset
               PROVE  /\ handles'[g] \in Live' /\ buf'[handles'[g]] = Unset
                      /\ ahead'[g] = latest'[handles'[g]].data
    BY DEF ReadAheadIsCurrent, Prefetched
  <2>1. /\ ahead[g] # Unset /\ ahead'[g] = ahead[g] /\ handles[g] # i
        /\ handles[g] \in Live /\ buf[handles[g]] = Unset
        /\ ahead[g] = latest[handles[g]].data
    BY <1>3 DEF ReadAheadIsCurrent, Prefetched
  <2>2. handles'[g] = handles[g] /\ Live' = Live
    BY <1>1, <2>1 DEF TypeOK, Live
  <2> QED
    BY <1>1, <2>1, <2>2 DEF TypeOK, Live, Nodes
<1> QED
  BY <1>4, <1>5, <1>6, <1>7, <1>8, <1>9

\* A read serves, drops or refills read-ahead, with what the file holds.
LEMMA ReadInv ==
  ASSUME IInv, NEW fh \in Fhs, Read(fh)
  PROVE  IInv'
<1> USE DEF IInv
<1> DEFINE i == handles[fh]
<1>1. /\ i \in Live /\ fh \in held
      /\ UNCHANGED <<entry, node, nextIno, failed, handles, held, wr, buf, dirty, pending,
                     phase, result, latest>>
  BY DEF Read, imageVars, handleVars, HandlesHold
<1>2. /\ ahead' \in [Fhs -> Values \cup {Unset}]
      /\ Cardinality(Prefetched(ahead')) <= AheadLimit
      /\ \A g \in Fhs : ahead'[g] # Unset =>
           \/ ahead'[g] = ahead[g]
           \/ g = fh /\ buf[i] = Unset /\ ahead'[g] = node[i].data
  <2>1. CASE ahead' = AheadWithoutHandle(fh)
    BY <2>1, <1>1, HandleAheadFacts
  <2>2. CASE ahead' = ahead
    BY <2>2 DEF TypeOK
  <2>3. CASE /\ buf[i] = Unset
             /\ \E evicted \in SUBSET Fhs : ahead' = AheadStored(fh, node[i].data, evicted)
             /\ Cardinality(Prefetched(ahead')) <= AheadLimit
    <3>1. node[i].data \in Values
      BY <1>1 DEF TypeOK, Live, Nodes
    <3> QED
      BY <2>3, <3>1 DEF AheadStored, TypeOK
  <2> QED
    BY <2>1, <2>2, <2>3 DEF Read
<1>3. TypeOK'
  BY <1>1, <1>2 DEF TypeOK
<1>4. Fresh' /\ Linked' /\ CleanEnd' /\ Buffers' /\ HandlesHold' /\ Faithful'
  BY <1>1 DEF Fresh, Linked, CleanEnd, Live, Buffers, HandlesHold, Faithful, Matches,
     PendingMeta
<1>5. ReadAheadIsCurrent'
  BY <1>1, <1>2 DEF ReadAheadIsCurrent, Prefetched, Live, Faithful, Matches
<1> QED
  BY <1>3, <1>4, <1>5

\* A write changes the buffer every handle on the inode shares.
LEMMA WriteInv ==
  ASSUME IInv, NEW fh \in Fhs, NEW v \in Values, NEW o \in Outcome, Write(fh, v, o)
  PROVE  IInv'
<1> USE DEF IInv
<1> DEFINE i == handles[fh]
<1>1. /\ i \in Live /\ buf[i] # Unset /\ ahead' = AheadWithoutInode(i)
      /\ \/ UNCHANGED <<buf, dirty, latest>>
         \/ /\ buf' = [buf EXCEPT ![i] = v] /\ dirty' = dirty \cup {i}
            /\ latest' = [latest EXCEPT ![i].data = v]
      /\ failed' \in BOOLEAN /\ phase = "serving"
      /\ UNCHANGED <<entry, node, nextIno, handles, held, wr, pending, phase, result>>
  BY DEF Write, imageVars, handleVars, HandlesHold, Note, Serving, TypeOK
<1>2. i \in Inodes /\ v # Unset
  BY <1>1 DEF Live
<1>3. /\ ahead' \in [Fhs -> Values \cup {Unset}]
      /\ Cardinality(Prefetched(ahead')) <= AheadLimit
      /\ \A g \in Fhs : ahead'[g] # Unset => ahead'[g] = ahead[g] /\ handles[g] # i
  BY <1>1, <1>2, AheadFacts
<1>4. TypeOK'
  <2>1. latest' \in [Inodes -> Nodes] /\ buf' \in [Inodes -> Values \cup {Unset}]
    BY <1>1, <1>2 DEF TypeOK, Nodes
  <2> QED
    BY <1>1, <1>2, <1>3, <2>1 DEF TypeOK
<1>5. Fresh' /\ Linked' /\ CleanEnd'
  BY <1>1, <1>2 DEF Fresh, Linked, CleanEnd, Live, TypeOK
<1>6. Buffers' /\ HandlesHold'
  BY <1>1, <1>2 DEF Buffers, HandlesHold, Live, TypeOK
<1>7. Faithful'
  BY <1>1, <1>2 DEF Faithful, Matches, Live, TypeOK, Nodes
<1>8. ReadAheadIsCurrent'
  <2> SUFFICES ASSUME NEW g \in Fhs, ahead'[g] # Unset
               PROVE  /\ handles[g] \in Live' /\ buf'[handles[g]] = Unset
                      /\ ahead'[g] = latest'[handles[g]].data
    BY <1>1 DEF ReadAheadIsCurrent, Prefetched
  <2>1. /\ ahead[g] # Unset /\ ahead'[g] = ahead[g] /\ handles[g] # i
        /\ handles[g] \in Live /\ buf[handles[g]] = Unset
        /\ ahead[g] = latest[handles[g]].data
    BY <1>3 DEF ReadAheadIsCurrent, Prefetched
  <2> QED
    BY <1>1, <2>1 DEF TypeOK, Live, Nodes
<1> QED
  BY <1>4, <1>5, <1>6, <1>7, <1>8

-----------------------------------------------------------------------------
(* Commits                                                                  *)

\* What a commit stores, field by field.
LEMMA StoredNode ==
  ASSUME IInv, NEW i \in Live, NEW data \in BOOLEAN, NEW meta \in BOOLEAN,
         data => i \in dirty
  PROVE  LET n == Stored(i, data, meta)
         IN  /\ n \in Nodes /\ n # Unset /\ n.dir = node[i].dir
             /\ n.data = IF data THEN buf[i] ELSE node[i].data
             /\ n.load = IF meta /\ pending[i].load # Unset THEN pending[i].load
                         ELSE node[i].load
             /\ n.locked = IF meta /\ pending[i].locked # Unset THEN pending[i].locked
                           ELSE node[i].locked
<1> USE DEF IInv
<1>1. node[i] \in Nodes /\ pending[i] \in Updates /\ (data => buf[i] \in Values)
  BY DEF TypeOK, Live, Buffers
<1> DEFINE m == IF data THEN [node[i] EXCEPT !.data = buf[i]] ELSE node[i]
<1>2. /\ m \in Nodes /\ m.dir = node[i].dir /\ m.load = node[i].load
      /\ m.locked = node[i].locked /\ m.data = IF data THEN buf[i] ELSE node[i].data
  BY <1>1 DEF Nodes
<1>3. Stored(i, data, meta) = IF meta THEN Updated(m, pending[i]) ELSE m
  BY DEF Stored
<1> HIDE DEF m
<1>4. CASE meta
  BY <1>1, <1>2, <1>3, <1>4, UpdatedNode
<1>5. CASE ~meta
  BY <1>2, <1>3, <1>5
<1> QED
  BY <1>4, <1>5

\* A commit of an inode's data, its attributes, both or neither, after which handles
\* and read-ahead may be closed, and the buffer dropped if no handle needs it.
LEMMA CommitInv ==
  ASSUME IInv, NEW i \in Live, NEW data \in BOOLEAN, NEW meta \in BOOLEAN,
         data => i \in dirty,
         node' = [node EXCEPT ![i] = Stored(i, data, meta)],
         dirty' = IF data THEN dirty \ {i} ELSE dirty,
         pending' = IF meta THEN [pending EXCEPT ![i] = NoUpdate] ELSE pending,
         entry' = entry, nextIno' = nextIno, latest' = latest,
         failed' \in BOOLEAN,
         phase' \in {"serving", "flushing", "stopped"},
         result' \in {"none", "retained", "aborted"},
         buf' \in [Inodes -> Values \cup {Unset}],
         \A j \in Inodes : \/ buf'[j] = buf[j]
                           \/ /\ j = i /\ buf'[j] = Unset /\ i \notin dirty'
                              /\ \A fh \in Fhs : handles'[fh] # i,
         handles' \in [Fhs -> Inodes \cup {Unset}], held' \in SUBSET held,
         wr' \in SUBSET (held' \cap wr),
         \A fh \in Fhs : \/ handles'[fh] = handles[fh]
                         \/ handles'[fh] = Unset /\ fh \notin held' /\ ahead'[fh] = Unset,
         ahead' \in [Fhs -> Values \cup {Unset}],
         Cardinality(Prefetched(ahead')) <= AheadLimit,
         \A fh \in Fhs : ahead'[fh] # Unset => ahead'[fh] = ahead[fh]
  PROVE  IInv'
<1> USE DEF IInv
<1> DEFINE n == Stored(i, data, meta)
<1>1. /\ n \in Nodes /\ n # Unset /\ n.dir = node[i].dir
      /\ n.data = IF data THEN buf[i] ELSE node[i].data
      /\ n.load = IF meta /\ pending[i].load # Unset THEN pending[i].load ELSE node[i].load
      /\ n.locked = IF meta /\ pending[i].locked # Unset THEN pending[i].locked
                    ELSE node[i].locked
  BY StoredNode
<1> HIDE DEF n
<1>2. /\ i \in Inodes /\ node' \in [Inodes -> Nodes \cup {Unset}] /\ node'[i] = n
      /\ \A j \in Inodes : j # i => node'[j] = node[j]
  BY <1>1 DEF n, TypeOK, Live
<1>3. Live' = Live
  BY <1>1, <1>2 DEF Live
<1>4. pending' \in [Inodes \cup {Root} -> Updates]
      /\ \A j \in Inodes : pending'[j] = IF meta /\ j = i THEN NoUpdate ELSE pending[j]
  BY <1>2, NoUpdateType DEF TypeOK
<1>5. TypeOK'
  BY <1>2, <1>4 DEF TypeOK
<1>6. Fresh' /\ Linked' /\ CleanEnd'
  BY <1>2, <1>3, <1>4 DEF Fresh, Linked, CleanEnd, TypeOK, Live
<1>7. HandlesHold'
  BY <1>3 DEF HandlesHold, TypeOK
<1>8. Buffers'
  BY <1>1, <1>2, <1>3 DEF Buffers, TypeOK, Live
<1>9. Faithful'
  <2> SUFFICES ASSUME NEW j \in Live PROVE Matches(j)'
    BY <1>3 DEF Faithful
  <2>1. Matches(j) /\ j \in Inodes /\ (j \notin dirty => buf[j] \in {Unset, node[j].data})
    BY DEF Faithful, Live, Buffers
  <2>2. CASE j # i
    BY <1>2, <1>4, <2>1, <2>2 DEF Matches
  <2>3. CASE j = i
    <3>1. latest'[j].data = IF buf'[j] # Unset THEN buf'[j] ELSE n.data
      <4>1. CASE data
        BY <1>1, <2>1, <2>3, <4>1 DEF Matches, Buffers
      <4>2. CASE ~data
        BY <1>1, <2>1, <2>3, <4>2 DEF Matches, Buffers
      <4> QED
        BY <4>1, <4>2
    <3>2. /\ latest'[j].load = IF pending'[j].load # Unset THEN pending'[j].load ELSE n.load
          /\ latest'[j].locked =
               IF pending'[j].locked # Unset THEN pending'[j].locked ELSE n.locked
      <4>1. CASE meta
        BY <1>1, <1>4, <2>1, <2>3, <4>1, NoUpdateType DEF Matches
      <4>2. CASE ~meta
        BY <1>1, <1>4, <2>1, <2>3, <4>2 DEF Matches
      <4> QED
        BY <4>1, <4>2
    <3> QED
      BY <1>1, <1>2, <2>1, <2>3, <3>1, <3>2 DEF Matches
  <2> QED
    BY <2>2, <2>3
<1>10. ReadAheadIsCurrent'
  BY <1>3 DEF ReadAheadIsCurrent, Prefetched, Live
<1> QED
  BY <1>5, <1>6, <1>7, <1>8, <1>9, <1>10

\* _flush_inode and _commit_metadata are a commit of the inode's data, its attributes,
\* both or neither.
LEMMA FlushFacts ==
  ASSUME IInv, NEW i \in Live, NEW o1 \in Outcome, NEW o2 \in Outcome, FlushInode(i, o1, o2)
  PROVE  \E data, meta \in BOOLEAN :
           /\ data <=> StoresData(i, o1)
           /\ meta => PassesData(i, o1)
           /\ node' = [node EXCEPT ![i] = Stored(i, data, meta)]
           /\ dirty' = IF data THEN dirty \ {i} ELSE dirty
           /\ pending' = IF meta THEN [pending EXCEPT ![i] = NoUpdate] ELSE pending
           /\ failed' \in BOOLEAN
<1> DEFINE data == StoresData(i, o1)
           meta == PassesData(i, o1) /\ StoresMeta(i, o2)
<1>1. data \in BOOLEAN /\ meta \in BOOLEAN
  BY DEF StoresData, PassesData, StoresMeta
<1>2. failed' \in BOOLEAN
  BY DEF FlushInode, Note
<1>3. /\ node' = [node EXCEPT ![i] = Stored(i, data, meta)]
      /\ dirty' = IF data THEN dirty \ {i} ELSE dirty
      /\ pending' = IF meta THEN [pending EXCEPT ![i] = NoUpdate] ELSE pending
  BY DEF FlushInode, StillDirty
<1> QED
  BY <1>1, <1>2, <1>3

\* A flush commits and leaves the handle as it was.
LEMMA FlushInv ==
  ASSUME IInv, NEW fh \in Fhs, NEW o1 \in Outcome, NEW o2 \in Outcome, Flush(fh, o1, o2)
  PROVE  IInv'
<1> DEFINE i == handles[fh]
<1>1. i \in Live /\ FlushInode(i, o1, o2) /\ phase = "serving"
      /\ UNCHANGED <<entry, nextIno, handles, held, wr, ahead, buf, phase, result, latest>>
  BY DEF Flush, IInv, HandlesHold, handleVars, Serving
<1>2. PICK data \in BOOLEAN, meta \in BOOLEAN :
        /\ data <=> StoresData(i, o1)
        /\ node' = [node EXCEPT ![i] = Stored(i, data, meta)]
        /\ dirty' = IF data THEN dirty \ {i} ELSE dirty
        /\ pending' = IF meta THEN [pending EXCEPT ![i] = NoUpdate] ELSE pending
        /\ failed' \in BOOLEAN
  BY <1>1, FlushFacts
<1>3. /\ data => i \in dirty
      /\ result \in {"none", "retained", "aborted"}
      /\ buf \in [Inodes -> Values \cup {Unset}] /\ handles \in [Fhs -> Inodes \cup {Unset}]
      /\ wr \in SUBSET (held \cap wr) /\ ahead \in [Fhs -> Values \cup {Unset}]
      /\ Cardinality(Prefetched(ahead)) <= AheadLimit
  BY <1>1, <1>2 DEF IInv, TypeOK, CleanEnd, HandlesHold, StoresData
<1> HIDE DEF i
<1>4. /\ ahead' = ahead /\ Cardinality(Prefetched(ahead')) <= AheadLimit
      /\ wr' \in SUBSET (held' \cap wr) /\ phase' \in {"serving", "flushing", "stopped"}
  BY <1>1, <1>3
<1> QED
  BY <1>1, <1>2, <1>3, <1>4, CommitInv

\* A release commits; its handle, and a buffer nobody else needs, go only if that works.
LEMMA ReleaseInv ==
  ASSUME IInv, NEW fh \in Fhs, NEW o1 \in Outcome, NEW o2 \in Outcome, Release(fh, o1, o2)
  PROVE  IInv'
<1> DEFINE i == handles[fh]
<1>1. /\ i \in Live /\ FlushInode(i, o1, o2) /\ phase = "serving"
      /\ held' = held \ {fh} /\ wr' = wr \ {fh}
      /\ UNCHANGED <<entry, nextIno, phase, result, latest>>
  BY DEF Release, IInv, HandlesHold, Serving
<1>2. PICK data \in BOOLEAN, meta \in BOOLEAN :
        /\ data <=> StoresData(i, o1)
        /\ node' = [node EXCEPT ![i] = Stored(i, data, meta)]
        /\ dirty' = IF data THEN dirty \ {i} ELSE dirty
        /\ pending' = IF meta THEN [pending EXCEPT ![i] = NoUpdate] ELSE pending
        /\ failed' \in BOOLEAN
  BY <1>1, FlushFacts
<1>3. /\ data => i \in dirty
      /\ i \in Inodes
      /\ result \in {"none", "retained", "aborted"}
      /\ buf \in [Inodes -> Values \cup {Unset}] /\ handles \in [Fhs -> Inodes \cup {Unset}]
      /\ wr \subseteq held /\ ahead \in [Fhs -> Values \cup {Unset}]
      /\ Cardinality(Prefetched(ahead)) <= AheadLimit
  BY <1>1, <1>2 DEF IInv, TypeOK, CleanEnd, HandlesHold, StoresData, Live
<1>4. /\ held' \in SUBSET held /\ wr' \in SUBSET (held' \cap wr)
      /\ phase' \in {"serving", "flushing", "stopped"}
  BY <1>1, <1>3
<1>5. CASE ReleaseEnds(i, o1, o2)
  <2>1. /\ handles' = [handles EXCEPT ![fh] = Unset]
        /\ ahead' = AheadWithoutHandle(fh)
        /\ buf' = IF \E g \in Fhs \ {fh} : handles[g] = i
                  THEN buf ELSE [buf EXCEPT ![i] = Unset]
    BY <1>5 DEF Release
  <2>2. i \notin dirty'
    BY <1>2, <1>5 DEF ReleaseEnds, PassesData, StoresData
  <2>3. /\ ahead' \in [Fhs -> Values \cup {Unset}]
        /\ Cardinality(Prefetched(ahead')) <= AheadLimit
        /\ \A g \in Fhs : ahead'[g] # Unset => ahead'[g] = ahead[g]
        /\ ahead'[fh] = Unset
    BY <1>3, <2>1, HandleAheadFacts
  <2>4. /\ handles' \in [Fhs -> Inodes \cup {Unset}]
        /\ \A g \in Fhs : \/ handles'[g] = handles[g]
                          \/ handles'[g] = Unset /\ g \notin held' /\ ahead'[g] = Unset
    BY <1>1, <1>3, <2>1, <2>3
  <2>5. /\ buf' \in [Inodes -> Values \cup {Unset}]
        /\ \A j \in Inodes : \/ buf'[j] = buf[j]
                             \/ /\ j = i /\ buf'[j] = Unset
                                /\ \A g \in Fhs : handles'[g] # i
    BY <1>3, <2>1
  <2> HIDE DEF i
  <2> QED
    BY <1>1, <1>2, <1>3, <1>4, <2>2, <2>3, <2>4, <2>5, CommitInv
<1>6. CASE ~ReleaseEnds(i, o1, o2)
  <2>1. UNCHANGED <<handles, ahead, buf>>
    BY <1>6 DEF Release
  <2>2. Cardinality(Prefetched(ahead')) <= AheadLimit
    BY <1>3, <2>1
  <2> HIDE DEF i
  <2> QED
    BY <1>1, <1>2, <1>3, <1>4, <2>1, <2>2, CommitInv
<1> QED
  BY <1>5, <1>6

\* The inode flush_pending takes next is one of those it was to flush.
LEMMA LeastIn == ASSUME NEW S \in SUBSET (Inodes \cup {Root}), S # {} PROVE Least(S) \in S
<1>1. \A i \in S : i \in Nat
  BY DEF Inodes, Root
<1>2. \E x \in S : \A y \in S : x <= y
  BY <1>1, Minimum
<1> QED
  BY <1>2 DEF Least

\* flush_pending commits a dirty inode, or ends the mount at the first error.
LEMMA FlushNextBufferInv ==
  ASSUME IInv, NEW o \in Outcome, FlushNextBuffer(o)
  PROVE  IInv'
<1> DEFINE i == Least(dirty)
<1>1. /\ phase = "flushing" /\ o \in Outcomes(i) /\ failed' \in BOOLEAN /\ dirty # {}
      /\ UNCHANGED <<entry, nextIno, handles, held, wr, ahead, pending, latest>>
  BY DEF FlushNextBuffer, handleVars, Note
<1>2. /\ result \in {"none", "retained", "aborted"}
      /\ buf \in [Inodes -> Values \cup {Unset}] /\ handles \in [Fhs -> Inodes \cup {Unset}]
      /\ wr \in SUBSET (held \cap wr) /\ ahead \in [Fhs -> Values \cup {Unset}]
      /\ Cardinality(Prefetched(ahead)) <= AheadLimit
  BY <1>1 DEF IInv, TypeOK, CleanEnd, HandlesHold
<1>3. CASE o = "ok"
  <2>1. i \in Live
    BY <1>1, <1>3 DEF Outcomes
  <2>2. /\ node' = [node EXCEPT ![i] = Stored(i, TRUE, FALSE)]
        /\ dirty' = dirty \ {i}
        /\ buf' = [buf EXCEPT ![i] = IF KeepBuffer(i) THEN @ ELSE Unset]
        /\ UNCHANGED <<phase, result>>
    BY <1>3 DEF FlushNextBuffer
  <2>3. /\ buf' \in [Inodes -> Values \cup {Unset}]
        /\ \A j \in Inodes : \/ buf'[j] = buf[j]
                             \/ /\ j = i /\ buf'[j] = Unset
                                /\ \A g \in Fhs : handles[g] # i
    BY <1>2, <2>1, <2>2 DEF Live, KeepBuffer, Opened
  <2>4. i \in dirty
    BY <1>1, LeastIn DEF IInv, TypeOK
  <2>5. Cardinality(Prefetched(ahead')) <= AheadLimit
    BY <1>1, <1>2
  <2> HIDE DEF i
  <2> QED
    BY <1>1, <1>2, <2>1, <2>2, <2>3, <2>4, <2>5, CommitInv
<1>4. CASE o # "ok"
  <2>1. UNCHANGED <<node, dirty, buf>> /\ phase' = "stopped" /\ result' = "retained"
    BY <1>4 DEF FlushNextBuffer, AfterFlushError
  <2> QED
    BY <1>1, <2>1 DEF IInv, TypeOK, Fresh, Linked, HandlesHold, Buffers, Faithful, Matches,
       ReadAheadIsCurrent, CleanEnd, Live, Prefetched
<1> QED
  BY <1>3, <1>4

\* flush_pending commits an inode's attributes, or ends the mount at the first error.
LEMMA FlushNextMetadataInv ==
  ASSUME IInv, NEW o \in Outcome, FlushNextMetadata(o)
  PROVE  IInv'
<1> DEFINE i == Least(PendingMeta)
<1>1. /\ phase = "flushing" /\ o \in Outcomes(i) /\ failed' \in BOOLEAN /\ dirty' = dirty
      /\ UNCHANGED <<entry, nextIno, handles, held, wr, ahead, buf, latest>>
  BY DEF FlushNextMetadata, handleVars, Note
<1>2. /\ result \in {"none", "retained", "aborted"}
      /\ buf \in [Inodes -> Values \cup {Unset}] /\ handles \in [Fhs -> Inodes \cup {Unset}]
      /\ wr \in SUBSET (held \cap wr) /\ ahead \in [Fhs -> Values \cup {Unset}]
      /\ Cardinality(Prefetched(ahead)) <= AheadLimit
  BY <1>1 DEF IInv, TypeOK, CleanEnd, HandlesHold
<1>3. CASE o = "ok"
  <2>1. i \in Live
    BY <1>1, <1>3 DEF Outcomes
  <2>2. /\ node' = [node EXCEPT ![i] = Stored(i, FALSE, TRUE)]
        /\ pending' = [pending EXCEPT ![i] = NoUpdate]
        /\ UNCHANGED <<phase, result>>
    BY <1>3 DEF FlushNextMetadata
  <2>3. Cardinality(Prefetched(ahead')) <= AheadLimit
    BY <1>1, <1>2
  <2> HIDE DEF i
  <2> QED
    BY <1>1, <1>2, <2>1, <2>2, <2>3, CommitInv
<1>4. CASE o # "ok"
  <2>1. UNCHANGED <<node, pending>> /\ phase' = "stopped" /\ result' = "retained"
    BY <1>4 DEF FlushNextMetadata, AfterFlushError
  <2> QED
    BY <1>1, <2>1 DEF IInv, TypeOK, Fresh, Linked, HandlesHold, Buffers, Faithful, Matches,
       ReadAheadIsCurrent, CleanEnd, Live, Prefetched
<1> QED
  BY <1>3, <1>4

\* The end of the loop and of the mount: only a full flush can be clean.
LEMMA LoopInv ==
  ASSUME IInv, StopLoop \/ LoopRaises \/ \E valid \in BOOLEAN : CloseImage(valid)
  PROVE  IInv'
<1>1. /\ UNCHANGED <<entry, node, nextIno, failed, handles, held, wr, ahead, buf, dirty,
                     pending, latest>>
      /\ phase' \in {"serving", "flushing", "stopped"}
      /\ result' \in {"none", "clean", "retained", "aborted"}
      /\ result' = "clean" => phase' = "stopped" /\ dirty = {} /\ PendingMeta = {}
  <2>1. CASE StopLoop \/ LoopRaises
    BY <2>1 DEF StopLoop, LoopRaises, imageVars, handleVars, IInv, TypeOK, CleanEnd, Serving
  <2>2. ASSUME NEW valid \in BOOLEAN, CloseImage(valid)
        PROVE  /\ dirty = {} /\ PendingMeta = {} /\ phase' = "stopped"
               /\ result' \in {"clean", "retained"}
               /\ UNCHANGED <<imageVars, failed, handleVars, ahead, buf, dirty, pending,
                              latest>>
    <3>1. result' = IF valid /\ ~failed THEN "clean" ELSE "retained"
      BY <2>2 DEF CloseImage
    <3> QED
      BY <2>2, <3>1 DEF CloseImage, BuffersFlushed
  <2> QED
    BY <2>1, <2>2 DEF imageVars, handleVars
<1> QED
  BY <1>1 DEF IInv, TypeOK, Fresh, Linked, HandlesHold, Buffers, Faithful, Matches,
     ReadAheadIsCurrent, CleanEnd, Live, Prefetched, PendingMeta

-----------------------------------------------------------------------------
(* Requests on attributes and names                                         *)

\* An attribute change joins the pending update of its inode.
LEMMA SetXattrInv ==
  ASSUME IInv, NEW i \in Inodes \cup {Root}, NEW u \in Updates, SetXattr(i, u)
  PROVE  IInv'
<1> USE DEF IInv
<1>1. /\ i \in Live \cup {Root} /\ phase = "serving"
      /\ pending' = [pending EXCEPT ![i] = Updated(pending[i], u)]
      /\ latest' = IF i = Root THEN latest ELSE [latest EXCEPT ![i] = Updated(latest[i], u)]
      /\ UNCHANGED <<entry, node, nextIno, failed, handles, held, wr, ahead, buf, dirty, phase,
                     result>>
  BY DEF SetXattr, imageVars, handleVars, Serving
<1>2. Root \notin Inodes /\ pending[i] \in Updates
      /\ \A j \in Live : j \in Inodes /\ latest[j] \in Nodes /\ node[j] \in Nodes
  BY DEF TypeOK, Root, Inodes, Live
<1>3. /\ Updated(pending[i], u) \in Updates
      /\ Updated(pending[i], u).load = IF u.load # Unset THEN u.load ELSE pending[i].load
      /\ Updated(pending[i], u).locked =
           IF u.locked # Unset THEN u.locked ELSE pending[i].locked
  BY <1>2, UpdatedUpdate
<1>4. i # Root =>
        /\ i \in Live /\ latest'[i] = Updated(latest[i], u) /\ latest'[i] \in Nodes
        /\ latest'[i].dir = latest[i].dir /\ latest'[i].data = latest[i].data
        /\ latest'[i].load = IF u.load # Unset THEN u.load ELSE latest[i].load
        /\ latest'[i].locked = IF u.locked # Unset THEN u.locked ELSE latest[i].locked
  <2> SUFFICES ASSUME i # Root
               PROVE  /\ i \in Live /\ latest'[i] = Updated(latest[i], u)
                      /\ latest'[i] \in Nodes
                      /\ latest'[i].dir = latest[i].dir /\ latest'[i].data = latest[i].data
                      /\ latest'[i].load = IF u.load # Unset THEN u.load ELSE latest[i].load
                      /\ latest'[i].locked =
                           IF u.locked # Unset THEN u.locked ELSE latest[i].locked
    OBVIOUS
  <2>1. i \in Live /\ latest'[i] = Updated(latest[i], u)
    BY <1>1, <1>2 DEF TypeOK
  <2> QED
    BY <1>2, <2>1, UpdatedNode
<1>5. /\ \A j \in Inodes : j # i => pending'[j] = pending[j] /\ latest'[j] = latest[j]
      /\ pending'[i] = Updated(pending[i], u)
  BY <1>1 DEF TypeOK
<1>6. TypeOK'
  <2>1. latest' \in [Inodes -> Nodes]
    BY <1>1, <1>2, <1>4 DEF TypeOK
  <2>2. pending' \in [Inodes \cup {Root} -> Updates]
    BY <1>1, <1>3 DEF TypeOK
  <2> QED
    BY <1>1, <2>1, <2>2 DEF TypeOK
<1>7. Fresh' /\ Linked' /\ CleanEnd'
  BY <1>1, <1>2, <1>5 DEF Fresh, Linked, CleanEnd, Live, TypeOK
<1>8. HandlesHold' /\ Buffers'
  BY <1>1 DEF HandlesHold, Buffers, Live
<1>9. Faithful'
  <2> SUFFICES ASSUME NEW j \in Live PROVE Matches(j)'
    BY <1>1 DEF Faithful, Live
  <2>1. Matches(j)
    BY DEF Faithful
  <2>2. CASE j # i
    BY <1>1, <1>2, <1>5, <2>1, <2>2 DEF Matches
  <2>3. CASE j = i
    BY <1>1, <1>2, <1>3, <1>4, <1>5, <2>1, <2>3 DEF Matches
  <2> QED
    BY <2>2, <2>3
<1>10. ReadAheadIsCurrent'
  <2>1. \A j \in Live : latest'[j].data = latest[j].data
    BY <1>1, <1>2, <1>4, <1>5
  <2> QED
    BY <1>1, <2>1 DEF ReadAheadIsCurrent, Prefetched, Live
<1> QED
  BY <1>6, <1>7, <1>8, <1>9, <1>10

\* A new file or directory gets a number that nothing knows yet.
LEMMA AddsFacts ==
  ASSUME IInv, NEW name \in Names, NEW dir \in BOOLEAN, NEW o \in Outcome, Adds(name, dir, o)
  PROVE  /\ failed' \in BOOLEAN /\ phase = "serving"
         /\ o # "ok" => UNCHANGED <<entry, node, nextIno, latest>>
         /\ o = "ok" =>
              /\ nextIno \in Inodes /\ nextIno' = nextIno + 1
              /\ nextIno' \in 3 .. MaxInode + 1
              /\ node[nextIno] = Unset /\ buf[nextIno] = Unset /\ nextIno \notin dirty
              /\ pending[nextIno] = NoUpdate
              /\ entry' = [entry EXCEPT ![name] = nextIno]
              /\ node' = [node EXCEPT ![nextIno] = NewNode(dir)]
              /\ latest' = [latest EXCEPT ![nextIno] = NewNode(dir)]
              /\ NewNode(dir) \in Nodes /\ NewNode(dir) # Unset
              /\ NewNode(dir).dir = dir /\ NewNode(dir).data = Empty
              /\ NewNode(dir).load = Unset /\ NewNode(dir).locked = FALSE
<1>1. /\ failed' \in BOOLEAN /\ phase = "serving" /\ nextIno \in Inodes
      /\ o # "ok" => UNCHANGED <<entry, node, nextIno, latest>>
      /\ o = "ok" => /\ nextIno' = nextIno + 1
                     /\ entry' = [entry EXCEPT ![name] = nextIno]
                     /\ node' = [node EXCEPT ![nextIno] = NewNode(dir)]
                     /\ latest' = [latest EXCEPT ![nextIno] = NewNode(dir)]
  BY DEF Adds, Note, Serving, imageVars
<1>2. nextIno' = nextIno + 1 => nextIno' \in 3 .. MaxInode + 1
  BY <1>1 DEF Inodes
<1>3. /\ node[nextIno] = Unset /\ buf[nextIno] = Unset /\ nextIno \notin dirty
      /\ pending[nextIno] = NoUpdate
  BY <1>1 DEF IInv, Fresh, Inodes
<1>4. NewNode(dir) \in Nodes /\ NewNode(dir) # Unset
  BY NewNodeType
<1>5. /\ NewNode(dir).dir = dir /\ NewNode(dir).data = Empty
      /\ NewNode(dir).load = Unset /\ NewNode(dir).locked = FALSE
  BY DEF NewNode
<1> QED
  BY <1>1, <1>2, <1>3, <1>4, <1>5

\* An inode that has just been made, with an open handle and a buffer or without.
LEMMA AddedInv ==
  ASSUME IInv, NEW name \in Names, NEW dir \in BOOLEAN, NEW n \in Nodes,
         n.dir = dir, n.data = Empty, n.load = Unset, n.locked = FALSE, n # Unset,
         nextIno \in Inodes, nextIno' = nextIno + 1, nextIno' \in 3 .. MaxInode + 1,
         node[nextIno] = Unset, buf[nextIno] = Unset, nextIno \notin dirty,
         pending[nextIno] = NoUpdate,
         entry' = [entry EXCEPT ![name] = nextIno],
         node' = [node EXCEPT ![nextIno] = n],
         latest' = [latest EXCEPT ![nextIno] = n],
         failed' \in BOOLEAN,
         UNCHANGED <<ahead, dirty, pending, phase, result>>,
         \/ UNCHANGED <<handles, held, wr, buf>>
         \/ \E fh \in Fhs :
              /\ handles[fh] = Unset /\ handles' = [handles EXCEPT ![fh] = nextIno]
              /\ held' = held \cup {fh} /\ wr' = wr \cup {fh}
              /\ buf' = [buf EXCEPT ![nextIno] = Empty]
  PROVE  IInv'
<1> USE DEF IInv
<1>1. /\ Live' = Live \cup {nextIno} /\ nextIno \notin Live /\ nextIno \in Int
      /\ \A j \in Live : node'[j] = node[j] /\ latest'[j] = latest[j] /\ j \in Inodes
      /\ node'[nextIno] = n /\ latest'[nextIno] = n
  BY DEF Live, TypeOK, Inodes
<1>2. /\ \A j \in Live : buf'[j] = buf[j]
      /\ buf'[nextIno] \in {Unset, Empty} /\ buf' \in [Inodes -> Values \cup {Unset}]
      /\ \A j \in Inodes : j # nextIno => buf'[j] = buf[j]
      /\ \A j \in Inodes : buf[j] # Unset => buf'[j] # Unset
  BY <1>1 DEF TypeOK
<1>3. TypeOK'
  <2>1. /\ entry' \in [Names -> Inodes \cup {Unset}] /\ node' \in [Inodes -> Nodes \cup {Unset}]
        /\ latest' \in [Inodes -> Nodes]
    BY DEF TypeOK
  <2>2. handles' \in [Fhs -> Inodes \cup {Unset}] /\ held' \in SUBSET Fhs /\ wr' \in SUBSET Fhs
    BY DEF TypeOK
  <2> QED
    BY <1>2, <2>1, <2>2 DEF TypeOK
<1>4. Fresh'
  <2> SUFFICES ASSUME NEW i \in Inodes, i >= nextIno'
               PROVE  /\ node'[i] = Unset /\ buf'[i] = Unset /\ i \notin dirty
                      /\ pending[i] = NoUpdate
    BY DEF Fresh
  <2>1. i >= nextIno /\ i # nextIno
    BY DEF Inodes
  <2> QED
    BY <1>2, <2>1 DEF Fresh, TypeOK
<1>5. Linked'
  BY <1>1 DEF Linked, TypeOK
<1>6. CleanEnd'
  BY DEF CleanEnd, PendingMeta
<1>7. HandlesHold'
  BY <1>1, <1>2 DEF HandlesHold, TypeOK
<1>8. Buffers'
  BY <1>1, <1>2 DEF Buffers, TypeOK
<1>9. Faithful'
  BY <1>1, <1>2, NoUpdateType DEF Faithful, Matches
<1>10. ReadAheadIsCurrent'
  <2> SUFFICES ASSUME NEW g \in Fhs, ahead[g] # Unset
               PROVE  /\ handles'[g] \in Live' /\ buf'[handles'[g]] = Unset
                      /\ ahead[g] = latest'[handles'[g]].data
    BY DEF ReadAheadIsCurrent, Prefetched
  <2>1. /\ handles[g] \in Live /\ buf[handles[g]] = Unset
        /\ ahead[g] = latest[handles[g]].data
    BY DEF ReadAheadIsCurrent, Prefetched
  <2>2. handles'[g] = handles[g]
    BY <1>1, <2>1 DEF TypeOK
  <2> QED
    BY <1>1, <1>2, <2>1, <2>2
<1> QED
  BY <1>3, <1>4, <1>5, <1>6, <1>7, <1>8, <1>9, <1>10

\* A request that was refused has changed nothing, but the session may have failed.
LEMMA RefusedInv ==
  ASSUME IInv, failed' \in BOOLEAN,
         UNCHANGED <<entry, node, nextIno, handles, held, wr, ahead, buf, dirty, pending, phase,
                     result, latest>>
  PROVE  IInv'
BY DEF IInv, TypeOK, Fresh, Linked, HandlesHold, Buffers, Faithful, Matches,
   ReadAheadIsCurrent, CleanEnd, Live, Prefetched, PendingMeta

\* create makes a file and hands out a writable handle on it.
LEMMA CreateInv ==
  ASSUME IInv, NEW fh \in Fhs, NEW name \in Names, NEW o \in Outcome, Create(fh, name, o)
  PROVE  IInv'
<1>1. Adds(name, FALSE, o) /\ UNCHANGED <<ahead, dirty, pending, phase, result>>
  BY DEF Create
<1>2. CASE o = "ok"
  <2>1. /\ handles[fh] = Unset /\ handles' = [handles EXCEPT ![fh] = nextIno]
        /\ held' = held \cup {fh} /\ wr' = wr \cup {fh}
        /\ buf' = [buf EXCEPT ![nextIno] = Empty]
    BY <1>2 DEF Create, NewHandle
  <2> QED
    BY <1>1, <1>2, <2>1, AddsFacts, AddedInv
<1>3. CASE o # "ok"
  <2>1. UNCHANGED <<handles, held, wr, buf>>
    BY <1>3 DEF Create, handleVars
  <2> QED
    BY <1>1, <1>3, <2>1, AddsFacts, RefusedInv
<1> QED
  BY <1>2, <1>3

\* mkdir makes a directory, which no handle can open.
LEMMA MkdirInv ==
  ASSUME IInv, NEW name \in Names, NEW o \in Outcome, Mkdir(name, o)
  PROVE  IInv'
<1>1. /\ Adds(name, TRUE, o)
      /\ UNCHANGED <<handles, held, wr, ahead, buf, dirty, pending, phase, result>>
  BY DEF Mkdir, handleVars
<1>2. CASE o = "ok"
  BY <1>1, <1>2, AddsFacts, AddedInv
<1>3. CASE o # "ok"
  BY <1>1, <1>3, AddsFacts, RefusedInv
<1> QED
  BY <1>2, <1>3

\* Truncation through setattr, whether or not its commit succeeds.
LEMMA SetSizeInv ==
  ASSUME IInv, NEW i \in Inodes, NEW v \in Values, NEW owner \in BOOLEAN,
         NEW o1 \in Outcome, NEW o2 \in Outcome, SetSize(i, v, owner, o1, o2)
  PROVE  IInv'
<1> USE DEF IInv
<1>1. /\ i \in Live /\ phase = "serving" /\ ahead' = AheadOnceLoaded(i)
      /\ failed' \in BOOLEAN
      /\ UNCHANGED <<entry, nextIno, handles, held, wr, pending, phase, result>>
  BY DEF SetSize, Serving, Note, handleVars
<1>2. /\ node[i] \in Nodes /\ node[i] # Unset /\ latest[i] \in Nodes /\ v # Unset
      /\ Loaded(i) \in Values /\ Loaded(i) # Unset
      /\ Loaded(i) = IF buf[i] # Unset THEN buf[i] ELSE node[i].data
  BY <1>1, LoadedType DEF TypeOK, Live
<1>3. \/ /\ buf' = [buf EXCEPT ![i] = Loaded(i)]
         /\ UNCHANGED <<node, dirty, latest>>
      \/ /\ buf' = [buf EXCEPT ![i] = v] /\ dirty' = dirty \cup {i} /\ node' = node
         /\ latest' = [latest EXCEPT ![i].data = v]
      \/ /\ buf' = [buf EXCEPT ![i] = IF KeepBuffer(i) THEN v ELSE Unset]
         /\ dirty' = dirty \ {i} /\ node' = [node EXCEPT ![i].data = v]
         /\ latest' = [latest EXCEPT ![i].data = v]
  BY DEF SetSize
<1>4. /\ \/ buf'[i] = Loaded(i) /\ node'[i] = node[i] /\ latest'[i] = latest[i]
            /\ (i \in dirty' <=> i \in dirty)
         \/ buf'[i] = v /\ node'[i] = node[i] /\ latest'[i] = [latest[i] EXCEPT !.data = v]
            /\ i \in dirty'
         \/ /\ buf'[i] = (IF KeepBuffer(i) THEN v ELSE Unset) /\ i \notin dirty'
            /\ node'[i] = [node[i] EXCEPT !.data = v]
            /\ latest'[i] = [latest[i] EXCEPT !.data = v]
      /\ \A j \in Inodes : j # i => /\ buf'[j] = buf[j] /\ node'[j] = node[j]
                                    /\ latest'[j] = latest[j] /\ (j \in dirty' <=> j \in dirty)
      /\ dirty' \in SUBSET Inodes
      /\ DOMAIN buf' = Inodes /\ DOMAIN node' = Inodes /\ DOMAIN latest' = Inodes
      /\ buf' = [j \in Inodes |-> buf'[j]] /\ node' = [j \in Inodes |-> node'[j]]
      /\ latest' = [j \in Inodes |-> latest'[j]]
  BY <1>3 DEF TypeOK
<1>5. /\ \A n \in Nodes : LET m == [n EXCEPT !.data = v]
                          IN  /\ m \in Nodes /\ m.data = v /\ m.dir = n.dir
                              /\ m.load = n.load /\ m.locked = n.locked
  BY DEF Nodes
<1>6. /\ node'[i] \in Nodes /\ node'[i] # Unset /\ latest'[i] \in Nodes
      /\ buf'[i] \in Values \cup {Unset} /\ (i \in dirty' => buf'[i] # Unset)
      /\ i \notin dirty' /\ buf'[i] # Unset => buf'[i] = node'[i].data
      /\ \A fh \in Fhs : handles[fh] = i => buf'[i] # Unset
  <2>1. \A fh \in Fhs : handles[fh] = i => KeepBuffer(i)
    BY DEF KeepBuffer, Opened
  <2>2. node'[i] \in Nodes /\ node'[i] # Unset /\ latest'[i] \in Nodes
    <3>1. node'[i] \in Nodes /\ latest'[i] \in Nodes
      BY <1>2, <1>4, <1>5
    <3> QED
      BY <3>1
  <2>3. buf'[i] \in Values \cup {Unset} /\ (i \in dirty' => buf'[i] # Unset)
    BY <1>2, <1>4 DEF Buffers
  <2>4. i \notin dirty' /\ buf'[i] # Unset => buf'[i] = node'[i].data
    <3>1. CASE buf'[i] = Loaded(i) /\ node'[i] = node[i] /\ (i \in dirty' <=> i \in dirty)
      BY <1>1, <1>2, <3>1 DEF Buffers
    <3>2. CASE /\ buf'[i] = (IF KeepBuffer(i) THEN v ELSE Unset)
               /\ node'[i] = [node[i] EXCEPT !.data = v]
      BY <1>2, <1>5, <3>2
    <3> QED
      BY <1>4, <3>1, <3>2
  <2>5. \A fh \in Fhs : handles[fh] = i => buf'[i] # Unset
    BY <1>2, <1>4, <2>1
  <2> QED
    BY <2>2, <2>3, <2>4, <2>5
<1>7. Live' = Live
  BY <1>1, <1>4, <1>6 DEF Live
<1>8. /\ ahead' \in [Fhs -> Values \cup {Unset}]
      /\ Cardinality(Prefetched(ahead')) <= AheadLimit
      /\ \A g \in Fhs : ahead'[g] # Unset => ahead'[g] = ahead[g] /\ handles[g] # i
  BY <1>1, AheadFacts
<1>9. TypeOK'
  <2>1. /\ buf' \in [Inodes -> Values \cup {Unset}]
        /\ node' \in [Inodes -> Nodes \cup {Unset}] /\ latest' \in [Inodes -> Nodes]
    BY <1>4, <1>6 DEF TypeOK
  <2> QED
    BY <1>1, <1>4, <1>8, <2>1 DEF TypeOK
<1>10. Fresh' /\ Linked' /\ CleanEnd'
  BY <1>1, <1>4, <1>6, <1>7 DEF Fresh, Linked, CleanEnd, Live
<1>11. Buffers'
  BY <1>4, <1>6, <1>7 DEF Buffers, Live, TypeOK
<1>12. HandlesHold'
  <2>1. \A fh \in wr : handles[fh] \in Inodes /\ fh \in Fhs
    BY DEF HandlesHold, TypeOK, Live
  <2> QED
    BY <1>1, <1>4, <1>6, <1>7, <2>1 DEF HandlesHold
<1>13. Faithful'
  <2> SUFFICES ASSUME NEW j \in Live PROVE Matches(j)'
    BY <1>7 DEF Faithful
  <2>1. Matches(j) /\ j \in Inodes
    BY DEF Faithful, Live
  <2>2. CASE j # i
    BY <1>1, <1>4, <2>1, <2>2 DEF Matches
  <2>3. CASE j = i
    <3>1. /\ latest'[i].dir = latest[i].dir /\ latest'[i].load = latest[i].load
          /\ latest'[i].locked = latest[i].locked
          /\ node'[i].dir = node[i].dir /\ node'[i].load = node[i].load
          /\ node'[i].locked = node[i].locked
      BY <1>2, <1>4, <1>5
    <3>2. latest'[i].data = IF buf'[i] # Unset THEN buf'[i] ELSE node'[i].data
      <4>1. CASE buf'[i] = Loaded(i) /\ node'[i] = node[i] /\ latest'[i] = latest[i]
        BY <1>2, <2>1, <2>3, <4>1 DEF Matches
      <4>2. CASE /\ buf'[i] = v \/ buf'[i] = (IF KeepBuffer(i) THEN v ELSE Unset)
                 /\ buf'[i] = v \/ node'[i] = [node[i] EXCEPT !.data = v]
                 /\ latest'[i] = [latest[i] EXCEPT !.data = v]
        BY <1>2, <1>5, <4>2
      <4> QED
        BY <1>4, <4>1, <4>2
    <3> QED
      BY <1>1, <2>1, <2>3, <3>1, <3>2 DEF Matches
  <2> QED
    BY <2>2, <2>3
<1>14. ReadAheadIsCurrent'
  BY <1>1, <1>4, <1>7, <1>8 DEF ReadAheadIsCurrent, Prefetched, Live
<1> QED
  BY <1>9, <1>10, <1>11, <1>12, <1>13, <1>14

\* When the call is refused, only the pending attributes may have been committed.
LEMMA CommitsFirstInv ==
  ASSUME IInv, NEW i \in Live, NEW o1 \in Outcome, NEW o2 \in Outcome,
         CommitsFirst(i, o1, o2), phase = "serving",
         UNCHANGED <<entry, latest, buf>>,
         node' = [node EXCEPT ![i] = Stored(i, FALSE, StoresMeta(i, o1))],
         pending' = IF StoresMeta(i, o1) THEN [pending EXCEPT ![i] = NoUpdate] ELSE pending
  PROVE  IInv'
<1>1. /\ failed' \in BOOLEAN
      /\ UNCHANGED <<nextIno, handles, held, wr, ahead, dirty, phase, result>>
  BY DEF CommitsFirst, Note, handleVars
<1>2. PICK meta \in BOOLEAN : meta = StoresMeta(i, o1)
  BY DEF StoresMeta
<1>3. /\ result \in {"none", "retained", "aborted"}
      /\ buf \in [Inodes -> Values \cup {Unset}] /\ handles \in [Fhs -> Inodes \cup {Unset}]
      /\ wr \in SUBSET (held \cap wr) /\ ahead \in [Fhs -> Values \cup {Unset}]
      /\ Cardinality(Prefetched(ahead)) <= AheadLimit
  BY DEF IInv, TypeOK, CleanEnd, HandlesHold
<1>4. /\ ahead' = ahead /\ Cardinality(Prefetched(ahead')) <= AheadLimit
      /\ dirty' = (IF FALSE THEN dirty \ {i} ELSE dirty)
      /\ node' = [node EXCEPT ![i] = Stored(i, FALSE, meta)]
      /\ pending' = IF meta THEN [pending EXCEPT ![i] = NoUpdate] ELSE pending
      /\ phase' \in {"serving", "flushing", "stopped"}
      /\ wr' \in SUBSET (held' \cap wr)
  BY <1>1, <1>2, <1>3
<1> QED
  BY <1>1, <1>3, <1>4, CommitInv

\* unlink and rmdir, which leave no handle on the inode they remove.
LEMMA RemoveInv ==
  ASSUME IInv, NEW name \in Names, NEW o1 \in Outcome, NEW o2 \in Outcome,
         Remove(name, o1, o2)
  PROVE  IInv'
<1> USE DEF IInv
<1> DEFINE i == entry[name]
<1>1. /\ i \in Live /\ i \in Inodes /\ ~Opened(i) /\ phase = "serving" /\ buf' = buf
      /\ CommitsFirst(i, o1, o2)
  BY DEF Remove, MayRemove, Serving, Linked, Live
<1>2. CASE PassesMeta(i, o1) /\ o2 = "ok"
  <2>1. /\ entry' = [entry EXCEPT ![name] = Unset]
        /\ node' = [node EXCEPT ![i] = Unset]
        /\ pending' = [pending EXCEPT ![i] = NoUpdate]
        /\ latest' = [latest EXCEPT ![i] = NewNode(FALSE)]
        /\ failed' \in BOOLEAN
        /\ UNCHANGED <<nextIno, handles, held, wr, ahead, buf, dirty, phase, result>>
    BY <1>1, <1>2 DEF Remove, CommitsFirst, Note, handleVars
  <2> HIDE DEF i
  <2>2. /\ Live' = Live \ {i}
        /\ \A j \in Live' : /\ node'[j] = node[j] /\ latest'[j] = latest[j]
                            /\ pending'[j] = pending[j]
        /\ \A fh \in Fhs : handles[fh] # i
    BY <1>1, <2>1 DEF Live, TypeOK, Opened
  <2>3. TypeOK'
    <3>1. /\ entry' \in [Names -> Inodes \cup {Unset}]
          /\ node' \in [Inodes -> Nodes \cup {Unset}]
      BY <2>1 DEF TypeOK
    <3>2. latest' \in [Inodes -> Nodes] /\ pending' \in [Inodes \cup {Root} -> Updates]
      BY <2>1, NoUpdateType, NewNodeType DEF TypeOK
    <3> QED
      BY <2>1, <3>1, <3>2 DEF TypeOK
  <2>4. Fresh'
    BY <1>1, <2>1 DEF Fresh, TypeOK, Live
  <2>5. Linked'
    BY <1>1, <2>1, <2>2 DEF Linked, TypeOK, i
  <2>6. HandlesHold' /\ Buffers' /\ CleanEnd'
    BY <1>1, <2>1, <2>2 DEF HandlesHold, Buffers, CleanEnd
  <2>7. Faithful'
    <3> SUFFICES ASSUME NEW j \in Live' PROVE Matches(j)'
      BY DEF Faithful
    <3>1. Matches(j) /\ buf'[j] = buf[j]
      BY <2>1, <2>2 DEF Faithful
    <3> QED
      BY <2>2, <3>1 DEF Matches
  <2>8. ReadAheadIsCurrent'
    <3> SUFFICES ASSUME NEW g \in Fhs, ahead[g] # Unset
                 PROVE  /\ handles[g] \in Live' /\ buf[handles[g]] = Unset
                        /\ ahead[g] = latest'[handles[g]].data
      BY <2>1 DEF ReadAheadIsCurrent, Prefetched
    <3>1. /\ handles[g] \in Live /\ buf[handles[g]] = Unset
          /\ ahead[g] = latest[handles[g]].data
      BY DEF ReadAheadIsCurrent, Prefetched
    <3> QED
      BY <2>2, <3>1
  <2> QED
    BY <2>3, <2>4, <2>5, <2>6, <2>7, <2>8
<1>3. CASE ~(PassesMeta(i, o1) /\ o2 = "ok")
  <2>1. /\ UNCHANGED <<entry, latest>>
        /\ node' = [node EXCEPT ![i] = Stored(i, FALSE, StoresMeta(i, o1))]
        /\ pending' = IF StoresMeta(i, o1) THEN [pending EXCEPT ![i] = NoUpdate] ELSE pending
    BY <1>3 DEF Remove
  <2> HIDE DEF i, IInv
  <2> QED
    BY <1>1, <2>1, CommitsFirstInv
<1> QED
  BY <1>2, <1>3

\* rename, which may commit the source's attributes and may take the destination's inode
\* away, but only when no handle is open on it.
LEMMA RenameInv ==
  ASSUME IInv, NEW old \in Names, NEW new \in Names, NEW o1 \in Outcome, NEW o2 \in Outcome,
         Rename(old, new, o1, o2)
  PROVE  IInv'
<1> USE DEF IInv
<1> DEFINE i == entry[old]
           j == entry[new]
           n == Stored(i, FALSE, StoresMeta(i, o1))
<1>1. /\ i \in Live /\ i \in Inodes /\ i # j /\ phase = "serving" /\ buf' = buf
      /\ CommitsFirst(i, o1, o2)
      /\ j # Unset => j \in Live /\ ~Opened(j)
      /\ pending' = IF StoresMeta(i, o1) THEN [pending EXCEPT ![i] = NoUpdate] ELSE pending
  BY DEF Rename, MayRemove, Serving, Linked, Live
<1>2. CASE PassesMeta(i, o1) /\ o2 = "ok"
  <2>1. /\ entry' = [entry EXCEPT ![old] = Unset, ![new] = i]
        /\ node' = [k \in Inodes |-> CASE k = i -> n [] k = j -> Unset [] OTHER -> node[k]]
        /\ latest' = [k \in Inodes |-> IF k = j THEN NewNode(FALSE) ELSE latest[k]]
        /\ old # new
    BY <1>2 DEF Rename
  <2>2. /\ failed' \in BOOLEAN
        /\ UNCHANGED <<nextIno, handles, held, wr, ahead, dirty, phase, result>>
    BY <1>1 DEF CommitsFirst, Note, handleVars
  <2>3. PICK meta \in BOOLEAN : meta = StoresMeta(i, o1)
    BY DEF StoresMeta
  <2>4. /\ n \in Nodes /\ n # Unset /\ n.dir = node[i].dir /\ n.data = node[i].data
        /\ n.load = IF meta /\ pending[i].load # Unset THEN pending[i].load ELSE node[i].load
        /\ n.locked = IF meta /\ pending[i].locked # Unset THEN pending[i].locked
                      ELSE node[i].locked
    <3>1. LET m == Stored(i, FALSE, meta)
          IN  /\ m \in Nodes /\ m # Unset /\ m.dir = node[i].dir
              /\ m.data = IF FALSE THEN buf[i] ELSE node[i].data
              /\ m.load = IF meta /\ pending[i].load # Unset THEN pending[i].load
                          ELSE node[i].load
              /\ m.locked = IF meta /\ pending[i].locked # Unset THEN pending[i].locked
                            ELSE node[i].locked
      <4> HIDE DEF i, IInv
      <4> QED
        BY <1>1, StoredNode
    <3> QED
      BY <2>3, <3>1
  <2> HIDE DEF i, j, n
  <2>5. /\ Live' = Live \ {j} /\ i \in Live'
        /\ node'[i] = n
        /\ \A k \in Inodes : /\ k # i /\ k # j => node'[k] = node[k]
                             /\ k # j => latest'[k] = latest[k]
        /\ \A fh \in Fhs : handles[fh] # Unset => handles[fh] # j
    BY <1>1, <2>1, <2>4 DEF Live, TypeOK, Opened
  <2>6. /\ pending' \in [Inodes \cup {Root} -> Updates]
        /\ \A k \in Inodes : pending'[k] = IF meta /\ k = i THEN NoUpdate ELSE pending[k]
    BY <1>1, <2>3, NoUpdateType DEF TypeOK
  <2>7. TypeOK'
    <3>1. /\ entry' \in [Names -> Inodes \cup {Unset}]
          /\ node' \in [Inodes -> Nodes \cup {Unset}]
      BY <1>1, <2>1, <2>4 DEF TypeOK
    <3>2. latest' \in [Inodes -> Nodes]
      BY <2>1, NewNodeType DEF TypeOK
    <3> QED
      BY <1>1, <2>2, <2>6, <3>1, <3>2 DEF TypeOK
  <2>8. Fresh'
    <3> SUFFICES ASSUME NEW k \in Inodes, k >= nextIno
                 PROVE  /\ node'[k] = Unset /\ buf[k] = Unset /\ k \notin dirty
                        /\ pending'[k] = NoUpdate
      BY <1>1, <2>2 DEF Fresh
    <3>1. node[k] = Unset /\ buf[k] = Unset /\ k \notin dirty /\ pending[k] = NoUpdate
      BY DEF Fresh
    <3>2. k # i /\ k \notin Live /\ k # j
      BY <1>1, <3>1 DEF Live
    <3> QED
      BY <2>5, <2>6, <3>1, <3>2
  <2>9. Linked'
    <3>1. \A m \in Names : entry'[m] = IF m = new THEN i ELSE IF m = old THEN Unset ELSE entry[m]
      BY <2>1 DEF TypeOK
    <3> QED
      <4>1. ASSUME NEW m \in Names, entry'[m] # Unset PROVE entry'[m] \in Live'
        <5>1. CASE m = new
          BY <2>5, <3>1, <5>1
        <5>2. CASE m # new
          <6>1. entry'[m] = entry[m] /\ entry[m] \in Live
            BY <3>1, <4>1, <5>2 DEF Linked
          <6>2. entry[m] # j
            BY <4>1, <5>2, <6>1 DEF Linked, j
          <6> QED
            BY <2>5, <6>1, <6>2
        <5> QED
          BY <5>1, <5>2
      <4>2. ASSUME NEW m \in Names, NEW k \in Names, entry'[m] = entry'[k], entry'[m] # Unset
            PROVE  m = k
        BY <1>1, <3>1, <4>2 DEF Linked, i, j
      <4> QED
        BY <4>1, <4>2 DEF Linked
  <2>10. HandlesHold' /\ Buffers' /\ CleanEnd'
    <3>1. HandlesHold' /\ CleanEnd'
      BY <1>1, <2>2, <2>5 DEF HandlesHold, CleanEnd
    <3>2. \A k \in Live' : node'[k].data = node[k].data
      BY <2>4, <2>5 DEF Live
    <3>3. Buffers'
      BY <1>1, <2>2, <2>5, <3>2 DEF Buffers
    <3> QED
      BY <3>1, <3>3
  <2>11. Faithful'
    <3> SUFFICES ASSUME NEW k \in Live' PROVE Matches(k)'
      BY DEF Faithful
    <3>1. Matches(k) /\ k \in Inodes /\ latest'[k] = latest[k] /\ buf'[k] = buf[k]
      BY <1>1, <2>5 DEF Faithful, Live
    <3>2. CASE k # i
      BY <2>5, <2>6, <3>1, <3>2 DEF Matches
    <3>3. CASE k = i
      <4>1. CASE meta
        BY <2>4, <2>5, <2>6, <3>1, <3>3, <4>1, NoUpdateType DEF Matches
      <4>2. CASE ~meta
        BY <2>4, <2>5, <2>6, <3>1, <3>3, <4>2 DEF Matches
      <4> QED
        BY <4>1, <4>2
    <3> QED
      BY <3>2, <3>3
  <2>12. ReadAheadIsCurrent'
    <3> SUFFICES ASSUME NEW g \in Fhs, ahead[g] # Unset
                 PROVE  /\ handles[g] \in Live' /\ buf[handles[g]] = Unset
                        /\ ahead[g] = latest'[handles[g]].data
      BY <1>1, <2>2 DEF ReadAheadIsCurrent, Prefetched
    <3>1. /\ handles[g] \in Live /\ buf[handles[g]] = Unset
          /\ ahead[g] = latest[handles[g]].data /\ handles[g] # Unset
      BY DEF ReadAheadIsCurrent, Prefetched, Live
    <3> QED
      BY <2>5, <3>1 DEF Live
  <2> QED
    BY <2>7, <2>8, <2>9, <2>10, <2>11, <2>12
<1>3. CASE ~(PassesMeta(i, o1) /\ o2 = "ok")
  <2>1. /\ node' = [node EXCEPT ![i] = n]
        /\ UNCHANGED <<entry, latest>>
    BY <1>3 DEF Rename
  <2> HIDE DEF i, IInv
  <2> QED
    BY <1>1, <2>1, CommitsFirstInv
<1> QED
  BY <1>2, <1>3

-----------------------------------------------------------------------------
(* The invariant                                                            *)

\* A mount starts with one file, no handle, nothing buffered and nothing pending.
LEMMA InitInv == Init => IInv
<1> SUFFICES ASSUME Init PROVE IInv
  OBVIOUS
<1> USE NoUpdateType, NewNodeType
<1>1. /\ 2 \in Inodes /\ Root \notin Inodes /\ NewNode(FALSE) \in Nodes
      /\ NewNode(FALSE) # Unset
      /\ NewNode(FALSE).data = Empty /\ NewNode(FALSE).dir = FALSE
      /\ NewNode(FALSE).load = Unset /\ NewNode(FALSE).locked = FALSE
  <2>1. NewNode(FALSE) \in Nodes
    BY NewNodeType
  <2>2. NewNode(FALSE) # Unset
    BY <2>1
  <2> QED
    BY <2>1, <2>2 DEF Inodes, Root, NewNode
<1>2. PICK n \in Names : entry = [m \in Names |-> IF m = n THEN 2 ELSE Unset]
  BY DEF Init
<1>3. Live = {2} /\ node[2] = NewNode(FALSE) /\ Prefetched(ahead) = {}
  BY <1>1 DEF Init, Live, Prefetched
<1>4. TypeOK
  <2>1. Cardinality(Prefetched(ahead)) <= AheadLimit
    BY <1>3, FS_EmptySet
  <2>2. entry \in [Names -> Inodes \cup {Unset}] /\ node \in [Inodes -> Nodes \cup {Unset}]
        /\ latest \in [Inodes -> Nodes] /\ pending \in [Inodes \cup {Root} -> Updates]
    BY <1>1, <1>2 DEF Init
  <2>3. 3 \in 3 .. MaxInode + 1
    OBVIOUS
  <2>4. handles \in [Fhs -> Inodes \cup {Unset}] /\ ahead \in [Fhs -> Values \cup {Unset}]
        /\ buf \in [Inodes -> Values \cup {Unset}]
    BY DEF Init
  <2> QED
    BY <2>1, <2>2, <2>3, <2>4 DEF Init, TypeOK
<1>5. Fresh /\ Linked /\ HandlesHold /\ Buffers
  <2>1. \A i \in Inodes : i >= 3 => i # 2
    BY DEF Inodes
  <2>2. Fresh
    BY <2>1 DEF Init, Fresh
  <2>3. Linked
    BY <1>1, <1>2, <1>3 DEF Linked
  <2>4. HandlesHold /\ Buffers
    BY <1>3 DEF Init, HandlesHold, Buffers, Live
  <2> QED
    BY <2>2, <2>3, <2>4
<1>6. Faithful /\ ReadAheadIsCurrent /\ CleanEnd
  BY <1>1, <1>3 DEF Init, Faithful, Matches, ReadAheadIsCurrent, CleanEnd
<1> QED
  BY <1>4, <1>5, <1>6 DEF IInv

\* Every step of the adapter and of the runner keeps the invariant.
LEMMA NextInv == IInv /\ [Next]_vars => IInv'
<1> SUFFICES ASSUME IInv, [Next]_vars PROVE IInv'
  OBVIOUS
<1>1. CASE FileRequest
  <2>1. ASSUME NEW fh \in Fhs, NEW i \in Inodes, OpenRead(fh, i) PROVE IInv'
    BY <2>1, OpenReadInv
  <2>2. ASSUME NEW fh \in Fhs, NEW i \in Inodes, NEW trunc \in BOOLEAN, OpenWrite(fh, i, trunc)
        PROVE  IInv'
    BY <2>2, OpenWriteInv
  <2>3. ASSUME NEW fh \in Fhs, Read(fh) PROVE IInv'
    BY <2>3, ReadInv
  <2>4. ASSUME NEW fh \in Fhs, NEW v \in Values, NEW o \in Outcome, Write(fh, v, o) PROVE IInv'
    BY <2>4, WriteInv
  <2>5. ASSUME NEW fh \in Fhs, NEW o1 \in Outcome, NEW o2 \in Outcome,
               Flush(fh, o1, o2) \/ Release(fh, o1, o2)
        PROVE  IInv'
    BY <2>5, FlushInv, ReleaseInv
  <2>6. ASSUME NEW i \in Inodes, NEW v \in Values, NEW owner \in BOOLEAN,
               NEW o1 \in Outcome, NEW o2 \in Outcome, SetSize(i, v, owner, o1, o2)
        PROVE  IInv'
    BY <2>6, SetSizeInv
  <2>7. ASSUME NEW i \in Inodes \cup {Root}, NEW v \in Loads,
               SetXattr(i, [NoUpdate EXCEPT !.load = v])
        PROVE  IInv'
    <3>1. [NoUpdate EXCEPT !.load = v] \in Updates
      BY DEF NoUpdate, Updates
    <3> QED
      BY <2>7, <3>1, SetXattrInv
  <2>8. ASSUME NEW i \in Inodes \cup {Root}, NEW b \in BOOLEAN,
               SetXattr(i, [NoUpdate EXCEPT !.locked = b])
        PROVE  IInv'
    <3>1. [NoUpdate EXCEPT !.locked = b] \in Updates
      BY DEF NoUpdate, Updates
    <3> QED
      BY <2>8, <3>1, SetXattrInv
  <2> QED
    BY <1>1, <2>1, <2>2, <2>3, <2>4, <2>5, <2>6, <2>7, <2>8 DEF FileRequest
<1>2. CASE NamespaceRequest
  BY <1>2, CreateInv, MkdirInv, RemoveInv, RenameInv DEF NamespaceRequest
<1>3. CASE StopLoop \/ LoopRaises \/ Shutdown
  BY <1>3, LoopInv, FlushNextBufferInv, FlushNextMetadataInv DEF Shutdown
<1>4. CASE UNCHANGED vars
  <2>1. /\ failed' \in BOOLEAN
        /\ UNCHANGED <<entry, node, nextIno, handles, held, wr, ahead, buf, dirty, pending,
                       phase, result, latest>>
    BY <1>4 DEF vars, imageVars, handleVars, IInv, TypeOK
  <2> QED
    BY <2>1, RefusedInv
<1> QED
  BY <1>1, <1>2, <1>3, <1>4 DEF Next, Stopped

\* The invariant holds for as long as the mount lives.
THEOREM FuseInvariance == Spec => []IInv
<1>1. Init => IInv
  BY InitInv
<1>2. IInv /\ [Next]_vars => IInv'
  BY NextInv
<1> QED
  BY <1>1, <1>2, PTL DEF Spec

\* The adapter's tables keep their types: no inode number is outside the tree, and
\* the prefetched extents never exceed their budget.
THEOREM FuseTypes == Spec => []TypeOK
<1>1. IInv => TypeOK
  BY DEF IInv
<1> QED
  BY <1>1, FuseInvariance, PTL

\* What read and getxattr return is the last accepted write, truncation or attribute
\* change made through any handle, whatever flushes fail and in whatever order handles
\* are released and names removed or replaced.
THEOREM VisibleIsLatestHolds == Spec => []VisibleIsLatest
<1>1. IInv => VisibleIsLatest
  <2> SUFFICES ASSUME IInv, NEW i \in Live PROVE Visible(i) = latest[i]
    BY DEF VisibleIsLatest
  <2> DEFINE n == [node[i] EXCEPT !.data = IF buf[i] # Unset THEN buf[i] ELSE @]
  <2>1. /\ node[i] \in Nodes /\ pending[i] \in Updates /\ latest[i] \in Nodes
        /\ buf[i] \in Values \cup {Unset} /\ Matches(i)
    BY DEF IInv, TypeOK, Live, Faithful
  <2>2. /\ n \in Nodes /\ n.dir = node[i].dir /\ n.load = node[i].load
        /\ n.locked = node[i].locked
        /\ n.data = IF buf[i] # Unset THEN buf[i] ELSE node[i].data
    BY <2>1 DEF Nodes
  <2>3. Visible(i) = Updated(n, pending[i])
    BY DEF Visible
  <2> HIDE DEF n
  <2>4. /\ Visible(i) \in Nodes
        /\ Visible(i).dir = latest[i].dir /\ Visible(i).data = latest[i].data
        /\ Visible(i).load = latest[i].load /\ Visible(i).locked = latest[i].locked
    BY <2>1, <2>2, <2>3, UpdatedNode DEF Matches
  <2> QED
    BY <2>1, <2>4 DEF Nodes
<1> QED
  BY <1>1, FuseInvariance, PTL

\* An accepted change the image does not hold is in _dirty or _metadata_updates.
THEOREM UncommittedIsQueuedHolds == Spec => []UncommittedIsQueued
<1>1. IInv => UncommittedIsQueued
  <2> SUFFICES ASSUME IInv, NEW i \in Live
               PROVE  /\ node[i].data # latest[i].data => i \in dirty /\ buf[i] # Unset
                      /\ node[i] # latest[i] => i \in dirty \/ pending[i] # NoUpdate
    BY DEF UncommittedIsQueued
  <2>1. node[i] \in Nodes /\ latest[i] \in Nodes /\ Matches(i)
    BY DEF IInv, TypeOK, Live, Faithful
  <2>2. node[i].data # latest[i].data => i \in dirty /\ buf[i] # Unset
    BY <2>1 DEF IInv, Matches, Buffers
  <2>3. ASSUME i \notin dirty, pending[i] = NoUpdate PROVE node[i] = latest[i]
    <3>1. /\ node[i].dir = latest[i].dir /\ node[i].data = latest[i].data
          /\ node[i].load = latest[i].load /\ node[i].locked = latest[i].locked
      BY <2>1, <2>2, <2>3, NoUpdateType DEF Matches
    <3> QED
      BY <2>1, <3>1 DEF Nodes
  <2> QED
    BY <2>2, <2>3
<1> QED
  BY <1>1, FuseInvariance, PTL

\* A handle the kernel writes through finds its inode alive and its buffer in place.
THEOREM WritableHandleHasBufferHolds == Spec => []WritableHandleHasBuffer
<1>1. IInv => WritableHandleHasBuffer
  BY DEF IInv, WritableHandleHasBuffer, HandlesHold, TypeOK
<1> QED
  BY <1>1, FuseInvariance, PTL

\* Read-ahead is never stale, and never outlives its file.
THEOREM ReadAheadIsCurrentHolds == Spec => []ReadAheadIsCurrent
<1>1. IInv => ReadAheadIsCurrent
  BY DEF IInv
<1> QED
  BY <1>1, FuseInvariance, PTL

\* A mount that ends clean, so that its checkpoint goes, has stored every change.
THEOREM CleanShutdownIsDurableHolds == Spec => []CleanShutdownIsDurable
<1>1. IInv /\ UncommittedIsQueued => CleanShutdownIsDurable
  BY DEF IInv, CleanShutdownIsDurable, UncommittedIsQueued, CleanEnd, PendingMeta, Live
<1> QED
  BY <1>1, FuseInvariance, UncommittedIsQueuedHolds, PTL

-----------------------------------------------------------------------------
(* FuseBuffers implements WriteBack.  What was made of a file is `latest`,  *)
(* and what the image stores of it is `node`; the buffers, the dirty marks  *)
(* and the queue are what the invariant above keeps between the two.        *)

\* A mount has no result until it has ended.
Going == result = "none" <=> phase # "stopped"

\* A step after which the mount goes on.
Goes ==
  /\ result = "none" /\ result' = "none"
  /\ failed \in BOOLEAN /\ failed' \in BOOLEAN /\ (failed => failed')

Kept == Mount!Next \/ UNCHANGED Mount!vars

LEMMA GoesState ==
  ASSUME Goes
  PROVE  /\ MountState = IF failed THEN "failed" ELSE "mounted"
         /\ MountState' = IF failed' THEN "failed" ELSE "mounted"
BY DEF Goes, MountState

\* A step that changes no file shows at most in that the mount has failed.
LEMMA QuietStep ==
  ASSUME Goes, entry' = entry, node' = node, \A i \in Live : latest'[i] = latest[i]
  PROVE  Kept
<1>1. Accepted' = Accepted
  BY DEF Accepted, Live
<1>2. CASE failed' = failed
  BY <1>1, <1>2, GoesState DEF Kept, Mount!vars
<1>3. CASE failed' # failed
  <2>1. MountState = "mounted" /\ MountState' = "failed"
    BY <1>3, GoesState DEF Goes
  <2> QED
    BY <1>1, <2>1 DEF Kept, Mount!Next, Mount!Fail
<1> QED
  BY <1>2, <1>3

\* A step that accepts a change of one file and stores nothing.
LEMMA AcceptStep ==
  ASSUME IInv, Goes, NEW i \in Live, NEW n \in Nodes, n.dir = latest[i].dir,
         entry' = entry, node' = node,
         latest'[i] = n, \A j \in Live : j # i => latest'[j] = latest[j]
  PROVE  Kept
<1>1. Accepted' = [Accepted EXCEPT ![i] = n] /\ i \in Inodes /\ Accepted[i] = latest[i]
  BY DEF Accepted, Live
<1>2. MountState \in {"mounted", "failed"} /\ MountState' \in {MountState, "failed"}
  BY GoesState DEF Goes
<1>3. latest[i] # Unset
  BY DEF IInv, TypeOK, Live
<1>4. Mount!Accept(i)
  BY <1>1, <1>2, <1>3 DEF Mount!Accept, Mount!MayFail, Mount!Changes
<1> QED
  BY <1>1, <1>4 DEF Kept, Mount!Next

\* What a commit stores is the data, the attributes, both or nothing of what was made of
\* the file: a buffer that is not dirty, and an update that sets nothing, hold no more.
LEMMA StoredFollows ==
  ASSUME IInv, NEW i \in Live, NEW data \in BOOLEAN, NEW meta \in BOOLEAN,
         data => i \in dirty
  PROVE  Stored(i, data, meta) \in Mount!Stores(node[i], latest[i])
<1> DEFINE n == Stored(i, data, meta)
<1>1. /\ n \in Nodes /\ n.dir = node[i].dir
      /\ n.data = IF data THEN buf[i] ELSE node[i].data
      /\ n.load = IF meta /\ pending[i].load # Unset THEN pending[i].load ELSE node[i].load
      /\ n.locked = IF meta /\ pending[i].locked # Unset THEN pending[i].locked
                    ELSE node[i].locked
  BY StoredNode
<1>2. /\ node[i] \in Nodes /\ latest[i] \in Nodes /\ Matches(i)
      /\ i \in dirty => buf[i] # Unset
  BY DEF IInv, TypeOK, Live, Faithful, Buffers
<1> HIDE DEF n
<1>3. /\ n.dir = latest[i].dir
      /\ data => n.data = latest[i].data
      /\ ~data => n.data = node[i].data
      /\ meta => n.load = latest[i].load /\ n.locked = latest[i].locked
      /\ ~meta => n.load = node[i].load /\ n.locked = node[i].locked
  BY <1>1, <1>2 DEF Matches
<1>4. CASE data /\ meta
  <2>1. n = latest[i]
    BY <1>1, <1>2, <1>3, <1>4 DEF Nodes
  <2> QED
    BY <2>1 DEF Mount!Stores, n
<1>5. CASE data /\ ~meta
  <2>1. n = [node[i] EXCEPT !.data = latest[i].data]
    BY <1>1, <1>2, <1>3, <1>5 DEF Nodes
  <2> QED
    BY <2>1 DEF Mount!Stores, n
<1>6. CASE ~data /\ meta
  <2>1. n = [latest[i] EXCEPT !.data = node[i].data]
    BY <1>1, <1>2, <1>3, <1>6 DEF Nodes
  <2> QED
    BY <2>1 DEF Mount!Stores, n
<1>7. CASE ~data /\ ~meta
  <2>1. /\ n.dir = node[i].dir /\ n.data = node[i].data
        /\ n.load = node[i].load /\ n.locked = node[i].locked
    BY <1>1, <1>3, <1>7
  <2>2. n = node[i]
    BY <1>1, <1>2, <2>1 DEF Nodes
  <2> QED
    BY <2>2 DEF Mount!Stores, n
<1> QED
  BY <1>4, <1>5, <1>6, <1>7

\* A step that commits the data, the attributes, both or nothing of one file.
LEMMA CommitStep ==
  ASSUME IInv, Goes, NEW i \in Live, NEW data \in BOOLEAN, NEW meta \in BOOLEAN,
         data => i \in dirty, data \/ meta => ~failed,
         node' = [node EXCEPT ![i] = Stored(i, data, meta)],
         entry' = entry, \A j \in Live : latest'[j] = latest[j]
  PROVE  Kept
<1> DEFINE n == Stored(i, data, meta)
<1>1. n \in Nodes /\ n # Unset /\ n \in Mount!Stores(node[i], latest[i]) /\ i \in Inodes
  BY StoredNode, StoredFollows DEF Live
<1>2. (n = node[i] /\ node' = node) \/ data \/ meta
  <2>1. ASSUME ~data, ~meta PROVE n = node[i]
    BY <2>1 DEF Stored
  <2> QED
    BY <2>1 DEF IInv, TypeOK
<1>3. CASE n = node[i] /\ node' = node
  BY <1>3, QuietStep
<1>4. CASE data \/ meta
  <2>1. MountState = "mounted" /\ MountState' \in {MountState, "failed"}
    BY <1>4, GoesState DEF Goes
  <2> HIDE DEF n
  <2>2. node' = [node EXCEPT ![i] = n]
    BY DEF n
  <2>3. Accepted' = Accepted /\ Accepted[i] = latest[i] /\ latest[i] # Unset
    BY <1>1, <2>2 DEF Accepted, Live, IInv, TypeOK
  <2>4. Mount!Commit(i)
    BY <1>1, <2>1, <2>2, <2>3 DEF Mount!Commit, Mount!MayFail
  <2> QED
    BY <1>1, <2>4 DEF Kept, Mount!Next
<1> QED
  BY <1>2, <1>3, <1>4

\* Opening and reading accept nothing, except a truncation.
LEMMA OpenKept ==
  ASSUME IInv, Going, NEW fh \in Fhs, NEW i \in Inodes, NEW trunc \in BOOLEAN,
         OpenRead(fh, i) \/ OpenWrite(fh, i, trunc) \/ Read(fh)
  PROVE  Kept
<1>1. Goes /\ entry' = entry /\ node' = node
  BY DEF OpenRead, OpenWrite, Read, Goes, Going, IInv, TypeOK, imageVars, Serving
<1>2. CASE latest' = latest
  BY <1>1, <1>2, QuietStep
<1>3. CASE latest' # latest
  <2>1. i \in Live /\ latest' = [latest EXCEPT ![i].data = Empty]
    BY <1>3 DEF OpenRead, OpenWrite, Read
  <2>2. latest[i] \in Nodes /\ i \in Inodes
    BY <2>1 DEF IInv, TypeOK, Live
  <2> DEFINE n == [latest[i] EXCEPT !.data = Empty]
  <2>3. n \in Nodes /\ n.dir = latest[i].dir
    BY <2>2 DEF Nodes
  <2>4. latest'[i] = n /\ \A j \in Live : j # i => latest'[j] = latest[j]
    BY <2>1, <2>2 DEF IInv, TypeOK, Live
  <2> HIDE DEF n
  <2> QED
    BY <1>1, <2>1, <2>3, <2>4, AcceptStep
<1> QED
  BY <1>2, <1>3

\* A write is accepted, refused, or fails the mount.
LEMMA WriteKept ==
  ASSUME IInv, Going, NEW fh \in Fhs, NEW v \in Values, NEW o \in Outcome, Write(fh, v, o)
  PROVE  Kept
<1> DEFINE i == handles[fh]
<1>1. /\ Goes /\ entry' = entry /\ node' = node /\ i \in Live
      /\ latest' = IF o = "ok" THEN [latest EXCEPT ![i].data = v] ELSE latest
  BY DEF Write, Goes, Going, IInv, TypeOK, imageVars, Serving, Note, HandlesHold
<1>2. CASE o = "ok"
  <2>1. latest[i] \in Nodes /\ i \in Inodes
    BY <1>1 DEF IInv, TypeOK, Live
  <2> DEFINE n == [latest[i] EXCEPT !.data = v]
  <2>2. n \in Nodes /\ n.dir = latest[i].dir
    BY <2>1 DEF Nodes
  <2>3. latest'[i] = n /\ \A j \in Live : j # i => latest'[j] = latest[j]
    BY <1>1, <1>2, <2>1 DEF IInv, TypeOK, Live
  <2> HIDE DEF n, i
  <2> QED
    BY <1>1, <2>2, <2>3, AcceptStep
<1>3. CASE o # "ok"
  BY <1>1, <1>3, QuietStep
<1> QED
  BY <1>2, <1>3

\* A session that has failed stores nothing: every image call is refused.
LEMMA FailedStoresNothing ==
  ASSUME NEW i \in Live, NEW o1 \in Outcome, NEW o2 \in Outcome, FlushInode(i, o1, o2), failed
  PROVE  ~StoresData(i, o1) /\ ~(PassesData(i, o1) /\ StoresMeta(i, o2))
BY DEF FlushInode, Outcomes, StoresData, PassesData, StoresMeta

\* A flush, and the one of a release, commits part of what was made of the file.
LEMMA FlushKept ==
  ASSUME IInv, Going, NEW fh \in Fhs, NEW o1 \in Outcome, NEW o2 \in Outcome,
         Flush(fh, o1, o2) \/ Release(fh, o1, o2)
  PROVE  Kept
<1> DEFINE i == handles[fh]
<1>1. /\ i \in Live /\ FlushInode(i, o1, o2) /\ phase = "serving"
      /\ UNCHANGED <<entry, result, latest>>
  BY DEF Flush, Release, IInv, HandlesHold, Serving
<1> HIDE DEF i
<1> DEFINE data == StoresData(i, o1)
           meta == PassesData(i, o1) /\ StoresMeta(i, o2)
<1>2. Goes
  BY <1>1 DEF FlushInode, Goes, Going, IInv, TypeOK, Note
<1>3. /\ data \in BOOLEAN /\ meta \in BOOLEAN /\ (data => i \in dirty)
      /\ node' = [node EXCEPT ![i] = Stored(i, data, meta)]
  BY <1>1 DEF FlushInode, StoresData, PassesData, StoresMeta
<1>4. data \/ meta => ~failed
  BY <1>1, FailedStoresNothing
<1> HIDE DEF data, meta
<1> QED
  BY <1>1, <1>2, <1>3, <1>4, CommitStep

\* A truncation is accepted, and stored at once if its commit works.
LEMMA SetSizeKept ==
  ASSUME IInv, Going, NEW i \in Inodes, NEW v \in Values, NEW owner \in BOOLEAN,
         NEW o1 \in Outcome, NEW o2 \in Outcome, SetSize(i, v, owner, o1, o2)
  PROVE  Kept
<1>1. i \in Live /\ phase = "serving" /\ UNCHANGED <<entry, result>> /\ Goes
  BY DEF SetSize, Serving, Note, Goes, Going, IInv, TypeOK
<1>2. /\ latest[i] \in Nodes /\ latest[i] # Unset
      /\ latest \in [Inodes -> Nodes] /\ node \in [Inodes -> Nodes \cup {Unset}]
  BY <1>1 DEF IInv, TypeOK, Live
<1> DEFINE n == [latest[i] EXCEPT !.data = v]
<1>3. n \in Nodes /\ n.dir = latest[i].dir /\ n.data = v
  BY <1>2 DEF Nodes
<1>4. \/ node' = node /\ latest' = latest
      \/ node' = node /\ latest' = [latest EXCEPT ![i].data = v]
      \/ /\ node' = [node EXCEPT ![i].data = v] /\ latest' = [latest EXCEPT ![i].data = v]
         /\ o2 = "ok" /\ o2 \in Outcomes(i) /\ failed' = (failed \/ "fatal" \in {o2})
  BY DEF SetSize, Note
<1>5. latest' = [latest EXCEPT ![i].data = v] =>
        latest'[i] = n /\ \A j \in Inodes : j # i => latest'[j] = latest[j]
  BY <1>2
<1> HIDE DEF n
<1>6. CASE node' = node /\ latest' = latest
  BY <1>1, <1>6, QuietStep
<1>7. CASE node' = node /\ latest' = [latest EXCEPT ![i].data = v]
  BY <1>1, <1>3, <1>5, <1>7, AcceptStep DEF Live
<1>8. CASE /\ node' = [node EXCEPT ![i].data = v] /\ latest' = [latest EXCEPT ![i].data = v]
           /\ o2 = "ok" /\ o2 \in Outcomes(i) /\ failed' = (failed \/ "fatal" \in {o2})
  <2>1. failed = FALSE /\ failed' = FALSE
    BY <1>8 DEF Outcomes, IInv, TypeOK
  <2>2. MountState = "mounted" /\ MountState' = "mounted"
    BY <1>1, <2>1, GoesState
  <2>3. node[i] \in Nodes
    BY <1>1, <1>2 DEF Live
  <2>4. [node[i] EXCEPT !.data = v] \in Nodes
    BY <2>3 DEF Nodes
  <2>5. Live' = Live
    BY <1>1, <1>2, <1>8, <2>4 DEF Live
  <2>6. Accepted' = [Accepted EXCEPT ![i] = n] /\ Accepted[i] = latest[i] /\ Accepted'[i] = n
    BY <1>1, <1>5, <1>8, <2>5 DEF Accepted
  <2>7. node' = [node EXCEPT ![i].data = Accepted'[i].data]
    BY <1>3, <1>8, <2>6
  <2>8. Mount!Truncate(i)
    BY <1>1, <1>2, <1>3, <2>2, <2>6, <2>7 DEF Mount!Truncate, Mount!Mounted, Mount!Changes
  <2> QED
    BY <2>8 DEF Kept, Mount!Next
<1> QED
  BY <1>4, <1>6, <1>7, <1>8

\* An attribute change is accepted, except that of the root, which is no file.
LEMMA SetXattrKept ==
  ASSUME IInv, Going, NEW i \in Inodes \cup {Root}, NEW u \in Updates, SetXattr(i, u)
  PROVE  Kept
<1>1. /\ i \in Live \cup {Root} /\ Goes /\ entry' = entry /\ node' = node
      /\ latest' = IF i = Root THEN latest ELSE [latest EXCEPT ![i] = Updated(latest[i], u)]
  BY DEF SetXattr, imageVars, Serving, Goes, Going, IInv, TypeOK
<1>2. CASE i = Root
  BY <1>1, <1>2, QuietStep
<1>3. CASE i # Root
  <2>1. i \in Live /\ i \in Inodes /\ latest \in [Inodes -> Nodes]
    BY <1>1, <1>3 DEF IInv, TypeOK, Live
  <2> DEFINE n == Updated(latest[i], u)
  <2>2. n \in Nodes /\ n.dir = latest[i].dir
    BY <2>1, UpdatedNode
  <2>3. latest'[i] = n /\ \A j \in Live : j # i => latest'[j] = latest[j]
    BY <1>1, <1>3, <2>1 DEF Live
  <2> HIDE DEF n
  <2> QED
    BY <1>1, <2>1, <2>2, <2>3, AcceptStep
<1> QED
  BY <1>2, <1>3

\* A new file is there, and stored, at once.
LEMMA AddKept ==
  ASSUME IInv, Going, NEW name \in Names, NEW dir \in BOOLEAN, NEW o \in Outcome,
         Adds(name, dir, o), result' = result
  PROVE  Kept
<1> DEFINE n == NewNode(dir)
           i == nextIno
<1>1. /\ phase = "serving" /\ entry[name] = Unset
      /\ Goes /\ (o = "ok" => failed' = FALSE /\ failed = FALSE)
  BY DEF Adds, Serving, Note, Goes, Going, IInv, TypeOK
<1>2. CASE o = "ok"
  <2>1. /\ i \in Inodes /\ node[i] = Unset /\ n \in Nodes /\ n # Unset
        /\ entry' = [entry EXCEPT ![name] = i]
        /\ node' = [node EXCEPT ![i] = n] /\ latest' = [latest EXCEPT ![i] = n]
    BY <1>2, AddsFacts
  <2> HIDE DEF n, i
  <2>2. latest \in [Inodes -> Nodes] /\ node \in [Inodes -> Nodes \cup {Unset}]
    BY DEF IInv, TypeOK
  <2>3. Accepted' = [Accepted EXCEPT ![i] = n] /\ Accepted[i] = Unset
    BY <2>1, <2>2 DEF Accepted, Live
  <2>4. MountState = "mounted" /\ MountState' = "mounted"
    BY <1>1, <1>2, GoesState
  <2>5. Mount!Add(name, i)
    BY <1>1, <2>1, <2>3, <2>4 DEF Mount!Add, Mount!Mounted
  <2> QED
    BY <2>1, <2>5 DEF Kept, Mount!Next
<1>3. CASE o # "ok"
  BY <1>1, <1>3, AddsFacts, QuietStep
<1> QED
  BY <1>2, <1>3

\* What the two calls of unlink, rmdir and rename leave: the mount goes on, and if it had
\* failed both were refused.
LEMMA CommitsFirstFacts ==
  ASSUME IInv, Going, phase = "serving", NEW i \in Live, NEW o1 \in Outcome, NEW o2 \in Outcome,
         CommitsFirst(i, o1, o2)
  PROVE  /\ Goes
         /\ StoresMeta(i, o1) => ~failed
         /\ PassesMeta(i, o1) /\ o2 = "ok" => failed = FALSE /\ failed' = FALSE
<1>1. Goes
  BY DEF CommitsFirst, Note, Goes, Going, IInv, TypeOK
<1>2. StoresMeta(i, o1) => ~failed
  BY DEF CommitsFirst, Outcomes, StoresMeta
<1>3. ASSUME PassesMeta(i, o1), o2 = "ok" PROVE failed = FALSE /\ failed' = FALSE
  <2>1. failed = FALSE
    BY <1>3 DEF CommitsFirst, Outcomes, IInv, TypeOK
  <2>2. o1 = "ok"
    BY <1>3 DEF CommitsFirst, PassesMeta
  <2> QED
    BY <1>3, <2>1, <2>2 DEF CommitsFirst, Note
<1> QED
  BY <1>1, <1>2, <1>3

\* A call that is refused after the attributes were committed has stored them, and no more.
LEMMA MetaKept ==
  ASSUME IInv, Goes, NEW i \in Live, NEW o1 \in Outcome, StoresMeta(i, o1) => ~failed,
         node' = [node EXCEPT ![i] = Stored(i, FALSE, StoresMeta(i, o1))],
         UNCHANGED <<entry, latest>>
  PROVE  Kept
<1>1. PICK meta \in BOOLEAN : meta = StoresMeta(i, o1)
  BY DEF StoresMeta
<1>2. node' = [node EXCEPT ![i] = Stored(i, FALSE, meta)] /\ (meta => ~failed)
  BY <1>1
<1> QED
  BY <1>2, CommitStep

\* unlink and rmdir: a name and its file go together.
LEMMA RemoveKept ==
  ASSUME IInv, Going, NEW name \in Names, NEW o1 \in Outcome, NEW o2 \in Outcome,
         Remove(name, o1, o2)
  PROVE  Kept
<1> DEFINE i == entry[name]
<1>1. /\ i \in Live /\ i \in Inodes /\ phase = "serving" /\ CommitsFirst(i, o1, o2)
      /\ i # Unset
  BY DEF Remove, Serving, IInv, Linked, Live
<1>2. /\ Goes /\ (StoresMeta(i, o1) => ~failed)
      /\ PassesMeta(i, o1) /\ o2 = "ok" => failed = FALSE /\ failed' = FALSE
  <2> HIDE DEF i
  <2> QED
    BY <1>1, CommitsFirstFacts
<1>3. CASE PassesMeta(i, o1) /\ o2 = "ok"
  <2>1. /\ entry' = [entry EXCEPT ![name] = Unset] /\ node' = [node EXCEPT ![i] = Unset]
        /\ latest' = [latest EXCEPT ![i] = NewNode(FALSE)]
    BY <1>3 DEF Remove
  <2>2. MountState = "mounted" /\ MountState' = "mounted"
    BY <1>2, <1>3, GoesState
  <2>3. Accepted' = [Accepted EXCEPT ![i] = Unset]
    <3> HIDE DEF i
    <3> QED
      BY <1>1, <2>1 DEF Accepted, Live, IInv, TypeOK
  <2>4. Mount!Remove(name)
    BY <1>1, <2>1, <2>2, <2>3 DEF Mount!Remove, Mount!Mounted
  <2> QED
    BY <2>4 DEF Kept, Mount!Next
<1>4. CASE ~(PassesMeta(i, o1) /\ o2 = "ok")
  <2>1. /\ UNCHANGED <<entry, latest>>
        /\ node' = [node EXCEPT ![i] = Stored(i, FALSE, StoresMeta(i, o1))]
    BY <1>4 DEF Remove
  <2> HIDE DEF i
  <2> QED
    BY <1>1, <1>2, <2>1, MetaKept
<1> QED
  BY <1>3, <1>4

\* rename: the file takes its new name, with its attributes, as the one that had it goes.
LEMMA RenameKept ==
  ASSUME IInv, Going, NEW old \in Names, NEW new \in Names, NEW o1 \in Outcome,
         NEW o2 \in Outcome, Rename(old, new, o1, o2)
  PROVE  Kept
<1> DEFINE i == entry[old]
           j == entry[new]
           n == Stored(i, FALSE, StoresMeta(i, o1))
<1>1. /\ i \in Live /\ i \in Inodes /\ i # j /\ i # Unset /\ old # new
      /\ phase = "serving" /\ CommitsFirst(i, o1, o2)
  BY DEF Rename, Serving, IInv, Linked, Live
<1>2. /\ Goes /\ (StoresMeta(i, o1) => ~failed)
      /\ PassesMeta(i, o1) /\ o2 = "ok" => failed = FALSE /\ failed' = FALSE
  <2> HIDE DEF i
  <2> QED
    BY <1>1, CommitsFirstFacts
<1>3. CASE PassesMeta(i, o1) /\ o2 = "ok"
  <2>1. /\ entry' = [entry EXCEPT ![old] = Unset, ![new] = i]
        /\ node' = [k \in Inodes |-> CASE k = i -> n [] k = j -> Unset [] OTHER -> node[k]]
        /\ latest' = [k \in Inodes |-> IF k = j THEN NewNode(FALSE) ELSE latest[k]]
    BY <1>3 DEF Rename
  <2>2. MountState = "mounted" /\ MountState' = "mounted"
    BY <1>2, <1>3, GoesState
  <2>3. PICK meta \in BOOLEAN : meta = StoresMeta(i, o1)
    BY DEF StoresMeta
  <2>4. n # Unset /\ n \in Mount!Stores(node[i], latest[i])
    <3>1. Stored(i, FALSE, meta) # Unset
          /\ Stored(i, FALSE, meta) \in Mount!Stores(node[i], latest[i])
      <4> HIDE DEF i
      <4> QED
        BY <1>1, StoredNode, StoredFollows
    <3> QED
      BY <2>3, <3>1
  <2> HIDE DEF n
  <2>5. Live' = Live \ {j}
    <3> HIDE DEF i, j
    <3> QED
      BY <1>1, <2>1, <2>4 DEF Live
  <2>6. Accepted' = [k \in Inodes |-> IF k = j THEN Unset ELSE Accepted[k]]
        /\ Accepted[i] = latest[i]
    <3> HIDE DEF i, j
    <3> QED
      BY <1>1, <2>1, <2>5 DEF Accepted
  <2>7. Mount!Move(old, new)
    BY <1>1, <2>1, <2>2, <2>4, <2>6 DEF Mount!Move, Mount!Mounted
  <2> QED
    BY <2>7 DEF Kept, Mount!Next
<1>4. CASE ~(PassesMeta(i, o1) /\ o2 = "ok")
  <2>1. node' = [node EXCEPT ![i] = n] /\ UNCHANGED <<entry, latest>>
    BY <1>4 DEF Rename
  <2> HIDE DEF i
  <2> QED
    BY <1>1, <1>2, <2>1, MetaKept
<1> QED
  BY <1>3, <1>4

\* The end of the loop shows only when it raised: what was not stored is kept.
LEMMA LoopKept == ASSUME IInv, Going, StopLoop \/ LoopRaises PROVE Kept
<1>1. UNCHANGED <<entry, node, latest, failed>> /\ result = "none" /\ failed \in BOOLEAN
  BY DEF StopLoop, LoopRaises, imageVars, Serving, Going, IInv, TypeOK
<1>2. CASE StopLoop
  <2>1. Goes
    BY <1>1, <1>2 DEF StopLoop, Goes
  <2> QED
    BY <1>1, <2>1, QuietStep
<1>3. CASE LoopRaises
  <2>1. MountState \in {"mounted", "failed"} /\ MountState' = "kept"
    BY <1>1, <1>3 DEF LoopRaises, MountState
  <2>2. Accepted' = Accepted
    BY <1>1 DEF Accepted, Live
  <2> QED
    BY <1>1, <2>1, <2>2 DEF Kept, Mount!Next, Mount!Keep
<1> QED
  BY <1>2, <1>3

\* flush_pending stores one part after the other, and ends the mount when one is refused.
LEMMA FlushPendingKept ==
  ASSUME IInv, Going, NEW o \in Outcome, FlushNextBuffer(o) \/ FlushNextMetadata(o)
  PROVE  Kept
<1>1. PICK i \in Inodes \cup {Root}, data \in BOOLEAN :
        /\ o \in Outcomes(i) /\ (data => i \in dirty)
        /\ o = "ok" => node' = [node EXCEPT ![i] = Stored(i, data, ~data)] /\ result' = result
        /\ o # "ok" => node' = node /\ result' = "retained"
  <2>1. CASE FlushNextBuffer(o)
    <3>1. Least(dirty) \in dirty /\ dirty \subseteq Inodes
      BY <2>1, LeastIn DEF FlushNextBuffer, IInv, TypeOK
    <3>2. /\ o \in Outcomes(Least(dirty))
          /\ o = "ok" => /\ node' = [node EXCEPT ![Least(dirty)] = Stored(Least(dirty), TRUE, FALSE)]
                         /\ result' = result
          /\ o # "ok" => node' = node /\ result' = "retained"
      BY <2>1 DEF FlushNextBuffer
    <3> QED
      BY <3>1, <3>2
  <2>2. CASE FlushNextMetadata(o)
    <3>1. Least(PendingMeta) \in PendingMeta /\ PendingMeta \subseteq Inodes \cup {Root}
      BY <2>2, LeastIn DEF FlushNextMetadata, PendingMeta
    <3> DEFINE k == Least(PendingMeta)
    <3>2. /\ o \in Outcomes(k)
          /\ o = "ok" => node' = [node EXCEPT ![k] = Stored(k, FALSE, TRUE)] /\ result' = result
          /\ o # "ok" => node' = node /\ result' = "retained"
      BY <2>2 DEF FlushNextMetadata
    <3>3. k \in Inodes \cup {Root}
      BY <3>1
    <3> HIDE DEF k
    <3> QED
      BY <3>2, <3>3
  <2> QED
    BY <2>1, <2>2
<1>2. /\ phase = "flushing" /\ UNCHANGED <<entry, latest>> /\ result = "none"
      /\ failed' = (failed \/ "fatal" \in {o}) /\ failed \in BOOLEAN
  BY DEF FlushNextBuffer, FlushNextMetadata, Note, Going, IInv, TypeOK
<1>3. CASE o = "ok"
  <2>1. i \in Live /\ ~failed /\ Goes
    BY <1>1, <1>2, <1>3 DEF Outcomes, Goes
  <2>2. PICK meta \in BOOLEAN : meta = ~data
    OBVIOUS
  <2>3. node' = [node EXCEPT ![i] = Stored(i, data, meta)] /\ (data => i \in dirty)
    BY <1>1, <1>3, <2>2
  <2> QED
    BY <1>2, <2>1, <2>3, CommitStep
<1>4. CASE o # "ok"
  <2>1. Accepted' = Accepted /\ node' = node /\ result' = "retained"
    BY <1>1, <1>2, <1>4 DEF Accepted, Live
  <2>2. MountState \in {"mounted", "failed"} /\ MountState' = "kept"
    BY <1>2, <2>1 DEF MountState
  <2> QED
    BY <1>2, <2>1, <2>2 DEF Kept, Mount!Next, Mount!Keep
<1> QED
  BY <1>3, <1>4

\* With nothing dirty and nothing pending the image is what was made of its files.
LEMMA FlushedIsStored ==
  ASSUME IInv, dirty = {}, PendingMeta = {}
  PROVE  node = Accepted
<1>1. node \in [Inodes -> Nodes \cup {Unset}]
  BY DEF IInv, TypeOK
<1>2. ASSUME NEW i \in Live PROVE node[i] = latest[i]
  <2>1. /\ node[i] \in Nodes /\ latest[i] \in Nodes /\ Matches(i) /\ pending[i] = NoUpdate
        /\ buf[i] # Unset => buf[i] = node[i].data
    BY DEF IInv, TypeOK, Live, Faithful, PendingMeta, Buffers
  <2>2. /\ node[i].dir = latest[i].dir /\ node[i].data = latest[i].data
        /\ node[i].load = latest[i].load /\ node[i].locked = latest[i].locked
    BY <2>1, NoUpdateType DEF Matches
  <2> QED
    BY <2>1, <2>2 DEF Nodes
<1> QED
  BY <1>1, <1>2 DEF Accepted, Live

\* The close of the image: clean only with everything stored.
LEMMA CloseKept ==
  ASSUME IInv, Going, NEW valid \in BOOLEAN, CloseImage(valid)
  PROVE  Kept
<1>1. /\ UNCHANGED <<entry, node, latest, failed>> /\ result = "none" /\ failed \in BOOLEAN
      /\ dirty = {} /\ PendingMeta = {}
  BY DEF CloseImage, imageVars, Going, IInv, TypeOK, BuffersFlushed
<1>2. result' = IF valid /\ ~failed THEN "clean" ELSE "retained"
  BY DEF CloseImage
<1>3. Accepted' = Accepted /\ node = Accepted
  BY <1>1, FlushedIsStored DEF Accepted, Live
<1>4. CASE valid /\ ~failed
  <2>1. MountState = "mounted" /\ MountState' = "clean"
    BY <1>1, <1>2, <1>4 DEF MountState
  <2> QED
    BY <1>1, <1>3, <2>1 DEF Kept, Mount!Next, Mount!CloseClean
<1>5. CASE ~(valid /\ ~failed)
  <2>1. MountState \in {"mounted", "failed"} /\ MountState' = "kept"
    BY <1>1, <1>2, <1>5 DEF MountState
  <2> QED
    BY <1>1, <1>3, <2>1 DEF Kept, Mount!Next, Mount!Keep
<1> QED
  BY <1>4, <1>5

\* A step of the adapter or the runner is a step of WriteBack, or does not show in it.
LEMMA StepKept == IInv /\ Going /\ [Next]_vars => [Mount!Next]_Mount!vars
<1> SUFFICES ASSUME IInv, Going, [Next]_vars PROVE Kept
  BY DEF Kept
<1>1. CASE FileRequest
  <2>1. ASSUME NEW fh \in Fhs, NEW i \in Inodes, NEW trunc \in BOOLEAN,
               OpenRead(fh, i) \/ OpenWrite(fh, i, trunc)
        PROVE  Kept
    BY <2>1, OpenKept
  <2>2. ASSUME NEW fh \in Fhs, Read(fh) PROVE Kept
    <3>1. PICK i \in Inodes : TRUE
      BY DEF Inodes
    <3> QED
      BY <2>2, <3>1, OpenKept
  <2>3. ASSUME NEW fh \in Fhs, NEW v \in Values, NEW o \in Outcome, Write(fh, v, o) PROVE Kept
    BY <2>3, WriteKept
  <2>4. ASSUME NEW fh \in Fhs, NEW o1 \in Outcome, NEW o2 \in Outcome,
               Flush(fh, o1, o2) \/ Release(fh, o1, o2)
        PROVE  Kept
    BY <2>4, FlushKept
  <2>5. ASSUME NEW i \in Inodes, NEW v \in Values, NEW owner \in BOOLEAN,
               NEW o1 \in Outcome, NEW o2 \in Outcome, SetSize(i, v, owner, o1, o2)
        PROVE  Kept
    BY <2>5, SetSizeKept
  <2>6. ASSUME NEW i \in Inodes \cup {Root},
               \/ \E v \in Loads : SetXattr(i, [NoUpdate EXCEPT !.load = v])
               \/ \E b \in BOOLEAN : SetXattr(i, [NoUpdate EXCEPT !.locked = b])
        PROVE  Kept
    <3>1. /\ \A v \in Loads : [NoUpdate EXCEPT !.load = v] \in Updates
          /\ \A b \in BOOLEAN : [NoUpdate EXCEPT !.locked = b] \in Updates
      BY DEF NoUpdate, Updates
    <3> QED
      BY <2>6, <3>1, SetXattrKept
  <2> QED
    BY <1>1, <2>1, <2>2, <2>3, <2>4, <2>5, <2>6 DEF FileRequest
<1>2. CASE NamespaceRequest
  <2>1. ASSUME NEW name \in Names, NEW o \in Outcome,
               (\E fh \in Fhs : Create(fh, name, o)) \/ Mkdir(name, o)
        PROVE  Kept
    BY <2>1, AddKept DEF Create, Mkdir
  <2> QED
    BY <1>2, <2>1, RemoveKept, RenameKept DEF NamespaceRequest
<1>3. CASE StopLoop \/ LoopRaises \/ Shutdown
  BY <1>3, LoopKept, FlushPendingKept, CloseKept DEF Shutdown
<1>4. CASE UNCHANGED vars
  BY <1>4 DEF vars, imageVars, Kept, Mount!vars, Accepted, Live, MountState
<1> QED
  BY <1>1, <1>2, <1>3, <1>4 DEF Next, Stopped

\* A mount ends once, and has a result from then on.
LEMMA GoingStep == Going /\ [Next]_vars => Going'
<1> SUFFICES ASSUME Going, [Next]_vars PROVE Going'
  OBVIOUS
<1>1. CASE FileRequest
  <2>1. ASSUME NEW fh \in Fhs, NEW i \in Inodes, NEW trunc \in BOOLEAN,
               OpenRead(fh, i) \/ OpenWrite(fh, i, trunc)
        PROVE  UNCHANGED <<phase, result>>
    BY <2>1 DEF OpenRead, OpenWrite
  <2>2. ASSUME NEW fh \in Fhs, NEW v \in Values, NEW o \in Outcome, Read(fh) \/ Write(fh, v, o)
        PROVE  UNCHANGED <<phase, result>>
    BY <2>2 DEF Read, Write
  <2>3. ASSUME NEW fh \in Fhs, NEW o1 \in Outcome, NEW o2 \in Outcome,
               Flush(fh, o1, o2) \/ Release(fh, o1, o2)
        PROVE  UNCHANGED <<phase, result>>
    BY <2>3 DEF Flush, Release
  <2>4. ASSUME NEW i \in Inodes, NEW v \in Values, NEW owner \in BOOLEAN,
               NEW o1 \in Outcome, NEW o2 \in Outcome, SetSize(i, v, owner, o1, o2)
        PROVE  UNCHANGED <<phase, result>>
    BY <2>4 DEF SetSize
  <2>5. ASSUME NEW i \in Inodes \cup {Root}, NEW u, SetXattr(i, u)
        PROVE  UNCHANGED <<phase, result>>
    BY <2>5 DEF SetXattr
  <2>6. Empty \in Values /\ "ok" \in Outcome
    BY DEF Outcome
  <2>7. UNCHANGED <<phase, result>>
    BY <1>1, <2>1, <2>2, <2>3, <2>4, <2>5, <2>6 DEF FileRequest
  <2> QED
    BY <2>7 DEF Going
<1>2. CASE NamespaceRequest
  <2>1. ASSUME NEW name \in Names, NEW o \in Outcome,
               (\E fh \in Fhs : Create(fh, name, o)) \/ Mkdir(name, o)
        PROVE  UNCHANGED <<phase, result>>
    BY <2>1 DEF Create, Mkdir
  <2>2. ASSUME NEW name \in Names, NEW o1 \in Outcome, NEW o2 \in Outcome,
               Remove(name, o1, o2) \/ \E new \in Names : Rename(name, new, o1, o2)
        PROVE  UNCHANGED <<phase, result>>
    BY <2>2 DEF Remove, Rename, CommitsFirst
  <2>3. UNCHANGED <<phase, result>>
    BY <1>2, <2>1, <2>2 DEF NamespaceRequest
  <2> QED
    BY <2>3 DEF Going
<1>3. CASE StopLoop \/ LoopRaises
  BY <1>3 DEF StopLoop, LoopRaises, Serving, Going
<1>4. CASE Shutdown
  <2>1. ASSUME NEW o \in Outcome, FlushNextBuffer(o) \/ FlushNextMetadata(o)
        PROVE  \/ phase' = phase /\ result' = result
               \/ phase' = "stopped" /\ result' = "retained"
    BY <2>1 DEF FlushNextBuffer, FlushNextMetadata, AfterFlushError
  <2>2. ASSUME NEW valid \in BOOLEAN, CloseImage(valid)
        PROVE  phase' = "stopped" /\ result' \in {"clean", "retained"}
    BY <2>2 DEF CloseImage
  <2> QED
    BY <1>4, <2>1, <2>2 DEF Shutdown, Going
<1>5. CASE UNCHANGED vars
  BY <1>5 DEF vars, Going
<1> QED
  BY <1>1, <1>2, <1>3, <1>4, <1>5 DEF Next, Stopped

\* The adapter and the runner implement WriteBack: buffering, coalesced attributes, failed
\* flushes and the order of releases never show but in what is not stored yet.
THEOREM MountIsWriteBackHolds == Spec => MountIsWriteBack
<1>1. Init => Mount!Init
  <2> SUFFICES ASSUME Init PROVE Mount!Init
    OBVIOUS
  <2>1. IInv /\ dirty = {} /\ PendingMeta = {}
    BY InitInv DEF Init, PendingMeta
  <2>2. node = Accepted /\ MountState = "mounted"
    BY <2>1, FlushedIsStored DEF Init, MountState
  <2> QED
    BY <2>1, <2>2 DEF Mount!Init, IInv, TypeOK
<1>2. Init => Going
  BY DEF Init, Going
<1>3. Spec => []Going
  BY <1>2, GoingStep, PTL DEF Spec
<1> QED
  BY <1>1, <1>3, StepKept, FuseInvariance, PTL DEF Spec, MountIsWriteBack, Mount!Spec
=============================================================================
