------------------------------ MODULE Playback ------------------------------
(***************************************************************************)
(* The archiver and the playback components:                               *)
(* src/src/components/cpp/Archiver/FileArchiver.cpp writes what it is      *)
(* subscribed to into a file; src/src/components/cpp/Playback/             *)
(* FileReader.cpp and FileReplay.cpp publish the file's products of        *)
(* interest again.  A reader thread fills a queue that the replaying       *)
(* thread empties, reading the file itself when it finds the queue empty.  *)
(*                                                                         *)
(* A replay may start while the archiver still writes.  The time a product *)
(* is held back before it is published is not modelled.                    *)
(***************************************************************************)
EXTENDS Integers, Sequences, FiniteSets

CONSTANTS
    ProductIDs,     \* data products the archiver is subscribed to
    dpList,         \* DataProductList of the replay; empty: all of them
    Capacity,       \* the reader waits while the queue has more than that
    MaxProducts,    \* products delivered to the archiver
    MaxBatch        \* products of one call of subscriptionFilled

ASSUME PlaybackAssumption ==
    /\ dpList \subseteq ProductIDs
    /\ Capacity \in Nat /\ MaxProducts \in Nat /\ MaxBatch \in Nat \ {0}

VARIABLES
    suspend,        \* the archiver's flag
    archiver,       \* "idle", "writing" or "crashed"
    batch,          \* what subscriptionFilled still has to write
    delivered,      \* products delivered to the archiver so far
    file,           \* the whole records of the archive
    position,       \* records that have been read
    endOfFile,      \* has a read failed?  archiveFile stays false then
    dataProducts,   \* the queue
    reader,         \* where the reader thread is
    replay,         \* where the replaying thread is
    held,           \* the product the replaying thread has: none or one
    datatypes,      \* data products the replay has registered
    published       \* what it has published

archiverVars == <<suspend, archiver, batch, delivered, file>>
fileVars == <<position, endOfFile, dataProducts>>
replayVars == <<replay, held, datatypes, published>>
vars == <<archiverVars, fileVars, reader, replayVars>>

-----------------------------------------------------------------------------
Products == [id : ProductIDs, number : 1..MaxProducts]

\* Is this a data product we care about?
OfInterest(p) == dpList = {} \/ p.id \in dpList

\* The members of a set of positions, in their order.
Rank(S, n) == Cardinality({m \in S : m <= n})
Nth(S, k) == CHOOSE n \in S : Rank(S, n) = k
Selected(products, S) == [k \in 1..Cardinality(S) |-> products[Nth(S, k)]]

\* The products of interest among the first n, and what SelectSeq makes of
\* all of them, written without recursion.
Chosen(products, n) == {m \in 1..n : OfInterest(products[m])}
Interesting(products) == Selected(products, Chosen(products, Len(products)))

TypeOK ==
    /\ suspend \in BOOLEAN
    /\ archiver \in {"idle", "writing", "crashed"}
    /\ batch \in Seq(Products) /\ Len(batch) <= MaxBatch
    /\ delivered \in 0..MaxProducts
    /\ file \in Seq(Products)
    /\ position \in 0..Len(file)
    /\ endOfFile \in BOOLEAN
    /\ dataProducts \in Seq(Products)
    /\ reader \in {"read", "full", "ended"}
    /\ replay \in {"check", "read", "pop", "publish", "ended"}
    /\ held \in Seq(Products) /\ Len(held) <= 1
    /\ datatypes \subseteq ProductIDs
    /\ published \in Seq(Products)

Init ==
    /\ suspend \in BOOLEAN
    /\ archiver = "idle"
    /\ batch = << >>
    /\ delivered = 0
    /\ file = << >>
    /\ position = 0
    /\ endOfFile = FALSE
    /\ dataProducts = << >>
    /\ reader = "read"
    /\ replay = "check"
    /\ held = << >>
    /\ datatypes = {}
    /\ published = << >>

-----------------------------------------------------------------------------
(* The archiver.                                                           *)

\* request: the control service changes the flag, in a thread of its own.
Control ==
    /\ archiver # "crashed"
    /\ suspend' = ~suspend
    /\ UNCHANGED <<archiver, batch, delivered, file, fileVars, reader, replayVars>>

\* subscriptionFilled is called; the flag is looked at once for the call.
SubscriptionFilled(ids) ==
    /\ archiver = "idle"
    /\ delivered + Len(ids) <= MaxProducts
    /\ delivered' = delivered + Len(ids)
    /\ \/ /\ ~suspend
          /\ archiver' = "writing"
          /\ batch' = [i \in 1..Len(ids) |-> [id |-> ids[i], number |-> delivered + i]]
       \/ suspend /\ UNCHANGED <<archiver, batch>>
    /\ UNCHANGED <<suspend, file, fileVars, reader, replayVars>>

\* Size and data of one product are written and flushed.
Write ==
    /\ archiver = "writing"
    /\ file' = Append(file, Head(batch))
    /\ batch' = Tail(batch)
    /\ archiver' = IF batch' = << >> THEN "idle" ELSE "writing"
    /\ UNCHANGED <<suspend, delivered, fileVars, reader, replayVars>>

\* The archiver ends, perhaps within a record: a reader takes an incomplete
\* record for the end of the file.
Crash ==
    /\ archiver # "crashed"
    /\ archiver' = "crashed"
    /\ UNCHANGED <<suspend, batch, delivered, file, fileVars, reader, replayVars>>

-----------------------------------------------------------------------------
(* The queue, read by two threads under one mutex.                         *)

\* Records before the next one of interest.
Skipped ==
    {n \in position..(Len(file) - 1) :
       /\ OfInterest(file[n + 1])
       /\ \A m \in (position + 1)..n : ~OfInterest(file[m])}

\* Mutant of ReadNextDataProduct: the product goes to the front of the queue.
ReadNextInFront ==
    \/ /\ endOfFile
       /\ UNCHANGED fileVars
    \/ /\ ~endOfFile /\ Skipped = {}
       /\ position' = Len(file) /\ endOfFile' = TRUE
       /\ UNCHANGED dataProducts
    \/ /\ ~endOfFile
       /\ \E n \in Skipped :
            /\ position' = n + 1
            /\ dataProducts' = <<file[n + 1]>> \o dataProducts
       /\ UNCHANGED endOfFile

\* readNextDataProduct, but for the size it returns, Len(dataProducts').
ReadNextDataProduct ==
    \/ /\ endOfFile
       /\ UNCHANGED fileVars
    \/ /\ ~endOfFile /\ Skipped = {}
       /\ position' = Len(file) /\ endOfFile' = TRUE
       /\ UNCHANGED dataProducts
    \/ /\ ~endOfFile
       /\ \E n \in Skipped :
            /\ position' = n + 1
            /\ dataProducts' = Append(dataProducts, file[n + 1])
       /\ UNCHANGED endOfFile

Full == ~endOfFile /\ Len(dataProducts) > Capacity

-----------------------------------------------------------------------------
(* FileReader::processArchive, the reader thread.                          *)

\* Mutant of ReaderReads: the thread does not stop at the end.
ReaderReadsOn ==
    /\ reader = "read"
    /\ ReadNextDataProduct
    /\ reader' = IF endOfFile' \/ Len(dataProducts') # 0 THEN "full" ELSE "ended"
    /\ UNCHANGED <<archiverVars, replayVars>>

ReaderReads ==
    /\ reader = "read"
    /\ ReadNextDataProduct
    /\ reader' = IF Len(dataProducts') # 0 THEN "full" ELSE "ended"
    /\ UNCHANGED <<archiverVars, replayVars>>

\* Mutant of ReaderContinues: the test of the queue's size is left out.
ReaderContinuesAlways ==
    /\ reader = "full"
    /\ reader' = "read"
    /\ UNCHANGED <<archiverVars, fileVars, replayVars>>

\* The wait for the queue to have room.
ReaderContinues ==
    /\ reader = "full" /\ ~Full
    /\ reader' = "read"
    /\ UNCHANGED <<archiverVars, fileVars, replayVars>>

-----------------------------------------------------------------------------
(* getNextDataProduct and FileReplay::processArchive, the replaying thread. *)

HasData ==
    /\ replay = "check"
    /\ replay' = IF dataProducts # << >> THEN "pop" ELSE "read"
    /\ UNCHANGED <<archiverVars, fileVars, reader, held, datatypes, published>>

\* Mutant of ReplayReads: the size that was returned is not looked at.
ReplayReadsBlindly ==
    /\ replay = "read"
    /\ ReadNextDataProduct
    /\ replay' = "pop"
    /\ UNCHANGED <<archiverVars, reader, held, datatypes, published>>

\* The queue was empty: read the file, and stop when there is nothing left.
ReplayReads ==
    /\ replay = "read"
    /\ ReadNextDataProduct
    /\ replay' = IF Len(dataProducts') # 0 THEN "pop" ELSE "ended"
    /\ UNCHANGED <<archiverVars, reader, held, datatypes, published>>

PopGravityDataProduct ==
    /\ replay = "pop" /\ dataProducts # << >>
    /\ held' = <<Head(dataProducts)>>
    /\ dataProducts' = Tail(dataProducts)
    /\ replay' = "publish"
    /\ UNCHANGED <<archiverVars, position, endOfFile, reader, datatypes, published>>

\* The product is registered when it is new, and published.
Publish ==
    /\ replay = "publish"
    /\ datatypes' = datatypes \cup {Head(held).id}
    /\ published' = published \o held
    /\ held' = << >>
    /\ replay' = "check"
    /\ UNCHANGED <<archiverVars, fileVars, reader>>

-----------------------------------------------------------------------------
Batches == UNION {[1..n -> ProductIDs] : n \in 1..MaxBatch}

Next ==
    \/ Control \/ (\E ids \in Batches : SubscriptionFilled(ids))
    \/ Write \/ Crash
    \/ ReaderReads \/ ReaderContinues
    \/ HasData \/ ReplayReads \/ PopGravityDataProduct \/ Publish

\* Both threads of the replay run until they end.
Spec ==
    /\ Init /\ [][Next]_vars
    /\ WF_vars(ReaderReads) /\ WF_vars(ReaderContinues)
    /\ WF_vars(HasData) /\ WF_vars(ReplayReads)
    /\ WF_vars(PopGravityDataProduct) /\ WF_vars(Publish)

-----------------------------------------------------------------------------
\* Where the file ended for the replay, counted in products of interest.
End == IF endOfFile THEN Len(published \o held \o dataProducts) ELSE -1

Abstract == INSTANCE Replay WITH
    archive <- Interesting(file), end <- End, over <- replay = "ended"

\* Recording and replaying keep their promise: whatever the two threads that
\* share the queue do, products are published in the order of the file, none
\* twice and none left out, and the replay ends.
ReplaysArchive == Abstract!Spec

\* The first element of the queue is taken only when there is one: the
\* replaying thread tests and takes in two steps.
PopsWhatIsThere == replay = "pop" => dataProducts # << >>

\* The queue is bounded however long the archive is: it has one product more
\* than the reader waits for, and one that the replaying thread adds because
\* it found the queue empty before the reader filled it.  The rest of the
\* state has its type.
QueueIsBounded == TypeOK /\ Len(dataProducts) <= Capacity + 2

\* The reader thread, which spins when the file has ended and the queue is
\* not empty, ends.
ReaderEnds == <>(reader = "ended")
=============================================================================
