------------------------- MODULE PipelineProperties -------------------------
(***************************************************************************)
(* What the services must guarantee together.                              *)
(***************************************************************************)
EXTENDS Pipeline

EventsOf(i) == {e \in made : e.entry = i}
Stored(e) == \E r \in rows : r[1] = e
InMemory(w) == RangeOf(queue[w]) \cup RangeOf(batch[w])

IngestTypes ==
    /\ captured \in [Cameras -> 0..MaxFrames]
    /\ camera \in [Cameras -> {"reading", "saved", "dead"}]
    /\ saved \subseteq Frames

RawTypes ==
    /\ rawLog \in Seq(Frames)
    /\ rawPending \in [Workers -> SUBSET Raw!Entries]
    /\ rawAcked \subseteq Raw!Entries

BatcherTypes ==
    /\ up \subseteq Workers /\ gen \in [Workers -> Nat]
    /\ queue \in [Workers -> Seq(Raw!Entries)]
    /\ batch \in [Workers -> Seq(Raw!Entries)]
    /\ thread \in [Workers -> {"idle", "frame", "events", "dead"}]
    /\ \A w \in Workers : thread[w] \in {"frame", "events"} => batch[w] # << >>

TrackerTypes ==
    /\ todo \in [Workers -> SUBSET (Cameras \X (1..MaxTracks))]
    /\ ids \in [Workers -> [Cameras -> 0..MaxTracks]]
    /\ tracked \subseteq [entry : Raw!Entries, by : Workers \X Nat,
                          tracks : SUBSET (Cameras \X (1..MaxTracks))]
    /\ made \subseteq TrackEvents

EventTypes ==
    /\ evLog \in Seq(TrackEvents)
    /\ evPending \in [{Storage} -> SUBSET Events!Entries]
    /\ evAcked \subseteq Events!Entries

StorageTypes ==
    /\ stage \in {"down", "polling", "writing", "acking"}
    /\ held \in Seq(Events!Entries)
    /\ stage \in {"writing", "acking"} => held # << >>
    /\ rows \subseteq TrackEvents \X Events!Entries

CounterTypes == late \in 0..MaxLate /\ faults \in 0..MaxFaults

\* Every variable stays in its domain, _process_batch() runs on a frame, and
\* write_batch() and the acknowledgements after it on messages.
TypeOK ==
    /\ IngestTypes /\ RawTypes /\ BatcherTypes /\ TrackerTypes
    /\ EventTypes /\ StorageTypes /\ CounterTypes

\* A frame reference never overtakes its image: whoever reads an entry of
\* raw_frames finds the image, wherever the ingestion thread died.
FramesOnDisk == \A i \in Raw!Entries : rawLog[i] \in saved

\* A frame is acknowledged only when every track the tracker answered for it
\* stands on track_events, whatever failed in the middle of a batch.
AckedFramesPublished ==
    \A i \in rawAcked :
        \E u \in tracked :
            /\ u.entry = i
            /\ \A t \in u.tracks :
                  \E j \in Events!Entries :
                      evLog[j] = [entry |-> i, by |-> u.by, track |-> t]

\* An event is acknowledged only when its row is committed.
AckedEventsStored == \A j \in evAcked : Stored(evLog[j])

\* A retried publish() may put an event on the stream twice; it has one row.
OneRowPerEvent == \A r, s \in rows : r[1] = s[1] => r = s

\* A process that has not failed holds every entry it was handed and has not
\* acknowledged: consume(), submit() and the batches drop nothing.
NothingDropped ==
    \A w \in up : thread[w] # "dead" => InMemory(w) \subseteq rawPending[w]
                  /\ (faults = 0 => rawPending[w] \subseteq InMemory(w))

\* Trackers see an entry of the stream once and in the order of the stream:
\* an update is always later on the stream than all others of that tracker,
\* and no other tracker has seen it.
TrackersInOrder ==
    [][\A u \in tracked' \ tracked : \A v \in tracked :
          /\ u.entry # v.entry
          /\ u.by = v.by => v.entry < u.entry]_vars

\* Entry i was lost to a fault: it is with a worker that does not have it in
\* memory any more or whose batcher is dead.
FrameStuck(i) ==
    /\ faults > 0
    /\ \E w \in Workers : /\ i \in rawPending[w]
                          /\ thread[w] = "dead" \/ i \notin InMemory(w)
EventStuck(e) ==
    /\ faults > 0
    /\ \E j \in evPending[Storage] \ RangeOf(held) : evLog[j] = e

\* Entry i is through: acknowledged, and its events are rows, unless a fault
\* left it or one of its events stuck with a process.
Through(i) ==
    \/ FrameStuck(i)
    \/ i \in rawAcked /\ \A e \in EventsOf(i) : Stored(e) \/ EventStuck(e)

\* Every frame reference that reaches the stream ends as rows in the table,
\* unless a fault left it or one of its events stuck: whatever backlog there is
\* is worked off.
FramesEndAsRows == []<>(\A i \in DOMAIN rawLog : Through(i))

-----------------------------------------------------------------------------
(* What docs and comments of the repository say, and the code does not do. *)

\* "Generates globally-unique ... track ids" (src/inference/tracker.py:268):
\* events with the same track id are about the same tracked object.
TrackIdsGloballyUnique ==
    \A d, e \in made : d.track = e.track => d.by = e.by
=============================================================================
