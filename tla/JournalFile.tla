---------------------------- MODULE JournalFile ----------------------------
(***************************************************************************)
(* One journal file, to the byte: frames appended at the end the handle     *)
(* remembers, with or without the barrier, a write that fails part way, a   *)
(* power loss that leaves a prefix of what was written since the last       *)
(* barrier (the rest as it was before, cut off or reading as zeros), and    *)
(* the replay that opens the file again and cuts a torn tail off.           *)
(***************************************************************************)
EXTENDS StoredValues, FiniteSets

CONSTANTS Frames, MaxAppends, MaxFaults

VARIABLE journal
  \* bytes    the file
  \* end      where the handle appends
  \* disk     the file as the last barrier left it
  \* durable  the end the last barrier covered
  \* log      the frames appended, each with the offset it ends at
  \* failed   the frames whose append failed
  \* appends, faults   how many so far
  \* replayed what the last replay was up against: [was, kept, got]

IdT == InstantT
WriteT == WEnum(<< <<IdT, WBytes>>, <<InstantT, IdT>>, <<InstantT, IdT, WOpt(WBytes)>> >>)
CommitFrameT == WTup(<<InstantT, InstantT>>)
JournalFrameT == WEnum(<< <<WVec(WriteT)>>, <<CommitFrameT>> >>)

\* Journal::create
Created ==
  [bytes |-> <<>>, end |-> 0, disk |-> <<>>, durable |-> 0, log |-> <<>>, failed |-> {},
   appends |-> 0, faults |-> 0, replayed |-> <<>>]

\* A positioned write: over what is there, the file growing if it must.
WriteAt(bytes, offset, buf) == First(bytes, offset) \o buf \o Past(bytes, offset + Len(buf))

WithFrame(frame) ==
  LET buf == Framed(JournalFrameT, frame)
  IN  [journal EXCEPT !.bytes = WriteAt(@, journal.end, buf),
                      !.end = @ + Len(buf),
                      !.log = Append(@, [frame |-> frame, end |-> journal.end + Len(buf)]),
                      !.appends = @ + 1]

Synced(j) == [j EXCEPT !.disk = j.bytes, !.durable = j.end]

CanAppend == journal.appends < MaxAppends

JournalAppend(frame) == CanAppend /\ journal' = Synced(WithFrame(frame))
AppendDeferred(frame) == CanAppend /\ journal' = WithFrame(frame)
JournalSync == journal' = Synced(journal)

\* write_all_at gives up after some of the frame: the handle's end stays.
AppendFails(frame) ==
  /\ CanAppend /\ journal.faults < MaxFaults
  /\ LET buf == Framed(JournalFrameT, frame)
     IN  \E n \in 1..(Len(buf) - 1) :
           journal' = [journal EXCEPT !.bytes = WriteAt(@, journal.end, First(buf, n)),
                                      !.failed = @ \cup {frame},
                                      !.appends = @ + 1, !.faults = @ + 1]

\* The whole frames at the front of bytes: [frames, ends].
RECURSIVE WholeFrames(_, _)
WholeFrames(bytes, pos) ==
  LET end == pos + LenBytes + FromLe(SubSeq(bytes, pos + 1, pos + LenBytes))
      Behind(d) == IF d.err # "" THEN <<>>
                   ELSE <<[frame |-> d.v[1], end |-> end]>> \o WholeFrames(bytes, end)
  IN  IF pos + LenBytes > Len(bytes) THEN <<>>
      ELSE Behind(ReadFramed(JournalFrameT, Past(bytes, pos)))

\* Mutant: the torn tail is left in the file.
CutKeepsTail(bytes, end) == bytes

\* set_len to the end of the last whole frame.
CutTail(bytes, end) == First(bytes, end)

\* Journal::open takes the file's length for its end; Journal::replay reads the
\* whole frames and cuts what is behind them.
Opened(kept, got) ==
  [journal EXCEPT !.bytes = kept, !.end = Len(kept), !.disk = kept, !.durable = Len(kept),
                  !.log = got,
                  !.replayed = [was |-> journal.log, kept |-> journal.durable, got |-> got]]

Reopened(bytes) ==
  LET Replayed(got) == Opened(CutTail(bytes, IF got = <<>> THEN 0 ELSE Last(got).end), got)
  IN  Replayed(WholeFrames(bytes, 0))

\* The process ends, or the power does, and the file is opened again.
Restart == journal' = Reopened(journal.bytes)

\* What a power loss leaves when the first n bytes of the file reached the disk:
\* behind them what was there before, in a file that has grown or not.
Surviving(n, length) ==
  [i \in 1..length |-> IF i <= n THEN journal.bytes[i]
                       ELSE IF i <= Len(journal.disk) THEN journal.disk[i] ELSE 0]

PowerLoss ==
  /\ journal.faults < MaxFaults
  /\ \E n \in 0..Len(journal.bytes) :
       \E length \in {Max({n, Len(journal.disk)}), Len(journal.bytes)} :
         journal' = [Reopened(Surviving(n, length)) EXCEPT !.faults = @ + 1]

JournalNext ==
  \/ \E frame \in Frames : JournalAppend(frame) \/ AppendDeferred(frame) \/ AppendFails(frame)
  \/ JournalSync
  \/ Restart
  \/ PowerLoss

\* A replay gives a prefix of the frames appended, whole and in order, with
\* every frame that a barrier had covered: a torn, overwritten or zeroed tail
\* costs none of them, not even after appends behind an earlier replay. At most
\* one frame may follow that was not appended: one whose write failed and whose
\* missing bytes read as they would have been written (Journal::replay,
\* Journal::write_frame).
ReplayExact ==
  journal.replayed # <<>> =>
    LET was == journal.replayed.was
        got == journal.replayed.got
    IN  \E n \in 0..Len(was) :
          /\ \A i \in DOMAIN was : was[i].end <= journal.replayed.kept => i <= n
          /\ \/ got = First(was, n)
             \/ /\ Len(got) = n + 1
                /\ First(got, n) = First(was, n)
                /\ Last(got).frame \in journal.failed
=============================================================================
