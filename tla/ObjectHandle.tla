----------------------------- MODULE ObjectHandle -----------------------------
(***************************************************************************)
(* Writing one object: svfs/handle.go, with the segments of large objects  *)
(* (svfs/swift.go), truncation (Object.Setattr, removeSegments) and        *)
(* removal (Directory.removeObject).                                       *)
(*                                                                         *)
(* The lock of svfs/object.go gives the object to one handle at a time,    *)
(* and the kernel sends the requests on an inode that change it one after  *)
(* the other; so this is one sequence of steps, each of them one request   *)
(* to Swift with the Go code up to the next one.  What matters is what is  *)
(* in Swift between the steps, and what happens when one of them fails.    *)
(*                                                                         *)
(* Data are sequences of units, which are numbered as they are written.    *)
(* Times are the seconds that name the segments of a large object.         *)
(***************************************************************************)
EXTENDS Integers, FiniteSets, SequencesExt

CONSTANTS
  SegmentSize,  \* option segment-size, in units
  MaxChunk,     \* bound on the size of a write, in units
  MaxUnits,     \* bound on the units written in all
  MaxTime,      \* bound on the clock
  MaxFaults     \* bound on the failing requests to Swift

ASSUME HandleAssumption ==
  /\ SegmentSize \in Nat /\ MaxChunk \in Nat \ {0}
  /\ MaxUnits \in Nat /\ MaxTime \in Nat /\ MaxFaults \in Nat

Times == 0 .. MaxTime
NoTime == -1
Data == Seq(1 .. MaxUnits)

VARIABLES
  base,      \* the object at the path: nothing, data, or a manifest
  segments,  \* the segments: data of <<time, id>>
  node,      \* the Object node: its size, its manifest header, its flags
  fh,        \* the ObjectHandle
  wd,        \* its writer: where the PUT goes, and the data sent so far
  pc,        \* the next request to Swift
  after,     \* what deleteSegments was called by
  victims,   \* the ids of the segments it has still to delete
  chunk,     \* the data of the write being served
  clock,     \* time.Now().Unix()
  faults,    \* how many requests to Swift have failed
  units,     \* history: how many units have been written
  written,   \* history: the data of the writes through this handle
  expected,  \* history: the data of the last handle that wrote, or nothing
  cut,       \* history: an object that is no manifest was cut to size 0
  reported   \* history: some request was answered with an error

swiftVars == <<base, segments, faults>>
handleVars == <<fh, wd, chunk>>
deleteVars == <<after, victims>>
history == <<units, written, expected, cut, reported>>
vars == <<swiftVars, node, handleVars, pc, deleteVars, clock, history>>

Nothing == [kind |-> "none", data |-> << >>, time |-> NoTime]
Plain(data) == [kind |-> "plain", data |-> data, time |-> NoTime]
Manifest(t) == [kind |-> "manifest", data |-> << >>, time |-> t]

Node(size, t) == [bytes |-> size, header |-> t, segmented |-> t # NoTime, writing |-> FALSE]
Handle(c) == [create |-> c, truncated |-> FALSE, wroteSegment |-> FALSE,
              segmentID |-> 0, uploaded |-> 0, segmentPrefix |-> NoTime]
NoWriter == [to |-> "none", id |-> 0, data |-> << >>]
Spent == [to |-> "spent", id |-> 0, data |-> << >>]  \* closed, or its PUT has failed
Writer(to, id, data) == [to |-> to, id |-> id, data |-> data]

Ids == 1 .. MaxUnits + 1
IdsOf(t) == {id \in Ids : <<t, id>> \in DOMAIN segments}
StoreSegment(t, id, data) ==
  [key \in DOMAIN segments \cup {<<t, id>>} |->
     IF key = <<t, id>> THEN data ELSE segments[key]]

(* What reading the path yields: for a manifest, its segments one after    *)
(* the other, in the order of their names.                                 *)
Parts(t) == [id \in Nat |-> IF id \in IdsOf(t) THEN segments[<<t, id>>] ELSE << >>]
Joined(parts) ==
  LET joined[n \in Nat] == IF n = 0 THEN << >> ELSE joined[n - 1] \o parts[n] IN joined
Contents ==
  IF base.kind = "manifest" THEN Joined(Parts(base.time))[MaxUnits + 1] ELSE base.data

-----------------------------------------------------------------------------
TypeOK ==
  /\ base \in [kind : {"none", "plain", "manifest"}, data : Data, time : Times \cup {NoTime}]
  /\ DOMAIN segments \subseteq Times \X Ids
  /\ \A key \in DOMAIN segments : segments[key] \in Data
  /\ node \in [bytes : Nat, header : Times \cup {NoTime},
               segmented : BOOLEAN, writing : BOOLEAN]
  /\ fh \in [create : BOOLEAN, truncated : BOOLEAN, wroteSegment : BOOLEAN,
             segmentID : {0} \cup Ids, uploaded : 0 .. MaxUnits,
             segmentPrefix : Times \cup {NoTime}]
  /\ wd \in [to : {"none", "spent", "base", "segment"}, id : {0} \cup Ids, data : Data]
  /\ pc \in {"closed", "open", "failed", "list", "delete", "head", "deletebase", "write",
             "close", "copy", "movedelete", "manifest", "segment"}
  /\ after \in {"none", "truncate", "cut", "cutopen", "remove"}
  /\ victims \subseteq Ids
  /\ chunk \in Data /\ written \in Data /\ expected \in Data
  /\ clock \in Times /\ faults \in 0 .. MaxFaults /\ units \in 0 .. MaxUnits
  /\ cut \in BOOLEAN /\ reported \in BOOLEAN

Init ==
  /\ base = Nothing /\ segments = << >>
  /\ node = Node(0, NoTime) /\ fh = Handle(FALSE) /\ wd = NoWriter
  /\ pc = "closed" /\ after = "none" /\ victims = {} /\ chunk = << >>
  /\ clock = 0 /\ faults = 0
  /\ units = 0 /\ written = << >> /\ expected = << >> /\ cut = FALSE /\ reported = FALSE

-----------------------------------------------------------------------------
(* A request to Swift fails, before or after it took effect.               *)
Fails == faults < MaxFaults /\ faults' = faults + 1
Succeeds == UNCHANGED faults
(* The request being served is answered with an error; the application     *)
(* gives up and closes the file.                                           *)
Report(where) ==
  /\ pc' = where /\ reported' = TRUE
  /\ UNCHANGED <<units, written, expected, cut>>
Silent == UNCHANGED <<units, written, expected, cut, reported>>

(* Closing a writer ends its PUT.  Nobody looks at the error.              *)
Put(w) ==
  IF w.to = "base" THEN base' = Plain(w.data) /\ UNCHANGED segments
  ELSE IF w.to = "segment"
  THEN segments' = StoreSegment(fh.segmentPrefix, w.id, w.data) /\ UNCHANGED base
  ELSE UNCHANGED <<base, segments>>
CloseWriter ==
  \/ Put(wd) /\ Succeeds
  \/ wd.to \in {"base", "segment"} /\ Fails /\ (Put(wd) \/ UNCHANGED <<base, segments>>)

-----------------------------------------------------------------------------
(* Directory.Create: an empty object, a new node, and a handle that may    *)
(* create.                                                                 *)
Create ==
  /\ pc = "closed" /\ base = Nothing
  /\ \/ /\ Succeeds
        /\ base' = Plain(<< >>)
        /\ node' = Node(0, NoTime) /\ fh' = Handle(TRUE) /\ pc' = "open"
        /\ expected' = << >> /\ cut' = FALSE
        /\ UNCHANGED <<units, written, reported>>
     \/ /\ Fails /\ base' \in {Nothing, Plain(<< >>)}
        /\ node' = Node(0, NoTime)
        /\ Report("closed") /\ UNCHANGED fh
  /\ UNCHANGED <<segments, wd, chunk, deleteVars, clock>>

(* Object.Open for writing.                                                *)
Open ==
  /\ pc = "closed" /\ base # Nothing
  /\ fh' = Handle(FALSE) /\ pc' = "open"
  /\ UNCHANGED <<swiftVars, node, wd, chunk, deleteVars, clock, history>>

(* A listing makes a new node of what Swift has: a HEAD request tells the  *)
(* size and the manifest of an object that a listing shows as empty.       *)
Relist ==
  /\ pc = "closed" /\ base # Nothing
  /\ node' = Node(Len(Contents), base.time)
  /\ node' # node
  /\ UNCHANGED <<swiftVars, handleVars, pc, deleteVars, clock, history>>

-----------------------------------------------------------------------------
(* Write truncates the object first if this handle has not.                *)
MustTruncateAlways ==  \* mutant: a handle that has truncated truncates again
  fh.create => ~node.writing
MustTruncate ==
  IF fh.create THEN ~node.writing ELSE ~fh.truncated

(* The writer is opened again, on an object that has no size any more.     *)
ReopenKeepingSize(n) ==  \* mutant: the size is not reset
  /\ node' = [n EXCEPT !.writing = TRUE]
  /\ fh' = [fh EXCEPT !.truncated = TRUE]
  /\ wd' = Writer("base", 0, << >>)
Reopen(n) ==
  /\ node' = [n EXCEPT !.bytes = 0, !.writing = TRUE]
  /\ fh' = [fh EXCEPT !.truncated = TRUE]
  /\ wd' = Writer("base", 0, << >>)

Write ==
  /\ pc = "open"
  /\ \E size \in 1 .. MaxChunk :
       /\ units + size <= MaxUnits /\ units' = units + size
       /\ chunk' = [i \in 1 .. size |-> units + i]
  /\ IF MustTruncate /\ node.segmented
     THEN pc' = "list" /\ after' = "truncate" /\ UNCHANGED <<node, fh, wd>>
     ELSE /\ pc' = "write" /\ UNCHANGED after
          /\ IF MustTruncate THEN Reopen(node)
             ELSE node' = [node EXCEPT !.writing = TRUE] /\ UNCHANGED <<fh, wd>>
  /\ UNCHANGED <<swiftVars, victims, clock, written, expected, cut, reported>>

(* The write fits the current object or segment; or the current one is     *)
(* closed, and at the first time moved to the segment container.           *)
WriteData ==
  /\ pc = "write"
  /\ IF fh.uploaded + Len(chunk) <= SegmentSize
     THEN \/ /\ Succeeds
             /\ wd' = [wd EXCEPT !.data = @ \o chunk]
             /\ fh' = [fh EXCEPT !.uploaded = @ + Len(chunk)]
             /\ node' = [node EXCEPT !.bytes = @ + Len(chunk)]
             /\ written' = written \o chunk
             /\ pc' = "open"
             /\ UNCHANGED <<units, expected, cut, reported>>
          \/ /\ Fails /\ wd' = Spent /\ Report("failed")
             /\ UNCHANGED <<node, fh>>
     ELSE pc' = "close" /\ UNCHANGED <<faults, wd, fh, node, history>>
  /\ UNCHANGED <<base, segments, chunk, deleteVars, clock>>

CloseSegmentUnnamed ==  \* mutant: the first segment gets no number of its own
  /\ pc = "close" /\ CloseWriter /\ wd' = Spent
  /\ pc' = IF fh.wroteSegment THEN "segment" ELSE "copy"
  /\ fh' = IF fh.wroteSegment THEN fh ELSE [fh EXCEPT !.segmentPrefix = clock]
  /\ Silent
  /\ UNCHANGED <<node, chunk, deleteVars, clock>>
CloseSegment ==
  /\ pc = "close"
  /\ CloseWriter
  /\ wd' = Spent
  /\ IF fh.wroteSegment THEN pc' = "segment" /\ UNCHANGED fh
     ELSE /\ pc' = "copy"
          /\ fh' = [fh EXCEPT !.segmentPrefix = clock, !.segmentID = @ + 1]
  /\ Silent
  /\ UNCHANGED <<node, chunk, deleteVars, clock>>

(* moveToSegment: ObjectMove is a copy and a deletion.                     *)
MoveCopy ==
  LET copied == StoreSegment(fh.segmentPrefix, fh.segmentID, Contents)
  IN  /\ pc = "copy"
      /\ \/ /\ Succeeds /\ base # Nothing
            /\ segments' = copied /\ pc' = "movedelete" /\ Silent
         \/ Fails /\ segments' \in {segments, copied} /\ Report("failed")
         \/ Succeeds /\ base = Nothing /\ UNCHANGED segments /\ Report("failed")
      /\ UNCHANGED <<base, node, handleVars, deleteVars, clock>>

MoveDelete ==
  /\ pc = "movedelete"
  /\ \/ Succeeds /\ base' = Nothing /\ pc' = "manifest" /\ Silent
     \/ Fails /\ base' \in {base, Nothing} /\ Report("failed")
  /\ UNCHANGED <<segments, node, handleVars, deleteVars, clock>>

(* createManifest, whose error moveToSegment drops.                        *)
CreateManifestUnmarked ==  \* mutant: the node is not marked as segmented
  /\ pc = "manifest"
  /\ \/ Succeeds /\ base' = Manifest(fh.segmentPrefix)
     \/ Fails /\ base' \in {base, Manifest(fh.segmentPrefix)}
  /\ node' = [node EXCEPT !.header = fh.segmentPrefix]
  /\ fh' = [fh EXCEPT !.wroteSegment = TRUE]
  /\ pc' = "segment" /\ Silent
  /\ UNCHANGED <<segments, wd, chunk, deleteVars, clock>>
CreateManifest ==
  /\ pc = "manifest"
  /\ \/ Succeeds /\ base' = Manifest(fh.segmentPrefix)
     \/ Fails /\ base' \in {base, Manifest(fh.segmentPrefix)}
  /\ node' = [node EXCEPT !.header = fh.segmentPrefix, !.segmented = TRUE]
  /\ fh' = [fh EXCEPT !.wroteSegment = TRUE]
  /\ pc' = "segment" /\ Silent
  /\ UNCHANGED <<segments, wd, chunk, deleteVars, clock>>

(* initSegment: the next segment, with the data of this write.  The size   *)
(* counts them even if they were not written.                              *)
InitSegmentSameID ==  \* mutant: the segment number stays
  LET id == fh.segmentID
  IN  /\ pc = "segment"
      /\ fh' = [fh EXCEPT !.segmentID = id, !.uploaded = Len(chunk)]
      /\ node' = [node EXCEPT !.bytes = @ + Len(chunk)]
      /\ \/ /\ Succeeds
            /\ wd' = Writer("segment", id, chunk)
            /\ written' = written \o chunk
            /\ pc' = "open"
            /\ UNCHANGED <<units, expected, cut, reported>>
         \/ Fails /\ wd' = Spent /\ Report("failed")
      /\ UNCHANGED <<base, segments, chunk, deleteVars, clock>>
InitSegmentUncounted ==  \* mutant: its data are not counted
  LET id == fh.segmentID + 1
  IN  /\ pc = "segment"
      /\ fh' = [fh EXCEPT !.segmentID = id, !.uploaded = 0]
      /\ node' = [node EXCEPT !.bytes = @ + Len(chunk)]
      /\ \/ /\ Succeeds
            /\ wd' = Writer("segment", id, chunk)
            /\ written' = written \o chunk
            /\ pc' = "open"
            /\ UNCHANGED <<units, expected, cut, reported>>
         \/ Fails /\ wd' = Spent /\ Report("failed")
      /\ UNCHANGED <<base, segments, chunk, deleteVars, clock>>
InitSegment ==
  LET id == fh.segmentID + 1
  IN  /\ pc = "segment"
      /\ fh' = [fh EXCEPT !.segmentID = id, !.uploaded = Len(chunk)]
      /\ node' = [node EXCEPT !.bytes = @ + Len(chunk)]
      /\ \/ /\ Succeeds
            /\ wd' = Writer("segment", id, chunk)
            /\ written' = written \o chunk
            /\ pc' = "open"
            /\ UNCHANGED <<units, expected, cut, reported>>
         \/ Fails /\ wd' = Spent /\ Report("failed")
      /\ UNCHANGED <<base, segments, chunk, deleteVars, clock>>

(* Release closes the last writer.                                         *)
Release ==
  /\ pc \in {"open", "failed"}
  /\ CloseWriter
  /\ node' = [node EXCEPT !.writing = @ /\ wd.to = "none"]
  /\ wd' = NoWriter /\ chunk' = << >>
  /\ pc' = "closed"
  /\ expected' = IF written = << >> THEN expected ELSE written
  /\ cut' = (cut /\ written = << >>)
  /\ written' = << >>
  /\ UNCHANGED <<fh, deleteVars, clock, units, reported>>

-----------------------------------------------------------------------------
(* Setattr with size 0, on a file that nobody has open or that was just    *)
(* opened (as the kernel does for O_TRUNC).  Only a large object loses its *)
(* data: removeSegments forgets that it is one, then deletes the segments. *)
CutToZero ==
  /\ (pc = "closed" /\ base # Nothing) \/ (pc = "open" /\ wd = NoWriter)
  /\ node' = [node EXCEPT !.bytes = 0, !.segmented = FALSE]
  /\ IF node.segmented
     THEN /\ pc' = "list" /\ after' = IF pc = "open" THEN "cutopen" ELSE "cut"
          /\ UNCHANGED cut
     ELSE cut' = TRUE /\ UNCHANGED <<pc, after>>
  /\ expected' = IF node.segmented THEN expected ELSE << >>
  /\ UNCHANGED <<swiftVars, handleVars, victims, clock, units, written, reported>>

(* removeObject: the manifest is read from Swift, the segments go first.   *)
(* The error of the last DELETE is ignored; the node is forgotten, and if  *)
(* the object is still there a listing finds it again.                     *)
RemoveObject ==
  /\ pc = "closed" /\ base # Nothing
  /\ pc' = IF node.segmented THEN "head" ELSE "deletebase"
  /\ UNCHANGED <<swiftVars, node, handleVars, deleteVars, clock, history>>

HeadManifest ==
  /\ pc = "head"
  /\ \/ /\ Succeeds /\ base.kind = "manifest"
        /\ pc' = "list" /\ after' = "remove" /\ Silent
     \/ /\ Fails \/ (base.kind # "manifest" /\ Succeeds)
        /\ Report("closed") /\ UNCHANGED after
  /\ UNCHANGED <<base, segments, node, handleVars, victims, clock>>

DeleteBase ==
  /\ pc = "deletebase"
  /\ UNCHANGED <<segments, handleVars, deleteVars, clock, units, written, cut, reported>>
  /\ \/ Succeeds /\ base' = Nothing
     \/ Fails /\ base' \in {base, Nothing}
  /\ node' = Node(Len(Contents'), base'.time)
  /\ pc' = "closed" /\ expected' = << >>

-----------------------------------------------------------------------------
(* deleteSegments lists the segments of the manifest and deletes them one  *)
(* by one, in the order of their names.  removeObject goes by the header   *)
(* it got from Swift, the others by the node's.                            *)
AfterError == CASE after = "truncate" -> "failed" [] after = "cutopen" -> "open" [] OTHER -> "closed"

Doomed == IF after = "remove" THEN base.time ELSE node.header

ListSegments ==
  /\ pc = "list"
  /\ \/ /\ Succeeds
        /\ victims' = IdsOf(Doomed)
        /\ pc' = "delete" /\ Silent
     \/ Fails /\ Report(AfterError) /\ UNCHANGED victims
  /\ UNCHANGED <<base, segments, node, handleVars, after, clock>>

DeleteSegment ==
  \E id \in victims :
    LET left == [key \in DOMAIN segments \ {<<Doomed, id>>} |-> segments[key]]
    IN  /\ pc = "delete" /\ \A other \in victims : id <= other
        /\ \/ Succeeds /\ segments' = left /\ victims' = victims \ {id} /\ UNCHANGED pc /\ Silent
           \/ Fails /\ segments' \in {segments, left} /\ victims' = {} /\ Report(AfterError)
        /\ UNCHANGED <<base, node, handleVars, after, clock>>

SegmentsDeleted ==
  /\ pc = "delete" /\ victims = {}
  /\ \/ /\ after = "truncate" /\ pc' = "write"
        /\ Reopen([node EXCEPT !.header = NoTime, !.segmented = FALSE])
        /\ UNCHANGED expected
     \/ /\ after = "remove" /\ pc' = "deletebase"
        /\ UNCHANGED <<node, fh, wd, expected>>
     \/ /\ after \in {"cut", "cutopen"} /\ pc' = IF after = "cut" THEN "closed" ELSE "open"
        /\ node' = [node EXCEPT !.header = NoTime] /\ expected' = << >>
        /\ UNCHANGED <<fh, wd>>
  /\ after' = "none"
  /\ UNCHANGED <<swiftVars, chunk, victims, clock, units, written, cut, reported>>

TimePasses ==
  /\ clock < MaxTime /\ clock' = clock + 1
  /\ UNCHANGED <<swiftVars, node, handleVars, pc, deleteVars, history>>

Next ==
  \/ Create \/ Open \/ Relist
  \/ Write \/ WriteData \/ CloseSegment \/ MoveCopy \/ MoveDelete \/ CreateManifest
  \/ InitSegment \/ Release
  \/ CutToZero \/ RemoveObject \/ HeadManifest \/ DeleteBase
  \/ ListSegments \/ DeleteSegment \/ SegmentsDeleted
  \/ TimePasses
Spec == Init /\ [][Next]_vars

-----------------------------------------------------------------------------
Closed == pc = "closed" /\ base # Nothing

(* As long as Swift does what it is asked to, a file that is not open      *)
(* holds what the last handle that wrote to it wrote: every write, in      *)
(* order, once, over however many segments; and nothing once it was        *)
(* created anew or its segments were cut.  (For a file without segments    *)
(* that is cut see TruncateEmpties.)                                       *)
ReadBack == Closed /\ ~cut /\ faults = 0 => Contents = expected

(* ... no segments are left behind in the segment container, ...           *)
NoOrphans ==
  pc = "closed" /\ faults = 0 =>
    \A key \in DOMAIN segments : base.kind = "manifest" /\ key[1] = base.time

(* ... the node's size is the size of what is stored, which Attr reports   *)
(* without asking Swift, ...                                               *)
SizeIsStored == Closed /\ ~cut /\ faults = 0 => node.bytes = Len(Contents)

(* ... and svfs may be killed between any two requests: a reader finds a   *)
(* part of the old contents that ends where they end, or of the new ones   *)
(* that starts where they start, and never a mixture.                      *)
CrashLeavesOneVersion ==
  ~cut /\ faults = 0 => IsSuffix(Contents, expected) \/ IsPrefix(Contents, written)

(* No segment is larger than the segment size, or the one write in it,     *)
(* also when a request fails.  (When two do, it can be: what a failed      *)
(* truncation left of the old segments is moved into one segment if the    *)
(* PUT fails that should have replaced their manifest.)                    *)
SegmentLimit == IF MaxChunk > SegmentSize THEN MaxChunk ELSE SegmentSize
SegmentsBounded ==
  faults <= 1 => \A key \in DOMAIN segments : Len(segments[key]) <= SegmentLimit

(* Why they hold.  Where the data of a handle go, whatever fails: it opens *)
(* its writer once, after it truncated; the writer is on the object, then  *)
(* on one segment after the other, each with a number of its own.          *)
Fresh == pc = "open" \/ (pc \in {"list", "delete"} /\ after \in {"truncate", "cutopen"})
Pending ==
  \/ pc \in {"write", "close", "copy", "movedelete", "manifest", "segment"}
  \/ pc \in {"list", "delete"} /\ after = "truncate"
Moving == pc \in {"copy", "movedelete", "manifest"}
WriterInPlace ==
  /\ wd.to = "none" =>
       /\ wd = NoWriter /\ ~node.writing /\ (Fresh => fh = Handle(fh.create))
       /\ pc \in {"closed", "open", "failed", "list", "delete", "head", "deletebase"}
  /\ wd.to = "base" =>
       /\ ~fh.wroteSegment /\ fh.segmentID = 0
       /\ pc \in {"open", "write", "close"}
  /\ wd.to = "segment" =>
       /\ fh.wroteSegment /\ wd.id = fh.segmentID
       /\ pc \in {"open", "write", "close"}
  /\ wd.to = "spent" => wd = Spent /\ (Moving \/ pc \in {"segment", "failed"})
  /\ wd.to # "none" => node.writing /\ fh.truncated
  /\ Moving => ~fh.wroteSegment /\ fh.segmentID = 1
  /\ pc = "segment" => fh.wroteSegment
  /\ Moving \/ fh.wroteSegment => fh.segmentPrefix # NoTime /\ fh.segmentID > 0
Counted ==
  /\ Pending => Len(chunk) \in 1 .. MaxChunk
  /\ fh.segmentID <= IF Pending THEN units ELSE units + 1
  /\ fh.uploaded + (IF Pending THEN Len(chunk) ELSE 0) <= units
  /\ wd.to \in {"base", "segment"} => fh.uploaded = Len(wd.data)
  /\ wd.to = "base" => fh.uploaded <= SegmentSize
  /\ wd.to = "segment" => fh.uploaded <= SegmentLimit
  /\ base.kind = "plain" => Len(base.data) <= SegmentSize
BaseShape ==
  /\ base \in {Nothing, Plain(base.data), Manifest(base.time)}
  /\ base.kind = "manifest" => base.time # NoTime

(* As long as nothing failed: between two handles that write, the node     *)
(* knows the manifest of whatever segments there are, unless they are      *)
(* being deleted; ...                                                      *)
Settled ==
  wd.to = "none" =>
    /\ written = << >> /\ pc # "failed" /\ (pc # "closed" => base # Nothing)
    /\ \A key \in DOMAIN segments : base.kind = "manifest" /\ key[1] = base.time
    /\ node.segmented => base = Manifest(node.header)
    /\ pc \in {"closed", "open", "head"} => node.segmented \/ DOMAIN segments = {}
    /\ pc = "head" => node.segmented
    /\ pc \in {"list", "delete"} => base.kind = "manifest" /\ Doomed = base.time
    /\ pc \in {"list", "delete"} /\ after \in {"cut", "cutopen"} =>
         ~node.segmented /\ node.bytes = 0
    /\ pc = "delete" => \A key \in DOMAIN segments : key[2] \in victims
    /\ pc = "deletebase" => DOMAIN segments = {}
    /\ ~cut => IF pc \in {"closed", "open", "head"}
               THEN Contents = expected /\ (base = Nothing \/ node.bytes = Len(Contents))
               ELSE IsSuffix(Contents, expected)
(* ... a handle that writes to the object replaces what is left of the old *)
(* data at the end; ...                                                    *)
WritesBase ==
  wd.to = "base" =>
    /\ DOMAIN segments = {} /\ ~node.segmented
    /\ wd.data = written /\ node.bytes = Len(written) /\ (pc = "open" => written # << >>)
    /\ ~cut => IsSuffix(Contents, expected)
(* ... the object becomes the first segment, and further ones are added to *)
(* what is stored.                                                         *)
Segmented(n) ==
  /\ base = Manifest(fh.segmentPrefix) /\ node.header = fh.segmentPrefix /\ node.segmented
  /\ DOMAIN segments = {fh.segmentPrefix} \X (1 .. n)
MovesToSegment ==
  wd.to = "spent" =>
    /\ pc # "failed" /\ node.bytes = Len(written)
    /\ pc \in {"copy", "movedelete"} => base = Plain(written)
    /\ pc = "copy" => DOMAIN segments = {}
    /\ pc \in {"movedelete", "manifest"} =>
         DOMAIN segments = {<<fh.segmentPrefix, 1>>} /\ segments[<<fh.segmentPrefix, 1>>] = written
    /\ pc = "manifest" => base = Nothing
    /\ pc = "segment" => Segmented(fh.segmentID) /\ Contents = written
WritesSegment ==
  wd.to = "segment" =>
    /\ Segmented(fh.segmentID - 1)
    /\ written = Contents \o wd.data /\ node.bytes = Len(written) /\ (pc = "open" => written # << >>)

(* With one failing request, what is moved is still the object that was    *)
(* written, or the old one.                                                *)
MoveBounded == faults <= 1 /\ pc = "copy" => Len(Contents) <= SegmentLimit

(* The invariant that the properties above follow from.                    *)
HandleInvariant ==
  /\ WriterInPlace /\ Counted /\ BaseShape
  /\ faults = 0 => Settled /\ WritesBase /\ MovesToSegment /\ WritesSegment
  /\ SegmentsBounded /\ MoveBounded

(* docs/FAQ.md:8-9: an operation returns when its data has been written to *)
(* the network.  So if no request was answered with an error, they are     *)
(* there.                                                                  *)
AckedIsStored == Closed /\ ~cut /\ ~reported => Contents = expected

(* object.go:143-145: Setattr is how the kernel truncates files.           *)
TruncateEmpties == Closed /\ faults = 0 => Contents = expected
=============================================================================
