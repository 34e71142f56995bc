-------------------------------- MODULE CoSave --------------------------------
(***************************************************************************)
(* The co-save file of F4SE (f4se/Serialization.cpp): a header, and for    *)
(* each plugin that opened records a plugin header and its records.  The   *)
(* headers are skipped when a part begins and written when it ends, the    *)
(* file's own header last of all.                                          *)
(*                                                                         *)
(* The file is a sequence of cells, one for each header and each datum     *)
(* written; offset counts the cells before the position.  The callbacks of *)
(* plugins run for several steps and may return, or throw, after any of    *)
(* them.  The game may die during a save and is started again with other   *)
(* plugins installed.  wrote and got record what a plugin put into the     *)
(* file and what it was given back.                                        *)
(***************************************************************************)
EXTENDS Naturals, Sequences, SequencesExt

CONSTANTS
  Plugins,    \* plugins by their handles, each with a unique identifier
  MaxRecords, \* bound on the records of a plugin
  MaxData,    \* bound on the data of a record
  MaxRuns     \* bound on the starts of the game, and on saves and loads

(* Handles are numbers; 0 stands for no plugin.                            *)
ASSUME HandlesAssumption ==
  /\ Plugins \subseteq Nat \ {0}
  /\ MaxRecords \in Nat /\ MaxData \in Nat /\ MaxRuns \in Nat

VARIABLES
  cells,         \* the cells on disk
  onDisk,       \* the file exists
  complete,     \* the last save reached its end
  offset,       \* s_currentFile's position
  mode,         \* what HandleSaveGlobalData or HandleLoadGlobalData is doing
  current,      \* the plugin whose callback runs, or that is next
  pluginHeader, \* s_pluginHeader
  headerAt,     \* s_pluginHeaderOffset
  chunkOpen,    \* s_chunkOpen
  chunkHeader,  \* s_chunkHeader
  chunkAt,      \* s_chunkHeaderOffset
  expected,     \* where the next plugin's part begins, while one is loaded
  hadData,      \* the plugins found in the file
  installed,    \* s_pluginCallbacks
  runs,         \* starts of the game, saves and loads so far
  wrote, got,   \* the records of each plugin: what it wrote, what it was given
  places,       \* where the header of each plugin and those of its records are
  readAll       \* plugins that were told there is no further record

saveVars == <<cells, onDisk, complete, offset, mode, current, pluginHeader, headerAt,
              chunkOpen, chunkHeader, chunkAt, expected, hadData, installed, runs,
              wrote, got, places, readAll>>

Types == Plugins \X (1..MaxRecords)     \* the type of a record names its origin
NoType == <<0, 0>>
ChunkHeader == [type : Types \cup {NoType}, length : Nat]
PluginHeader == [uid : Plugins \cup {0}, numChunks : Nat, length : Nat]
Hole == [hole |-> TRUE]
FileHeader == [f4se |-> TRUE]
Cell == {Hole, FileHeader} \cup ChunkHeader \cup PluginHeader \cup [datum : 1..MaxData]
Record == [type : Types \cup {NoType}, data : Seq(0..MaxData)]
Nothing == [p \in Plugins |-> <<>>]

SaveTypeOK ==
  /\ cells \in Seq(Cell) /\ onDisk \in BOOLEAN /\ complete \in BOOLEAN
  /\ offset \in Nat /\ headerAt \in Nat /\ chunkAt \in Nat /\ expected \in Nat
  /\ mode \in {"idle", "save", "saving", "load", "loading", "rest", "resting"}
  /\ current \in Plugins \cup {0}
  /\ pluginHeader \in PluginHeader /\ chunkHeader \in ChunkHeader /\ chunkOpen \in BOOLEAN
  /\ hadData \subseteq Plugins /\ installed \subseteq Plugins /\ readAll \subseteq Plugins
  /\ runs \in 0..MaxRuns
  /\ wrote \in [Plugins -> Seq(Record)] /\ got \in [Plugins -> Seq(Record)]
  /\ places \in [Plugins -> Seq(Nat)]

NoHeader == [uid |-> 0, numChunks |-> 0, length |-> 0]
NoChunk == [type |-> NoType, length |-> 0]

(* What a reader takes the bytes of a cell for.                            *)
AsPlugin(cell) == IF "uid" \in DOMAIN cell THEN cell ELSE NoHeader
AsChunk(cell) == IF "type" \in DOMAIN cell THEN cell ELSE NoChunk
AsDatum(cell) == IF "datum" \in DOMAIN cell THEN cell.datum ELSE 0

SaveInit ==
  /\ cells = <<>> /\ onDisk = FALSE /\ complete = FALSE /\ runs = 0
  /\ mode = "idle" /\ current = 0 /\ offset = 0 /\ expected = 0
  /\ pluginHeader = NoHeader /\ headerAt = 0
  /\ chunkOpen = FALSE /\ chunkHeader = NoChunk /\ chunkAt = 0
  /\ hadData = {} /\ installed \in SUBSET Plugins
  /\ wrote = Nothing /\ got = Nothing /\ places = Nothing /\ readAll = {}

history == <<wrote, got, places, readAll>>
disk == <<cells, onDisk, complete>>
chunk == <<chunkOpen, chunkHeader, chunkAt>>
header == <<pluginHeader, headerAt>>

(* The game ends or dies, and is started with the plugins now installed.   *)
Restart(plugins) ==
  /\ runs < MaxRuns /\ runs' = runs + 1
  /\ mode' = "idle" /\ current' = 0 /\ offset' = 0 /\ expected' = 0
  /\ pluginHeader' = NoHeader /\ headerAt' = 0
  /\ chunkOpen' = FALSE /\ chunkHeader' = NoChunk /\ chunkAt' = 0
  /\ hadData' = {} /\ installed' = plugins
  /\ got' = Nothing /\ readAll' = {}
  /\ UNCHANGED <<disk, wrote, places>>

(* s_currentFile.WriteBuf of one cell at a position.  A file shorter than  *)
(* the position is extended.                                               *)
Put(f, at, cell) ==
  [i \in 1..(IF at >= Len(f) THEN at + 1 ELSE Len(f)) |->
     IF i = at + 1 THEN cell ELSE IF i <= Len(f) THEN f[i] ELSE Hole]

(* The plugins, in the order of their handles, after p.                    *)
After(p, S) == {q \in S : q > p}
Lowest(S) == CHOOSE p \in S : \A q \in S : p <= q
NextOf(p, S) == IF After(p, S) = {} THEN 0 ELSE Lowest(After(p, S))

-----------------------------------------------------------------------------
(* HandleSaveGlobalData replaces the file and skips its header.            *)
SaveStart ==
  /\ mode = "idle" /\ runs < MaxRuns /\ runs' = runs + 1
  /\ cells' = <<>> /\ onDisk' = TRUE /\ complete' = FALSE
  /\ offset' = 1
  /\ mode' = "save" /\ current' = NextOf(0, installed)
  /\ wrote' = Nothing /\ got' = Nothing /\ places' = Nothing /\ readAll' = {}
  /\ UNCHANGED <<header, chunk, expected, hadData, installed>>

SaveCall ==
  /\ mode = "save" /\ current # 0
  /\ mode' = "saving"
  /\ pluginHeader' = [uid |-> current, numChunks |-> 0, length |-> 0]
  /\ chunkOpen' = FALSE
  /\ UNCHANGED <<disk, offset, current, headerAt, chunkHeader, chunkAt, expected, hadData,
                 installed, runs, history>>

(* FlushWriteChunk completes the header of the open record.                *)
FlushedHeader == IF chunkOpen THEN [chunkHeader EXCEPT !.length = offset - chunkAt - 1]
                              ELSE chunkHeader
FlushedFile == IF chunkOpen THEN Put(cells, chunkAt, FlushedHeader) ELSE cells
FlushedLength == pluginHeader.length + IF chunkOpen THEN offset - chunkAt ELSE 0

OpenRecord ==
  LET opened == pluginHeader.numChunks = 0
      at == IF opened THEN offset + 1 ELSE offset
      n == pluginHeader.numChunks + 1
  IN /\ mode = "saving" /\ n <= MaxRecords
     /\ headerAt' = IF opened THEN offset ELSE headerAt
     /\ cells' = FlushedFile
     /\ pluginHeader' = [pluginHeader EXCEPT !.length = FlushedLength, !.numChunks = n]
     /\ chunkAt' = at /\ offset' = at + 1 /\ chunkOpen' = TRUE
     /\ chunkHeader' = [type |-> <<current, n>>, length |-> 0]
     /\ wrote' = [wrote EXCEPT ![current] = Append(@, [type |-> <<current, n>>, data |-> <<>>])]
     /\ places' = [places EXCEPT ![current] = IF opened THEN <<offset, at>> ELSE Append(@, at)]
     /\ UNCHANGED <<onDisk, complete, mode, current, expected, hadData, installed, runs,
                    got, readAll>>

(* Orderly plugins write only into a record they have opened.              *)
WriteRecordData ==
  LET n == Len(wrote[current])
  IN /\ mode = "saving" /\ chunkOpen
     /\ Len(wrote[current][n].data) < MaxData
     /\ LET datum == Len(wrote[current][n].data) + 1
        IN /\ cells' = Put(cells, offset, [datum |-> datum])
           /\ wrote' = [wrote EXCEPT ![current][n].data = Append(@, datum)]
     /\ offset' = offset + 1
     /\ UNCHANGED <<onDisk, complete, mode, current, header, chunk, expected, hadData,
                    installed, runs, got, places, readAll>>

(* The callback returns or throws; the last record and the plugin's header *)
(* are completed.                                                          *)
SaveReturn ==
  /\ mode = "saving"
  /\ pluginHeader' = [pluginHeader EXCEPT !.length = FlushedLength]
  /\ cells' = IF pluginHeader.numChunks > 0
               THEN Put(FlushedFile, headerAt, pluginHeader')
               ELSE FlushedFile
  /\ chunkOpen' = FALSE /\ chunkHeader' = FlushedHeader
  /\ mode' = "save" /\ current' = NextOf(current, installed)
  /\ UNCHANGED <<onDisk, complete, offset, headerAt, chunkAt, expected, hadData,
                 installed, runs, history>>

SaveEnd ==
  /\ mode = "save" /\ current = 0
  /\ cells' = Put(cells, 0, FileHeader) /\ complete' = TRUE
  /\ mode' = "idle" /\ offset' = 1
  /\ UNCHANGED <<onDisk, current, header, chunk, expected, hadData, installed, runs, history>>

-----------------------------------------------------------------------------
(* HandleLoadGlobalData.  A file whose header was never written is refused;*)
(* an empty one is compared with whatever is on the stack.                 *)
LoadStart ==
  /\ mode = "idle" /\ onDisk /\ runs < MaxRuns /\ runs' = runs + 1
  /\ cells # <<>> => cells[1] = FileHeader
  /\ mode' = "load" /\ current' = 0
  /\ offset' = IF cells = <<>> THEN 0 ELSE 1
  /\ hadData' = {} /\ got' = Nothing /\ readAll' = {}
  /\ UNCHANGED <<disk, header, chunk, expected, installed, wrote, places>>

(* The part of a plugin.  It is passed over if the plugin is missing.      *)
LoadCall ==
  /\ mode = "load" /\ offset < Len(cells)
  /\ pluginHeader' = AsPlugin(cells[offset + 1])
  /\ LET p == pluginHeader'.uid
         next == offset + 1 + pluginHeader'.length
     IN IF p \in installed
          THEN /\ hadData' = hadData \cup {p} /\ chunkOpen' = FALSE
               /\ mode' = "loading" /\ current' = p
               /\ offset' = offset + 1 /\ expected' = next
          ELSE /\ offset' = next
               /\ UNCHANGED <<hadData, chunkOpen, mode, current, expected>>
  /\ UNCHANGED <<disk, headerAt, chunkHeader, chunkAt, installed, runs, history>>

Reading == mode \in {"loading", "resting"}

(* What FlushReadRecord leaves as position: it skips what was not read.    *)
PastRecord == IF chunkOpen THEN offset + chunkHeader.length ELSE offset

(* A read at the end of the file leaves the header as it is.               *)
ReadChunkHeader(at) == IF at < Len(cells) THEN AsChunk(cells[at + 1]) ELSE chunkHeader

GetNextRecordInfo ==
  /\ Reading /\ pluginHeader.numChunks > 0
  /\ pluginHeader' = [pluginHeader EXCEPT !.numChunks = @ - 1]
  /\ chunkHeader' = ReadChunkHeader(PastRecord)
  /\ offset' = IF PastRecord < Len(cells) THEN PastRecord + 1 ELSE PastRecord
  /\ chunkOpen' = TRUE
  /\ got' = [got EXCEPT ![current] = Append(@, [type |-> chunkHeader'.type, data |-> <<>>])]
  /\ UNCHANGED <<disk, mode, current, headerAt, chunkAt, expected, hadData, installed, runs,
                 wrote, places, readAll>>

NoFurtherRecord ==
  /\ Reading /\ pluginHeader.numChunks = 0
  /\ offset' = PastRecord /\ chunkOpen' = FALSE
  /\ readAll' = readAll \cup {current}
  /\ UNCHANGED <<disk, mode, current, header, chunkHeader, chunkAt, expected, hadData,
                 installed, runs, wrote, got, places>>

(* One datum.  At the end of the file the count goes down all the same.    *)
ReadRecordData ==
  LET n == Len(got[current])
  IN /\ Reading /\ chunkOpen /\ chunkHeader.length > 0
     /\ chunkHeader' = [chunkHeader EXCEPT !.length = @ - 1]
     /\ IF offset < Len(cells)
          THEN /\ offset' = offset + 1
               /\ got' = [got EXCEPT ![current][n].data = Append(@, AsDatum(cells[offset + 1]))]
          ELSE UNCHANGED <<offset, got>>
     /\ UNCHANGED <<disk, mode, current, header, chunkOpen, chunkAt, expected, hadData,
                    installed, runs, wrote, places, readAll>>

(* LoadReturn that goes on where the plugin stopped.                       *)
LoadReturnAnywhere ==
  /\ mode = "loading"
  /\ mode' = "load" /\ current' = 0
  /\ UNCHANGED <<disk, offset, header, chunk, expected, hadData, installed, runs, history>>

(* The callback returns or throws, wherever it is; the next part begins    *)
(* where the header says.                                                  *)
LoadReturn ==
  /\ mode = "loading"
  /\ mode' = "load" /\ current' = 0
  /\ offset' = expected
  /\ UNCHANGED <<disk, header, chunk, expected, hadData, installed, runs, history>>

(* Plugins that had no data are called, with whatever the last part left.  *)
NoData == installed \ hadData

RestCall ==
  /\ \/ mode = "load" /\ offset >= Len(cells)
     \/ mode = "resting"
  /\ NextOf(current, NoData) # 0
  /\ mode' = "resting" /\ current' = NextOf(current, NoData)
  /\ UNCHANGED <<disk, offset, header, chunk, expected, hadData, installed, runs, history>>

(* The last of them has returned, or one has thrown.                       *)
LoadEnd ==
  /\ \/ mode = "load" /\ offset >= Len(cells) /\ NoData = {}
     \/ mode = "resting"
  /\ mode' = "idle" /\ current' = 0
  /\ UNCHANGED <<disk, offset, header, chunk, expected, hadData, installed, runs, history>>

(* HandleDeleteSave: the game has deleted its save.                        *)
DeleteSave ==
  /\ mode = "idle" /\ onDisk
  /\ cells' = <<>> /\ onDisk' = FALSE
  /\ UNCHANGED <<complete, offset, mode, current, header, chunk, expected, hadData, installed,
                 runs, history>>

SaveNext ==
  \/ \E plugins \in SUBSET Plugins : Restart(plugins)
  \/ SaveStart \/ SaveCall \/ OpenRecord \/ WriteRecordData \/ SaveReturn \/ SaveEnd
  \/ LoadStart \/ LoadCall \/ GetNextRecordInfo \/ NoFurtherRecord \/ ReadRecordData
  \/ LoadReturn \/ RestCall \/ LoadEnd \/ DeleteSave

SaveSpec == SaveInit /\ [][SaveNext]_saveVars

-----------------------------------------------------------------------------
(* A plugin found in the file is given its own records, from the first on, *)
(* in order and with a prefix of their data, however other plugins stopped *)
(* reading, threw while saving, or are missing.                            *)
ReadsOwnRecords ==
  \A p \in hadData :
    /\ Len(got[p]) <= Len(wrote[p])
    /\ \A n \in DOMAIN got[p] : n \in DOMAIN wrote[p] =>
         got[p][n].type = wrote[p][n].type /\ IsPrefix(got[p][n].data, wrote[p][n].data)

(* A plugin that reads until it is told there is no further record was     *)
(* given every record it wrote.                                            *)
ReadsAllRecords ==
  \A p \in hadData \cap readAll :
    [n \in DOMAIN got[p] |-> got[p][n].type] = [n \in DOMAIN wrote[p] |-> wrote[p][n].type]

(* Nothing is read from a file whose save did not reach its end: the file's*)
(* header is written last and is what makes the file one.                  *)
InterruptedSaveIsIgnored == mode \in {"loading", "load"} /\ ~complete => hadData = {} /\ cells = <<>>

(* Every part the loader comes to begins with a plugin's header, and every *)
(* record of a plugin that is being loaded with a record's.                *)
LoaderFindsHeaders ==
  /\ mode = "load" /\ offset < Len(cells) => cells[offset + 1] \in PluginHeader
  /\ mode = "loading" /\ pluginHeader.numChunks > 0 =>
       PastRecord < Len(cells) /\ cells[PastRecord + 1] \in ChunkHeader

(* Serialization.cpp: whatever a plugin leaves unread, throws or lacks,    *)
(* the loader finds every part and record where it begins, a plugin is     *)
(* given its own records and all of them, and nothing is read of a save    *)
(* that was interrupted.                                                   *)
RecordsAreReadBack ==
  /\ SaveTypeOK /\ LoaderFindsHeaders
  /\ ReadsOwnRecords /\ ReadsAllRecords /\ InterruptedSaveIsIgnored
=============================================================================
