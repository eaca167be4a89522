---------------------------- MODULE QueryStream ----------------------------
(***************************************************************************)
(* One statement that returns rows: a native driver reads them from the    *)
(* server, cuts them into chunks and sends these over a bounded channel to *)
(* the query engine, which passes them on within its limits of rows and    *)
(* bytes.  The two share a StreamControl, the first reason to stop.        *)
(*                                                                         *)
(* A limit that is met never ends the engine's loop: it goes on taking     *)
(* chunks, so that the driver, and the statement, come to their end.       *)
(***************************************************************************)
EXTENDS Integers, SequencesExt, FiniteSetsExt

CONSTANTS
  MaxRows,     \* bound: rows the statement returns
  RowLimit,    \* rows the engine passes on
  ByteLimit,   \* bytes the engine passes on
  ChunkRows,   \* rows of a driver's chunk
  DriverBytes, \* bytes of a driver's chunk, and of the largest row it takes
  ChunkBytes,  \* bytes of a chunk the engine passes on
  Capacity     \* chunks the channel holds

ASSUME StreamAssumption ==
  /\ {RowLimit, ByteLimit, ChunkRows, DriverBytes, ChunkBytes, Capacity} \subseteq Nat \ {0}
  /\ MaxRows \in Nat /\ ChunkBytes <= DriverBytes

VARIABLES
  setting,    \* driver, transaction mode and engine function of the stream
  sizes,      \* bytes of each row of the statement
  cursor,     \* rows the server has produced
  counted,    \* rows the driver has counted
  buffer,     \* rows of the driver's next chunk
  outgoing,   \* chunk the driver is sending
  channel,    \* chunks sent
  reason,     \* first reason to stop, or "none"
  refused,    \* the driver has met a row it does not take
  cutShort,   \* the driver has cancelled the statement on the server
  step,       \* where the driver's loop is
  outcome,    \* what the driver returned
  driverCut,  \* the driver has left rows out
  delivered,  \* rows passed on, in order
  engineCut,  \* the engine has left rows out
  failed,     \* the engine keeps an error of its own
  terminal    \* the answer

driverVars == <<cursor, counted, buffer, outgoing, refused, cutShort, step, outcome, driverCut>>
engineVars == <<delivered, engineCut, failed, terminal>>
streamVars == <<setting, sizes, driverVars, channel, reason, engineVars>>

Driver == {"postgres", "mysql", "sqlite", "mssql"}
Reason == {"MaxRows", "ResultBytes", "CellOrChunkLimit", "ReceiverUnavailable"}

\* At most one row of a statement is not of the smallest size.
Sizes == {f \in UNION {[1..n -> 1..(DriverBytes + 1)] : n \in 0..MaxRows} :
            Cardinality({i \in DOMAIN f : f[i] # 1}) <= 1}

\* Only PostgreSQL looks at the mode, and only SQLite tells a statement that
\* reads from one that writes.  A request names its limit of rows; a batch has what
\* its earlier statements have left of the limits.
Settings ==
  {r \in [driver : Driver, manual : BOOLEAN, readonly : BOOLEAN, batch : BOOLEAN,
          rowsLeft : 0..RowLimit, bytesLeft : {1, ByteLimit}] :
     /\ r.driver # "postgres" => r.manual
     /\ r.driver # "sqlite" => ~r.readonly
     /\ ~r.batch => r.rowsLeft > 0 /\ r.bytesLeft = ByteLimit}

Bytes(chunk) ==
  LET upTo[n \in 0..Len(chunk)] == IF n = 0 THEN 0 ELSE upTo[n - 1] + sizes[chunk[n]]
  IN upTo[Len(chunk)]
DriverLimit == IF setting.rowsLeft = 0 THEN 1 ELSE setting.rowsLeft

StreamInit ==
  /\ setting \in Settings /\ sizes \in Sizes
  /\ cursor = 0 /\ counted = 0 /\ buffer = <<>> /\ outgoing = <<>> /\ channel = <<>>
  /\ reason = "none" /\ refused = FALSE /\ cutShort = FALSE /\ driverCut = FALSE
  /\ step = "top" /\ outcome = "none"
  /\ delivered = <<>> /\ engineCut = FALSE /\ failed = FALSE /\ terminal = "none"

-----------------------------------------------------------------------------
(* The driver.                                                             *)

\* StreamControl::stop keeps the first reason.
Stop(why) == IF reason = "none" THEN why ELSE reason

\* PostgreSQL alone cancels, once, and only outside of an open transaction.
MustCancel == /\ setting.driver = "postgres" /\ ~setting.manual /\ ~cutShort
              /\ reason \in {"CellOrChunkLimit", "ReceiverUnavailable"}

\* The server forgets the rest of the statement, or the cancel itself fails.
CancelOnServer ==
  /\ step = "top" /\ MustCancel
  /\ \/ cutShort' = TRUE /\ step' = "row" /\ UNCHANGED outcome
     \/ outcome' = "database" /\ step' = "ended" /\ UNCHANGED cutShort
  /\ UNCHANGED <<setting, sizes, cursor, counted, buffer, outgoing, refused, driverCut,
                 channel, reason, engineVars>>

AwaitRow ==
  /\ step = "top" /\ ~MustCancel
  /\ step' = "row"
  /\ UNCHANGED <<setting, sizes, cursor, counted, buffer, outgoing, refused, cutShort, outcome,
                 driverCut, channel, reason, engineVars>>

\* While PostgreSQL waits for a row the engine may stop it.
Awaken ==
  /\ step = "row" /\ MustCancel
  /\ step' = "top"
  /\ UNCHANGED <<setting, sizes, cursor, counted, buffer, outgoing, refused, cutShort, outcome,
                 driverCut, channel, reason, engineVars>>

\* Leaving the loop drops what the server still has: MySQL drains it, and
\* SQLite does not step a statement that only reads any further.
LeavesLoop == setting.driver = "mysql" \/ (setting.driver = "sqlite" /\ setting.readonly)

\* Mutant: a statement that changes data is left like one that reads.
AfterStopLeaving == "flush"

AfterStop == IF LeavesLoop THEN "flush" ELSE "top"

NextRow ==
  /\ step = "row" /\ cursor < Len(sizes)
  /\ cursor' = cursor + 1

\* A row past the limit stops the stream; rows of a stopped stream are dropped.
DropRow ==
  /\ NextRow
  /\ counted >= DriverLimit \/ reason # "none"
  /\ driverCut' = (driverCut \/ counted >= DriverLimit)
  /\ reason' = IF counted >= DriverLimit THEN Stop("MaxRows") ELSE reason
  /\ step' = AfterStop
  /\ UNCHANGED <<setting, sizes, counted, buffer, outgoing, refused, cutShort, outcome, channel,
                 engineVars>>

RefuseRow ==
  /\ NextRow /\ counted < DriverLimit /\ reason = "none"
  /\ sizes[cursor'] > DriverBytes
  /\ refused' = TRUE
  /\ reason' = "CellOrChunkLimit"
  /\ step' = AfterStop
  /\ UNCHANGED <<setting, sizes, counted, buffer, outgoing, cutShort, outcome, driverCut, channel,
                 engineVars>>

\* QueryChunkBuffer::push: a buffer that is full goes out before the row goes in.
KeepRow ==
  LET full == /\ buffer # <<>>
              /\ Len(buffer) >= ChunkRows \/ Bytes(buffer) + sizes[cursor'] > DriverBytes IN
  /\ NextRow /\ counted < DriverLimit /\ reason = "none"
  /\ sizes[cursor'] <= DriverBytes
  /\ buffer' = IF full THEN <<cursor'>> ELSE Append(buffer, cursor')
  /\ outgoing' = IF full THEN buffer ELSE <<>>
  /\ step' = IF full THEN "send" ELSE "top"
  /\ counted' = counted + 1
  /\ UNCHANGED <<setting, sizes, refused, cutShort, outcome, driverCut, channel, reason,
                 engineVars>>

SendChunk ==
  /\ step = "send" /\ Len(channel) < Capacity
  /\ channel' = Append(channel, outgoing)
  /\ outgoing' = <<>> /\ step' = "top"
  /\ UNCHANGED <<setting, sizes, cursor, counted, buffer, refused, cutShort, outcome, driverCut,
                 reason, engineVars>>

\* No more rows, or no more after the server has cancelled the statement.
RowsEnd ==
  /\ step = "row" /\ (cursor = Len(sizes) \/ cutShort)
  /\ step' = "flush"
  /\ UNCHANGED <<setting, sizes, cursor, counted, buffer, outgoing, refused, cutShort, outcome,
                 driverCut, channel, reason, engineVars>>

StatementErrs ==
  /\ step = "row" \/ (step = "flush" /\ setting.driver = "mysql")
  /\ outcome' = "database" /\ step' = "ended"
  /\ UNCHANGED <<setting, sizes, cursor, counted, buffer, outgoing, refused, cutShort, driverCut,
                 channel, reason, engineVars>>

\* The last chunk goes out even without rows, for its columns, except that
\* SQLite sends none for a result it has refused.
FlushRows ==
  LET silent == setting.driver = "sqlite" /\ buffer = <<>> /\ refused IN
  /\ step = "flush" /\ (silent \/ Len(channel) < Capacity)
  /\ cursor' = IF setting.driver = "mysql" THEN Len(sizes) ELSE cursor
  /\ channel' = IF silent THEN channel ELSE Append(channel, buffer)
  /\ buffer' = <<>> /\ step' = "ended"
  /\ outcome' = IF refused THEN "result" ELSE "ok"
  /\ UNCHANGED <<setting, sizes, counted, outgoing, refused, cutShort, driverCut, reason,
                 engineVars>>

-----------------------------------------------------------------------------
(* The engine.                                                             *)

Allows(bytes) == Bytes(delivered) + bytes <= setting.bytesLeft

\* bounded_stream_chunks: the pieces of a chunk, each filled while it fits.
Pieces(chunk) ==
  LET cut[n \in 0..Len(chunk)] ==
        IF n = 0 THEN <<>>
        ELSE LET pieces == cut[n - 1] IN
             IF n = 1 \/ Bytes(Last(pieces)) + sizes[chunk[n]] > ChunkBytes
             THEN Append(pieces, <<chunk[n]>>)
             ELSE [pieces EXCEPT ![Len(pieces)] = Append(@, chunk[n])]
  IN cut[Len(chunk)]

Joined(pieces, n) == FlattenSeq(SubSeq(pieces, 1, n))

\* The first piece that is too large for a chunk, or that the limit has no
\* room for; the former discards the whole of the chunk.
TooLarge(piece) == Bytes(piece) > ChunkBytes
NoRoom(pieces, n) == ~Allows(Bytes(Joined(pieces, n)))
FirstBad(pieces) ==
  Min({n \in 1..Len(pieces) : TooLarge(pieces[n]) \/ NoRoom(pieces, n)} \cup {Len(pieces) + 1})

PassPieces(chunk) ==
  LET pieces == Pieces(chunk)
      bad == FirstBad(pieces)
      error == bad <= Len(pieces) /\ TooLarge(pieces[bad])
      over == bad <= Len(pieces) /\ ~error IN
  \* The window may be gone, from any piece on.
  \E n \in 0..(bad - 1) :
    LET unsent == n < bad - 1 IN
    /\ error => n = 0
    /\ delivered' = IF error THEN delivered ELSE delivered \o Joined(pieces, n)
    /\ failed' = (error \/ unsent)
    /\ engineCut' = over
    /\ reason' = IF over THEN Stop("ResultBytes")
                 ELSE IF error THEN Stop("CellOrChunkLimit")
                 ELSE IF unsent THEN Stop("ReceiverUnavailable") ELSE reason

\* collect_interactive_result: row by row.
KeepRows(chunk) ==
  LET fits(n) == /\ Len(delivered) + n <= setting.rowsLeft
                 /\ Allows(Bytes(SubSeq(chunk, 1, n)))
      n == Max({k \in 0..Len(chunk) : fits(k)}) IN
  /\ delivered' = delivered \o SubSeq(chunk, 1, n)
  /\ engineCut' = (n < Len(chunk))
  /\ reason' = IF n = Len(chunk) THEN reason
               ELSE IF Len(delivered) + n < setting.rowsLeft THEN Stop("ResultBytes")
               ELSE Stop("MaxRows")
  /\ UNCHANGED failed

\* Mutant: an engine that has failed stops taking chunks.
TakeChunkUntilFailed ==
  /\ channel # <<>> /\ terminal = "none" /\ ~failed
  /\ channel' = Tail(channel)
  /\ IF engineCut THEN UNCHANGED <<delivered, engineCut, failed, reason>>
     ELSE IF setting.batch THEN KeepRows(Head(channel)) ELSE PassPieces(Head(channel))
  /\ UNCHANGED <<setting, sizes, driverVars, terminal>>

\* Mutant: chunks after one that did not fit are passed on again.
TakeChunkResuming ==
  /\ channel # <<>> /\ terminal = "none"
  /\ channel' = Tail(channel)
  /\ IF failed THEN UNCHANGED <<delivered, engineCut, failed, reason>>
     ELSE IF setting.batch THEN KeepRows(Head(channel)) ELSE PassPieces(Head(channel))
  /\ UNCHANGED <<setting, sizes, driverVars, terminal>>

TakeChunk ==
  /\ channel # <<>> /\ terminal = "none"
  /\ channel' = Tail(channel)
  /\ IF failed \/ engineCut THEN UNCHANGED <<delivered, engineCut, failed, reason>>
     ELSE IF setting.batch THEN KeepRows(Head(channel)) ELSE PassPieces(Head(channel))
  /\ UNCHANGED <<setting, sizes, driverVars, terminal>>

\* The driver's error is reported before the engine's own.
AnswerStream ==
  /\ step = "ended" /\ channel = <<>> /\ terminal = "none"
  /\ terminal' = IF outcome # "ok" THEN outcome ELSE IF failed THEN "result" ELSE "done"
  /\ UNCHANGED <<setting, sizes, driverVars, channel, reason, delivered, engineCut, failed>>

-----------------------------------------------------------------------------
DriverStep ==
  CancelOnServer \/ AwaitRow \/ Awaken \/ DropRow \/ RefuseRow \/ KeepRow \/ SendChunk \/ RowsEnd
  \/ StatementErrs \/ FlushRows

StreamNext == DriverStep \/ TakeChunk \/ AnswerStream

\* The driver and the engine are polled by one task, and rows arrive.
StreamFairness == WF_streamVars(StreamNext)

StreamSpec == StreamInit /\ [][StreamNext]_streamVars /\ StreamFairness

-----------------------------------------------------------------------------
(* Properties.                                                             *)

StreamTypeOK ==
  /\ Len(sizes) <= MaxRows /\ Range(sizes) \subseteq 1..(DriverBytes + 1)
  /\ cursor \in 0..Len(sizes) /\ counted \in 0..cursor
  /\ Range(buffer) \cup Range(outgoing) \cup Range(delivered) \subseteq 1..cursor
  /\ Len(channel) <= Capacity
  /\ reason \in Reason \cup {"none"}
  /\ {refused, cutShort, driverCut, engineCut, failed} \subseteq BOOLEAN
  /\ step \in {"top", "row", "send", "flush", "ended"}
  /\ outcome \in {"none", "ok", "result", "database"}
  /\ terminal \in {"none", "done", "result", "database"}

Truncated == driverCut \/ engineCut

(* A result that is reported as done is the beginning of the statement's    *)
(* rows, in order and within the limits, and it says it was truncated       *)
(* exactly when there were more, wherever the limit was met.                *)
StreamIsTrue ==
  terminal = "done" =>
    /\ delivered = [i \in 1..Len(delivered) |-> i]
    /\ Truncated <=> Len(delivered) < Len(sizes)
    /\ Len(delivered) <= setting.rowsLeft /\ Bytes(delivered) <= setting.bytesLeft

(* An error about the result alone leaves a transaction as it was: the      *)
(* statement that changes data has run to its end on the server, whatever   *)
(* limit its result met.  (PostgreSQL outside of a transaction cancels.)    *)
StatementRunsWhole ==
  /\ terminal \in {"done", "result"}
  /\ ~setting.readonly /\ (setting.driver = "postgres" => setting.manual)
  => cursor = Len(sizes)

(* Every stream is answered: the engine takes what it does not want.       *)
EveryStreamEnds == step # "top" ~> terminal # "none"
=============================================================================
