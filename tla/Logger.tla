------------------------------- MODULE Logger -------------------------------
(***************************************************************************)
(* include/logger.h: log() may be called on any thread and posts the entry *)
(* to a strand of the io_context; the handler puts it into a ring buffer,  *)
(* which is written to the file when it is full and when stop() flushes.   *)
(*                                                                         *)
(* Entries are the numbers of their log() calls.  What they say, and into  *)
(* which of the files the rotation puts them, is left out.                 *)
(***************************************************************************)
EXTENDS Naturals, Sequences

CONSTANT LogBufferSize \* LOG_BUFFER_SIZE

ASSUME LoggerAssumption == LogBufferSize \in Nat \ {0}

\* posted: the handlers on loggerStrand_.  buffer: logBuffer_.  written: what is
\* in the files.  isOpen: CURRENT_LOG_FILE_ could be opened.
LoggerState ==
    [posted : Seq(Nat), buffer : Seq(Nat), written : Seq(Nat), isOpen : BOOLEAN]

NewLogger(isOpen) ==
    [posted |-> << >>, buffer |-> << >>, written |-> << >>, isOpen |-> isOpen]

\* push(), on any thread.
PostLog(logger, entry) == [logger EXCEPT !.posted = Append(@, entry)]

\* unsafeFlush(): nothing happens while no file is open.
Flush(logger) ==
    IF logger.isOpen
    THEN [logger EXCEPT !.written = @ \o logger.buffer, !.buffer = << >>]
    ELSE logger

\* logBuffer_.push(), which drops an entry when the ring is full.
IntoBuffer(logger, entry) ==
    IF Len(logger.buffer) < LogBufferSize
    THEN [logger EXCEPT !.buffer = Append(@, entry)]
    ELSE logger

\* unsafePushLog(): a full ring is written first.  The faulty NoRoom gives the
\* entry up.
NoRoom(logger) == logger
MakeRoom(logger) == IF Len(logger.buffer) < LogBufferSize THEN logger ELSE Flush(logger)

\* The handler at the front of the strand.
RunPosted(logger) ==
    LET rest == [logger EXCEPT !.posted = Tail(@)]
    IN  IntoBuffer(MakeRoom(rest), Head(logger.posted))
=============================================================================
