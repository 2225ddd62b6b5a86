--------------------------- MODULE PlaybackSession ---------------------------
(***************************************************************************)
(* The playback proxy (playback_proxy.cpp): a player asks a local HTTP     *)
(* server for a range of a file that is still being downloaded; the        *)
(* session sends what is there, and waits half a second at a time for what *)
(* is not.                                                                 *)
(*                                                                         *)
(* One session: the sessions share one thread and no state.  The download  *)
(* and dw_get_file_ranges are outside this module: bytes are fetched in    *)
(* any order, what is reported may be behind what is fetched, and it does  *)
(* not notice a user who cuts the file short, removes it or puts another   *)
(* in its place.  A byte stands for a run of bytes; Chunk is kChunkSize.   *)
(***************************************************************************)
EXTENDS Integers, Sequences

CONSTANTS
  Size,        \* the length of the file
  Chunk,       \* how much is sent at once
  MaxRequests, \* how many requests are made; bounds the model
  MaxStops     \* how often a download stops; bounds the model

Bytes == 0 .. Size - 1
Open == -1  \* the end of a range without one

ASSUME PlaybackAssumption ==
  /\ Size \in Nat \ {0} /\ Chunk \in Nat \ {0}
  /\ MaxRequests \in Nat /\ MaxStops \in Nat

VARIABLES
  fetched,   \* the bytes the engine has written, wherever they are now
  reported,  \* the bytes dw_get_file_ranges tells of
  active,    \* is the task downloading?
  written,   \* the bytes that are in the file; the others are not the server's
  length,    \* the length of what lies at the file's path; 0 also without a file
  touched,   \* what the user has done to the file
  proxy,     \* g_running
  player,    \* is the player connected?
  session,   \* the session
  body,      \* what it has sent: <<position, was the byte in the file?>>
  requests, stops  \* count requests and stops

file == <<written, length, touched>>
download == <<fetched, reported, active, stops, file>>
vars == <<download, proxy, player, session, body, requests>>

-----------------------------------------------------------------------------
\* What a session does next: send a header or a body, look for data, wait for
\* its timer; or it is over, in one of the ways.  "short" is a history variable:
\* a read returned less than it was asked for.
Steps == {"none", "stream", "header", "body", "wait", "done", "refused", "dropped"}
Over == {"none", "done", "refused", "dropped"}

NoSession == [step |-> "none", first |-> 0, last |-> 0, pos |-> 0,
              announced |-> FALSE, short |-> FALSE, data |-> <<>>]

Init ==
  /\ fetched \in SUBSET Bytes /\ reported = fetched /\ written = fetched
  /\ length \in 0 .. Size /\ written \subseteq 0 .. length - 1
  /\ active = TRUE /\ touched = "no"
  /\ proxy = FALSE /\ player = FALSE
  /\ session = NoSession /\ body = <<>>
  /\ requests = 0 /\ stops = 0

-----------------------------------------------------------------------------
(* The download.                                                           *)

DownloadFrame == UNCHANGED <<proxy, player, session, body, requests>>

\* A download that has its file open goes on writing to it when it is gone from
\* its path; one that is resumed opens what lies there.
Write ==
  /\ active
  /\ \E b \in Bytes \ fetched :
       /\ fetched' = fetched \cup {b}
       /\ \/ written' = written \cup {b} /\ length' = IF b < length THEN length ELSE b + 1
          \/ touched = "gone" /\ UNCHANGED <<written, length>>
  /\ UNCHANGED <<reported, active, stops, touched>> /\ DownloadFrame

\* The ranges are saved from time to time.
Report ==
  /\ reported # fetched /\ reported' = fetched
  /\ UNCHANGED <<fetched, active, stops, file>> /\ DownloadFrame

\* A pause or an error; a resume.
StopOrGoOn ==
  /\ active' = ~active
  /\ IF active THEN stops < MaxStops /\ stops' = stops + 1 ELSE UNCHANGED stops
  /\ UNCHANGED <<fetched, reported, file>> /\ DownloadFrame

\* The user cuts the end off the file, or removes it, or puts another there.
UserCuts ==
  /\ length' \in 0 .. length - 1
  /\ written' = written \cap (0 .. length' - 1)
  /\ touched' = IF touched = "gone" THEN "gone" ELSE "cut"
  /\ UNCHANGED <<fetched, reported, active, stops>> /\ DownloadFrame
UserReplaces ==
  /\ touched # "gone" /\ touched' = "gone"
  /\ written' = {} /\ length' \in 0 .. Size
  /\ UNCHANGED <<fetched, reported, active, stops>> /\ DownloadFrame

\* What dw_get_file_ranges returns: data, none yet, or none to come.
Code == IF reported # {} THEN 0 ELSE IF active THEN 1 ELSE 2

-----------------------------------------------------------------------------
(* The proxy and its player.                                               *)

SessionFrame == UNCHANGED <<download, proxy, player, requests>>

ProxyStart ==
  /\ ~proxy /\ proxy' = TRUE
  /\ UNCHANGED <<download, player, session, body, requests>>

ProxyStopAcceptor ==  \* mutant: only the acceptor is closed
  /\ proxy /\ proxy' = FALSE
  /\ UNCHANGED <<download, player, session, body, requests>>

\* The io_context stops and its session goes with it, whatever it waits for.
ProxyStop ==
  /\ proxy /\ proxy' = FALSE
  /\ session' = IF session.step \in Over THEN session
                ELSE [session EXCEPT !.step = "dropped"]
  /\ player' = FALSE
  /\ UNCHANGED <<download, body, requests>>

PlayerLeaves ==
  /\ player /\ player' = FALSE
  /\ UNCHANGED <<download, proxy, session, body, requests>>

\* handle_request.  The task or its file may be unknown; the end of an open
\* range is the file's, from the task (known) or from what lies at its path, where
\* nothing leaves it open.
EndOf(last, known) ==
  IF last # Open THEN last ELSE (IF known THEN Size ELSE length) - 1
Request(first, last, known) ==
    LET end == EndOf(last, known)
        New(step) == [NoSession EXCEPT !.step = step, !.first = first, !.last = end,
                        !.pos = first]
    IN /\ proxy /\ session.step \in Over
       /\ requests < MaxRequests /\ requests' = requests + 1
       /\ body' = <<>>
       /\ \/ session' = New("refused") /\ player' = FALSE
          \/ /\ end >= first
             /\ session' = New("stream") /\ player' = TRUE
       /\ UNCHANGED <<download, proxy>>

-----------------------------------------------------------------------------
(* The session.                                                            *)

Does(step) == proxy /\ session.step = step

\* Only with code 0 there are ranges; do_stream treats the others alike.
Segments == IF Code = 0 THEN reported ELSE {}

\* do_stream looks for a range that has the position.  A range ends where the
\* engine says: two that touch may be one or two.
FoundInside(end) ==  \* mutant: the last byte of a range is not in it
  /\ session.pos < end /\ session.pos .. end \subseteq Segments
Found(end) ==
  /\ session.pos <= end /\ session.pos .. end \subseteq Segments

\* The data that is sent: to the end of the range that was found, of the range
\* that was asked for, or of a chunk.
UptoUnbound(end) ==  \* mutant: only a chunk limits it, and what was asked for
  CHOOSE n \in {session.last, session.pos + Chunk - 1} :
    n <= session.last /\ n <= session.pos + Chunk - 1
Upto(end) ==
  CHOOSE n \in {end, session.last, session.pos + Chunk - 1} :
    n <= end /\ n <= session.last /\ n <= session.pos + Chunk - 1

\* What is read, and whether it was in the file: no further than the file goes.
ReadUpto(n) ==
  LET end == IF n < length THEN n ELSE length - 1
  IN [i \in 1 .. end - session.pos + 1 |->
        <<session.pos + i - 1, session.pos + i - 1 \in written>>]

\* A position that no range has waits, whatever the code.  A read that returns
\* nothing ends the session.  One that returns less than it was asked for is
\* sent, and the next one starts where it should have ended.
Stream ==
  /\ Does("stream")
  /\ \/ /\ ~ \E end \in Bytes : Found(end)
        /\ session' = [session EXCEPT !.step = "wait"]
     \/ /\ \E end \in Bytes : Found(end) /\ ReadUpto(Upto(end)) = <<>>
        /\ session' = [session EXCEPT !.step = IF session.announced THEN "dropped" ELSE "refused"]
     \/ \E end \in Bytes :
          /\ Found(end) /\ ReadUpto(Upto(end)) # <<>>
          /\ session' = [session EXCEPT
                           !.step = IF session.announced THEN "body" ELSE "header",
                           !.announced = TRUE,
                           !.pos = Upto(end) + 1,
                           !.short = @ \/ Upto(end) >= length,
                           !.data = ReadUpto(Upto(end))]
  /\ UNCHANGED body /\ SessionFrame

\* The callbacks of the writes: a player that has gone ends the session.
HeaderWritten ==
  /\ Does("header")
  /\ session' = [session EXCEPT !.step = IF player THEN "body" ELSE "dropped"]
  /\ UNCHANGED body /\ SessionFrame

Finished == session.pos > session.last
BodyWritten ==
  /\ Does("body")
  /\ IF player
     THEN /\ body' = body \o session.data
          /\ session' = [session EXCEPT !.data = <<>>,
                           !.step = IF Finished THEN "done" ELSE "stream"]
     ELSE /\ session' = [session EXCEPT !.step = "dropped"] /\ UNCHANGED body
  /\ SessionFrame

\* The timer's callback asks whether its own end of the socket is open, which
\* it is.
TimerFires ==
  /\ Does("wait")
  /\ session' = [session EXCEPT !.step = "stream"]
  /\ UNCHANGED body /\ SessionFrame

-----------------------------------------------------------------------------
SessionStep == Stream \/ HeaderWritten \/ BodyWritten \/ TimerFires
Next ==
  \/ Write \/ Report \/ StopOrGoOn \/ UserCuts \/ UserReplaces
  \/ ProxyStart \/ ProxyStop \/ PlayerLeaves
  \/ \E first \in 0 .. Size, last \in {Open} \cup 0 .. Size, known \in BOOLEAN :
       Request(first, last, known)
  \/ SessionStep
Spec == Init /\ [][Next]_vars

\* The io_context runs.
FairSpec == Spec /\ WF_vars(SessionStep)

-----------------------------------------------------------------------------
(* Properties.                                                             *)

\* A session that is not over runs in a proxy that does, and has a range.
TypeOK ==
  /\ fetched \subseteq Bytes /\ reported \subseteq fetched /\ written \subseteq fetched
  /\ length \in 0 .. Size /\ written \subseteq 0 .. length - 1
  /\ touched \in {"no", "cut", "gone"} /\ active \in BOOLEAN /\ proxy \in BOOLEAN
  /\ player \in BOOLEAN /\ player => proxy
  /\ session.step \in Steps /\ session.first \in 0 .. Size
  /\ session.last \in {Open} \cup 0 .. Size /\ session.announced \in BOOLEAN
  /\ session.step \notin Over =>
       proxy /\ session.first <= session.pos /\ session.pos <= session.last + 1
  /\ requests \in 0 .. MaxRequests /\ stops \in 0 .. MaxStops

\* What the player gets, over all the waits and chunks (pending_next_pos_, the
\* ranges that end early), comes from the range it asked for, in order and no
\* byte twice.  Unless a read was short, none is skipped either, and a session
\* that ends by itself has sent what Content-Length announced; and as long as the
\* user leaves the file alone no read is short, and no byte is sent before it was
\* written.
BodyIsFile ==
  /\ \A i \in DOMAIN body :
       /\ body[i][1] \in session.first .. session.last
       /\ \A j \in DOMAIN body : i < j => body[i][1] < body[j][1]
  /\ ~session.short =>
       /\ \A i \in DOMAIN body : body[i][1] = session.first + i - 1
       /\ session.step = "done" => Len(body) = session.last - session.first + 1
  /\ touched = "no" => ~session.short /\ \A i \in DOMAIN body : body[i][2]

\* A session that waits goes on to its end once all it waits for is reported,
\* however the reported ranges are cut.
WaitsEnd ==
  (session.step = "wait" /\ session.pos .. session.last \subseteq reported)
    ~> session.step \in Over

=============================================================================
