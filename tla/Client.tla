------------------------------- MODULE Client -------------------------------
(***************************************************************************)
(* One connection of alphahttpd: the chain of filters that client.c drives *)
(* (http/*.h in the order of http/filters.c), from its start to            *)
(* cl_destroy, over several requests of a keep-alive or pipelining peer.   *)
(*                                                                         *)
(* Every callback of a filter is one action: its `open`, or its `process`  *)
(* (up to the kernel call it waits for, when it makes several).  The chain *)
(* moves forward on FWD and DONE, back on BACK, and stops on ASYNC until   *)
(* the socket, the kernel call or a timer resumes it; the resumption and   *)
(* the callback it leads to are one step.                                  *)
(*                                                                         *)
(* Data is counted and not written out: a request is a record, body data   *)
(* is a number of units, and a response is its status line, its length,    *)
(* its Connection header and the units of body sent after them.  c->output *)
(* is not kept: the driver moves it to the next filter's c->input.         *)
(***************************************************************************)
EXTENDS Integers, Sequences, FiniteSets

CONSTANTS
    Requests,               \* bound: the requests the peer may make (see Request)
    MaxRequests,            \* bound: requests sent on the connection
    MaxSize,                \* bound: file sizes, in units of file_buf_size
    MaxKeepAlive,           \* max_keep_alive_reqs
    KeepAliveMod,           \* keep_alive_n is ffushort: counts modulo this (2^16)
    Kcq,                    \* kcq_set: file calls go to the kcall threads
    Docs,                   \* virtual documents: <<method, target>>; {}: no virtspace filter
    MayHappen               \* bound: "oom", "io" (a file call fails), "resize"

Methods == {"GET", "HEAD", "POST"}
\* What the path names: a file; nothing; a directory, without the final slash; with it,
\* and with an index file, or without, or not there; a path too long for file.buf.
Targets == {"file", "missing", "dir", "index", "listing", "nodir", "toolong"}
Slashed == {"index", "listing", "nodir"}

\* ka: HTTP/1.1 or "Connection: keep-alive", and not "close"; ims: If-Modified-Since names
\* the file's time; bad: it does not parse, or has no Host.
Request == [method : Methods, target : Targets, ka : BOOLEAN, ims : BOOLEAN, bad : BOOLEAN]

ASSUME ClientAssumption ==
    /\ Requests \subseteq Request
    /\ MaxRequests \in Nat /\ MaxSize \in Nat
    /\ MaxKeepAlive \in Nat /\ KeepAliveMod \in Nat \ {0}
    /\ Kcq \in BOOLEAN
    /\ Docs \subseteq Methods \X Targets
    /\ MayHappen \subseteq {"oom", "io", "resize"}

VARIABLES
    state,                  \* "run", what the chain waits for, "ended", or "assert"
    i, back,                \* filter the chain is at; chain_back
    opened, done,           \* mdata[].opened, mdata[].done
    input,                  \* units of body in c->input
    buf, part,              \* req.buf: whole requests in it; a part of one after them
    unprocessed,            \* req_unprocessed_data
    req,                    \* the parsed request; its target follows unescaped_path
    resp,                   \* c->resp and the flags about the response
    file,                   \* file.state, units of the file not read yet
    contLen,                \* transfer.cont_len
    iov,                    \* send.iov: header pending, units of body pending
    keepAliveN,             \* keep_alive_n
    held,                   \* memory, descriptors and timers the connection holds
    leaked,                 \* history: what was forgotten without being released
    sent, taken, wire,      \* history: requests received, parsed; responses sent
    logged,                 \* history: access-log lines written
    faulted, blocked        \* history: an allocation or file call failed; the chain
                            \* made a file-system call on the loop's own thread

chainVars == <<state, i, back, opened, done, input>>
reqVars == <<buf, part, unprocessed, req, sent, taken>>
respVars == <<resp, file, contLen, iov>>
memVars == <<held, leaked>>
pastVars == <<keepAliveN, wire, logged>>
faultVars == <<faulted, blocked>>
vars == <<chainVars, reqVars, respVars, memVars, pastVars, faultVars>>

\* http/filters.c; a program that uses the library may put virtspace before its files.
Filters ==
    IF Docs = {}
    THEN <<"receive", "request", "index", "autoindex", "file", "error", "transfer",
           "response", "send", "accesslog">>
    ELSE <<"receive", "request", "virtspace", "index", "autoindex", "file", "error",
           "transfer", "response", "send", "accesslog">>
FilterSet == {Filters[n] : n \in DOMAIN Filters}

NoLen == -1                 \* resp.content_length is not set
NoReq == [method |-> "GET", target |-> "file", ka |-> FALSE, ims |-> FALSE, bad |-> TRUE]
NoResp == [code |-> 0, len |-> NoLen, err |-> FALSE, done |-> FALSE, head |-> FALSE,
           ka |-> FALSE, resized |-> FALSE]
NoFile == [state |-> 0, left |-> 0]
NoIov == [hdr |-> FALSE, body |-> 0]

\* cl_start and cl_init.
Init ==
    /\ state = "run" /\ i = 1 /\ back = FALSE /\ opened = {} /\ done = {} /\ input = 0
    /\ buf = <<>> /\ part = FALSE /\ unprocessed = FALSE /\ req = NoReq
    /\ resp = NoResp /\ file = NoFile /\ contLen = 0 /\ iov = NoIov
    /\ keepAliveN = 0 /\ held = {} /\ leaked = {}
    /\ sent = <<>> /\ taken = <<>> /\ wire = <<>> /\ logged = 0
    /\ faulted = FALSE /\ blocked = FALSE

-----------------------------------------------------------------------------
(* client.c: the chain. *)

\* Mutant: file_close frees the buffer and forgets the descriptor.
OwnedNoFile(f) ==
    CASE f = "receive"   -> {"recv.timer"}
      [] f = "request"   -> {"req.buf", "req.path"}
      [] f = "index"     -> {"index.buf"}
      [] f = "autoindex" -> {"autoindex.buf"}
      [] f = "file"      -> {"file.buf"}
      [] f = "response"  -> {"resp.buf", "resp.last_modified"}
      [] f = "send"      -> {"send.timer"}
      [] f = "accesslog" -> {"acclog_buf"}
      [] OTHER           -> {}

\* What a filter's close function releases.
Owned(f) ==
    CASE f = "receive"   -> {"recv.timer"}
      [] f = "request"   -> {"req.buf", "req.path"}
      [] f = "index"     -> {"index.buf"}
      [] f = "autoindex" -> {"autoindex.buf"}
      [] f = "file"      -> {"file.buf", "file.f"}
      [] f = "response"  -> {"resp.buf", "resp.last_modified"}
      [] f = "send"      -> {"send.timer"}
      [] f = "accesslog" -> {"acclog_buf"}
      [] OTHER           -> {}

\* cl_mods_close
Released == UNION {Owned(f) : f \in opened}

\* cl_destroy of a client that holds `h`: the filters that were opened are closed, then
\* the client is freed.
DestroyHolding(h) ==
    /\ state' = "ended"
    /\ held' = {}
    /\ leaked' = leaked \cup (h \ Released)
    /\ UNCHANGED <<i, back, opened, done, input>>

Destroy == DestroyHolding(held)

\* What cl_reset does besides erasing the answered request and zeroing resp.
ResetRest ==
    /\ state' = "run" /\ i' = 1 /\ back' = FALSE /\ opened' = {} /\ done' = {} /\ input' = 0
    /\ req' = NoReq /\ file' = NoFile /\ contLen' = 0 /\ iov' = NoIov
    /\ held' = held \cap {"req.buf"}
    /\ leaked' = leaked \cup (held \ (Released \cup {"req.buf"}))
    /\ UNCHANGED <<part, sent, taken>>

\* Mutant: the bytes of the answered request stay in req.buf.
ResetKeepsRequest ==
    /\ unprocessed' = (buf # <<>> \/ part)
    /\ resp' = NoResp
    /\ UNCHANGED buf
    /\ ResetRest

\* Mutant: the response of the last request is not zeroed.
ResetKeepsResponse ==
    /\ buf' = Tail(buf)
    /\ unprocessed' = (Tail(buf) # <<>> \/ part)
    /\ UNCHANGED resp
    /\ ResetRest

\* cl_reset: the answered request is erased from req.buf, which is kept (ahreq_close),
\* everything about it is zeroed, and the chain starts again with what is left there.
Reset ==
    /\ buf' = Tail(buf)
    /\ unprocessed' = (Tail(buf) # <<>> \/ part)
    /\ resp' = NoResp
    /\ ResetRest

\* Mutant: resp_connection_keepalive is not looked at.
KeepAliveAlways ==
    /\ keepAliveN' = (keepAliveN + 1) % KeepAliveMod
    /\ IF keepAliveN' = MaxKeepAlive
       THEN Destroy /\ UNCHANGED <<reqVars, respVars>>
       ELSE Reset

\* cl_keepalive, at the end of the chain.
KeepAlive ==
    /\ keepAliveN' = IF resp.ka THEN (keepAliveN + 1) % KeepAliveMod ELSE keepAliveN
    /\ IF ~resp.ka \/ keepAliveN' = MaxKeepAlive
       THEN Destroy /\ UNCHANGED <<reqVars, respVars>>
       ELSE Reset

\* A filter returned FWD (or DONE, when `d` adds it to `done`) with `n` units of output.
Forward(d, n) ==
    /\ state' = "run" /\ i' = i + 1 /\ back' = FALSE
    /\ done' = done \cup d
    /\ input' = n
    /\ UNCHANGED opened

\* A filter returned BACK; the driver asserts that it is not the first one.
Backward ==
    /\ IF i = 1 THEN state' = "assert" /\ i' = i ELSE state' = "run" /\ i' = i - 1
    /\ back' = TRUE
    /\ input' = 0
    /\ UNCHANGED <<opened, done>>

\* A filter returned ASYNC; `w` is what will resume the chain.
Suspend(w) == state' = w /\ UNCHANGED <<i, back, opened, done, input>>

\* cl_filter_call is about to call the open function of f, or its process function; the
\* latter also when the chain stopped there to wait for `w`.
Opening(f) == state = "run" /\ Filters[i] = f /\ f \notin opened \cup done
Processing(f, w) == state \in {"run", w} /\ Filters[i] = f /\ f \in opened /\ f \notin done

\* The open function returned FWD; or it returned SKIP or ERR, which is the same.
OpenOk(f) == opened' = opened \cup {f} /\ UNCHANGED <<state, i, back, done, input>>
OpenSkip(f) == done' = done \cup {f} /\ UNCHANGED <<state, i, back, opened, input>>

NoFault == UNCHANGED faultVars
OutOfMemory == "oom" \in MayHappen /\ faulted' = TRUE /\ UNCHANGED blocked
FileCallFails == "io" \in MayHappen /\ faulted' = TRUE /\ UNCHANGED blocked

\* A file call that goes to the kcall threads, when there are any, has its result.
CallReturns(f) == Processing(f, "kcall") /\ (state = "kcall" \/ ~Kcq)

\* cl_resp_status
Status(r, code) == [r EXCEPT !.code = code, !.err = TRUE, !.ka = @ /\ code # 400]

\* cl_filter_call passes over a filter that is done, in the direction of the chain.
PassDone ==
    /\ state = "run" /\ Filters[i] \in done
    /\ IF back THEN Backward ELSE i < Len(Filters) /\ Forward({}, input)
    /\ UNCHANGED <<reqVars, respVars, memVars, pastVars>> /\ NoFault

\* The last filter is done without having run: the end of the chain.
PassEnd ==
    /\ state = "run" /\ i = Len(Filters) /\ Filters[i] \in done /\ ~back
    /\ KeepAlive
    /\ UNCHANGED <<wire, logged>> /\ NoFault

\* The open functions that do nothing.
OpenPlain ==
    /\ \E f \in {"receive", "request", "send"} : Opening(f) /\ OpenOk(f)
    /\ UNCHANGED <<reqVars, respVars, memVars, pastVars>> /\ NoFault

-----------------------------------------------------------------------------
(* receive.h and request.h *)

Receiving == Processing("receive", "recv") /\ ~resp.done /\ ~unprocessed

\* Nothing to receive for: a response is ready, or pipelined data is.
ReceivePass ==
    /\ Processing("receive", "run") /\ (resp.done \/ unprocessed)
    /\ Forward(IF resp.done THEN {"receive"} ELSE {}, 0)
    /\ UNCHANGED <<reqVars, respVars, memVars, pastVars>> /\ NoFault

\* The socket is empty: its timer is started.
ReceiveWait ==
    /\ Receiving /\ state = "run"
    /\ Suspend("recv")
    /\ held' = held \cup {"req.buf", "recv.timer"}
    /\ UNCHANGED <<reqVars, respVars, leaked, pastVars>> /\ NoFault

\* Mutant: the timer is not stopped when data has come.
ReceiveDataTimerOn ==
    /\ Receiving
    /\ \E n \in 0 .. 2 : \E rs \in [1 .. n -> Requests] :
         /\ Len(sent) + n <= MaxRequests
         /\ buf' = buf \o rs
         /\ sent' = sent \o rs
         /\ part' \in BOOLEAN /\ (n = 0 => part' /\ ~part)
    /\ Forward({}, 0)
    /\ held' = held \cup {"req.buf"}
    /\ UNCHANGED <<unprocessed, req, taken, respVars, leaked, pastVars>> /\ NoFault

\* Data has come: the rest of a request or a part of one, whole requests, or both.
ReceiveData ==
    /\ Receiving
    /\ \E n \in 0 .. 2 : \E rs \in [1 .. n -> Requests] :
         /\ Len(sent) + n <= MaxRequests
         /\ buf' = buf \o rs
         /\ sent' = sent \o rs
         /\ part' \in BOOLEAN /\ (n = 0 => part' /\ ~part)
    /\ Forward({}, 0)
    /\ held' = (held \cup {"req.buf"}) \ {"recv.timer"}
    /\ UNCHANGED <<unprocessed, req, taken, respVars, leaked, pastVars>> /\ NoFault

\* The peer closed the connection, or the socket failed.
ReceiveEnd ==
    /\ Receiving
    /\ DestroyHolding(held \cup {"req.buf"})
    /\ UNCHANGED <<reqVars, respVars, pastVars>> /\ NoFault

\* There is no memory for req.buf.
ReceiveNoMemory ==
    /\ Receiving /\ "req.buf" \notin held /\ OutOfMemory
    /\ Destroy
    /\ UNCHANGED <<reqVars, respVars, pastVars>>

\* ahreq_read without a whole request: receive more, unless the buffer is full.
RequestIncomplete ==
    /\ Processing("request", "run") /\ buf = <<>>
    /\ unprocessed' = FALSE
    /\ \/ Destroy
       \/ Backward /\ UNCHANGED memVars
    /\ UNCHANGED <<buf, part, req, sent, taken, respVars, pastVars>> /\ NoFault

\* ahreq_parse of the first request in the buffer.  It is refused before its path is
\* unescaped, or because that or normalizing fails: then there is memory for it already,
\* or none, and the answer is another.
RequestParsed ==
    /\ Processing("request", "run") /\ buf # <<>>
    /\ unprocessed' = FALSE
    /\ req' = Head(buf)
    /\ taken' = Append(taken, Head(buf))
    /\ \/ /\ req'.bad
          /\ resp' = Status(resp, 400)
          /\ held' \in {held, held \cup {"req.path"}} /\ NoFault
       \/ /\ ~req'.bad
          /\ resp' = [resp EXCEPT !.ka = req'.ka]
          /\ held' = held \cup {"req.path"} /\ NoFault
       \/ /\ OutOfMemory
          /\ resp' = Status([resp EXCEPT !.ka = req'.ka], 500)
          /\ UNCHANGED held
    /\ Forward({"request"}, 0)
    /\ UNCHANGED <<buf, part, sent, file, contLen, iov, leaked, pastVars>>

-----------------------------------------------------------------------------
(* virtspace.h *)

\* A request that is refused has no path yet, or one that no document has (the raw path
\* is compared, and one that cannot be unescaped is taken to be no document's).
VirtspaceOpen ==
    /\ Opening("virtspace")
    /\ IF <<req.method, req.target>> \in Docs /\ ~req.bad
       THEN OpenOk("virtspace") ELSE OpenSkip("virtspace")
    /\ UNCHANGED <<reqVars, respVars, memVars, pastVars>> /\ NoFault

\* The document's handler sets status, length, body and resp_done, as it must; or it sets
\* no length, and the answer is 200 and empty.
VirtspaceProcess ==
    /\ Processing("virtspace", "run")
    /\ \E n \in {0, 1} :
         /\ resp' = [resp EXCEPT !.code = 200, !.len = n, !.done = TRUE]
         /\ Forward({"virtspace"}, n)
    /\ UNCHANGED <<reqVars, file, contLen, iov, memVars, pastVars>> /\ NoFault

-----------------------------------------------------------------------------
(* index.h, autoindex.h: both call the file system on the loop's own thread. *)

IndexOpen ==
    /\ Opening("index")
    /\ IF resp.err \/ resp.code # 0 \/ req.target \notin Slashed
       THEN OpenSkip("index") ELSE OpenOk("index")
    /\ UNCHANGED <<reqVars, respVars, memVars, pastVars>> /\ NoFault

\* The index file is there: the path becomes the file's.
IndexFound ==
    /\ Processing("index", "run") /\ req.target = "index"
    /\ req' = [req EXCEPT !.target = "file"]
    /\ blocked' = TRUE
    /\ Forward({"index"}, 0)
    /\ UNCHANGED <<buf, part, unprocessed, sent, taken, respVars, memVars, pastVars, faulted>>

\* It is not there, or cannot be opened, which makes no difference.
IndexNotFound ==
    /\ Processing("index", "run")
    /\ IF req.target = "index" THEN "io" \in MayHappen /\ faulted' = TRUE ELSE UNCHANGED faulted
    /\ held' = held \cup {"index.buf"}
    /\ blocked' = TRUE
    /\ Forward({"index"}, 0)
    /\ UNCHANGED <<reqVars, respVars, leaked, pastVars>>

IndexNoMemory ==
    /\ Processing("index", "run") /\ OutOfMemory
    /\ resp' = Status(resp, 500)
    /\ Forward({"index"}, 0)
    /\ UNCHANGED <<reqVars, file, contLen, iov, memVars, pastVars>>

\* Neither the status set by an earlier filter nor the method is looked at.
AutoindexOpen ==
    /\ Opening("autoindex")
    /\ IF resp.err \/ req.target \notin Slashed THEN OpenSkip("autoindex") ELSE OpenOk("autoindex")
    /\ UNCHANGED <<reqVars, respVars, memVars, pastVars>> /\ NoFault

AutoindexListed ==
    /\ Processing("autoindex", "run") /\ req.target # "nodir"
    /\ resp' = [resp EXCEPT !.code = 200, !.len = 1, !.done = TRUE]
    /\ held' = held \cup {"autoindex.buf"}
    /\ blocked' = TRUE
    /\ Forward({"autoindex"}, 1)
    /\ UNCHANGED <<reqVars, file, contLen, iov, leaked, pastVars, faulted>>

AutoindexFailed ==
    /\ Processing("autoindex", "run")
    /\ \/ /\ req.target = "nodir" /\ resp' = Status(resp, 404)
          /\ held' = held \cup {"autoindex.buf"}
          /\ blocked' = TRUE /\ UNCHANGED faulted
       \/ /\ FileCallFails /\ resp' = Status(resp, 403)
          /\ held' = held \cup {"autoindex.buf"}
       \/ /\ OutOfMemory /\ resp' = Status(resp, 500)
          /\ UNCHANGED held
    /\ Forward({"autoindex"}, 0)
    /\ UNCHANGED <<reqVars, file, contLen, iov, leaked, pastVars>>

-----------------------------------------------------------------------------
(* file.h and error.h *)

\* A path that does not fit into file.buf is ERR, which the driver takes for SKIP: no
\* status is set.
FileOpen ==
    /\ Opening("file")
    /\ LET r == [resp EXCEPT !.head = req.method = "HEAD"]
           skipped == resp.err \/ resp.code # 0
       IN  \/ /\ skipped
              /\ OpenSkip("file") /\ UNCHANGED <<resp, held>> /\ NoFault
           \/ /\ ~skipped /\ req.method = "POST"
              /\ OpenSkip("file") /\ resp' = Status(resp, 405) /\ UNCHANGED held /\ NoFault
           \/ /\ ~skipped /\ req.method # "POST" /\ req.target = "toolong"
              /\ OpenSkip("file") /\ resp' = r /\ UNCHANGED held /\ NoFault
           \/ /\ ~skipped /\ req.method # "POST" /\ req.target # "toolong"
              /\ OpenOk("file") /\ resp' = r /\ held' = held \cup {"file.buf"} /\ NoFault
           \/ /\ ~skipped /\ req.method # "POST" /\ req.target # "toolong" /\ OutOfMemory
              /\ OpenSkip("file") /\ resp' = Status(r, 500) /\ UNCHANGED held
    /\ UNCHANGED <<reqVars, file, contLen, iov, leaked, pastVars>>

\* fffile_open, fffile_info or fffile_read is queued for a kcall thread.
FileCall ==
    /\ Kcq /\ Processing("file", "run")
    /\ Suspend("kcall")
    /\ UNCHANGED <<reqVars, respVars, memVars, pastVars>> /\ NoFault

\* file_process falls through to its next call.
NextCall ==
    state' = (IF Kcq THEN "kcall" ELSE "run") /\ UNCHANGED <<i, back, opened, done, input>>

FileDone(r) == resp' = r /\ Forward({"file"}, 0) /\ UNCHANGED file

FileOpened ==
    /\ CallReturns("file") /\ file.state = 0
    /\ \/ /\ req.target # "missing"
          /\ file' = [file EXCEPT !.state = 1] /\ held' = held \cup {"file.f"}
          /\ NextCall /\ UNCHANGED resp /\ NoFault
       \/ /\ req.target = "missing"
          /\ FileDone(Status(resp, 404)) /\ UNCHANGED held /\ NoFault
       \/ /\ FileCallFails
          /\ FileDone(Status(resp, 500)) /\ UNCHANGED held
    /\ UNCHANGED <<reqVars, contLen, iov, leaked, pastVars>>

\* handle_redirect: a directory whose path lacks the final slash.
Redirected ==
    /\ req.target = "dir"
    /\ FileDone(Status(resp, 301)) /\ UNCHANGED held

\* mtime: last_modified is allocated, and compared with If-Modified-Since.
NotModified ==
    /\ req.target # "dir" /\ req.ims
    /\ held' = held \cup {"resp.last_modified"}
    /\ FileDone(Status(resp, 304))

\* f_info: the size found now is the Content-Length.
FileInfo ==
    /\ CallReturns("file") /\ file.state = 1
    /\ \/ (Redirected \/ NotModified) /\ NoFault
       \/ FileCallFails /\ FileDone(Status(resp, 403)) /\ UNCHANGED held
       \/ /\ req.target # "dir" /\ OutOfMemory
          /\ FileDone(Status(resp, 500)) /\ UNCHANGED held
       \/ /\ req.target # "dir" /\ ~req.ims
          /\ \E n \in 0 .. MaxSize :
               IF resp.head
               THEN FileDone([resp EXCEPT !.code = 200, !.len = n, !.done = TRUE])
               ELSE /\ resp' = [resp EXCEPT !.code = 200, !.len = n]
                    /\ NextCall /\ file' = [state |-> 2, left |-> n]
          /\ held' = held \cup {"resp.last_modified"} /\ NoFault
    /\ UNCHANGED <<reqVars, contLen, iov, leaked, pastVars>>

FileRead ==
    /\ CallReturns("file") /\ file.state = 2
    /\ IF file.left = 0 THEN FileDone([resp EXCEPT !.done = TRUE])
       ELSE Forward({}, 1) /\ file' = [file EXCEPT !.left = @ - 1] /\ UNCHANGED resp
    /\ UNCHANGED <<reqVars, contLen, iov, memVars, pastVars>> /\ NoFault

\* A read fails with the response perhaps half sent, or a log write fails.
CallFails ==
    /\ (CallReturns("file") /\ file.state = 2) \/ CallReturns("accesslog")
    /\ FileCallFails
    /\ Destroy
    /\ UNCHANGED <<reqVars, respVars, pastVars>>

\* Somebody writes to the file, or truncates it, after its size was taken.
FileResized ==
    /\ "resize" \in MayHappen /\ ~resp.resized
    /\ state # "ended" /\ file.state = 2 /\ "file" \notin done
    /\ \E n \in {file.left - 1, file.left + 1} \cap Nat : file' = [file EXCEPT !.left = n]
    /\ resp' = [resp EXCEPT !.resized = TRUE]
    /\ UNCHANGED <<chainVars, reqVars, contLen, iov, memVars, pastVars>> /\ NoFault

\* The error document, for every status that cl_resp_status has set.
ErrorOpen ==
    /\ Opening("error")
    /\ IF resp.err THEN OpenOk("error") ELSE OpenSkip("error")
    /\ UNCHANGED <<reqVars, respVars, memVars, pastVars>> /\ NoFault

ErrorProcess ==
    /\ Processing("error", "run")
    /\ resp' = [resp EXCEPT !.len = 1, !.done = TRUE]
    /\ Forward({"error"}, 1)
    /\ UNCHANGED <<reqVars, file, contLen, iov, memVars, pastVars>> /\ NoFault

-----------------------------------------------------------------------------
(* transfer.h, response.h, send.h, access-log.h *)

\* Without a length the end of the connection is the end of the response.
TransferOpen ==
    /\ Opening("transfer")
    /\ IF resp.len = NoLen
       THEN OpenSkip("transfer") /\ resp' = [resp EXCEPT !.ka = FALSE] /\ UNCHANGED contLen
       ELSE OpenOk("transfer") /\ contLen' = resp.len /\ UNCHANGED resp
    /\ UNCHANGED <<reqVars, file, iov, memVars, pastVars>> /\ NoFault

\* Mutant: the output is not cut at what is left of the length.
TransferProcessNoMin ==
    /\ Processing("transfer", "run")
    /\ IF back THEN Backward /\ UNCHANGED contLen
       ELSE /\ contLen' = contLen - input
            /\ Forward(IF contLen' = 0 THEN {"transfer"} ELSE {}, input)
    /\ UNCHANGED <<reqVars, resp, file, iov, memVars, pastVars>> /\ NoFault

TransferProcess ==
    /\ Processing("transfer", "run")
    /\ IF back THEN Backward /\ UNCHANGED contLen
       ELSE LET n == IF input < contLen THEN input ELSE contLen
            IN  /\ contLen' = contLen - n
                /\ Forward(IF contLen' = 0 THEN {"transfer"} ELSE {}, n)
    /\ UNCHANGED <<reqVars, resp, file, iov, memVars, pastVars>> /\ NoFault

\* Without memory it is ERR, which the driver takes for SKIP: there will be no header.
ResponseOpen ==
    /\ Opening("response")
    /\ \/ OpenOk("response") /\ held' = held \cup {"resp.buf"} /\ NoFault
       \/ OpenSkip("response") /\ UNCHANGED held /\ OutOfMemory
    /\ UNCHANGED <<reqVars, respVars, leaked, pastVars>>

\* Mutant: a response to HEAD gets its body.
ResponseProcessHeadBody ==
    /\ Processing("response", "run")
    /\ iov' = [hdr |-> TRUE, body |-> input]
    /\ resp' = IF resp.head THEN [resp EXCEPT !.done = TRUE] ELSE resp
    /\ Forward({"response"}, 0)
    /\ UNCHANGED <<reqVars, file, contLen, memVars, pastVars>> /\ NoFault

ResponseProcess ==
    /\ Processing("response", "run")
    /\ iov' = [hdr |-> TRUE, body |-> IF resp.head THEN 0 ELSE input]
    /\ resp' = IF resp.head THEN [resp EXCEPT !.done = TRUE] ELSE resp
    /\ Forward({"response"}, 0)
    /\ UNCHANGED <<reqVars, file, contLen, memVars, pastVars>> /\ NoFault

Sending == Processing("send", "send")
Pending == IF input > 0 THEN [hdr |-> FALSE, body |-> input] ELSE iov
Header == [code |-> resp.code, len |-> resp.len, close |-> ~resp.ka, body |-> 0,
           resized |-> resp.resized]

\* The peer has received `v`.  It counts what comes after a header as that response's.
Received(v) ==
    LET w == IF v.hdr THEN Append(wire, Header) ELSE wire
    IN  IF w = <<>> THEN w ELSE [w EXCEPT ![Len(w)].body = @ + v.body,
                                          ![Len(w)].resized = @ \/ resp.resized]

\* Everything has been sent, if there was anything.
SendAll ==
    /\ Sending
    /\ wire' = Received(Pending)
    /\ iov' = NoIov
    /\ held' = held \ {"send.timer"}
    /\ IF resp.done THEN Forward({"send"}, 0) ELSE Backward
    /\ UNCHANGED <<reqVars, resp, file, contLen, leaked, keepAliveN, logged>> /\ NoFault

\* Mutant: the send timer is not started.
SendWaitNoTimer ==
    /\ Sending /\ Pending # NoIov
    /\ \/ state = "run" /\ iov' = Pending /\ UNCHANGED wire
       \/ /\ Pending.hdr /\ Pending.body > 0
          /\ iov' = [Pending EXCEPT !.hdr = FALSE]
          /\ wire' = Received([Pending EXCEPT !.body = 0])
    /\ state' = "send" /\ input' = 0 /\ UNCHANGED <<i, back, opened, done>>
    /\ UNCHANGED <<reqVars, resp, file, contLen, memVars, keepAliveN, logged>> /\ NoFault

\* The socket takes nothing, or the header and no body: the timer is started.
SendWait ==
    /\ Sending /\ Pending # NoIov
    /\ \/ state = "run" /\ iov' = Pending /\ UNCHANGED wire
       \/ /\ Pending.hdr /\ Pending.body > 0
          /\ iov' = [Pending EXCEPT !.hdr = FALSE]
          /\ wire' = Received([Pending EXCEPT !.body = 0])
    /\ state' = "send" /\ input' = 0 /\ UNCHANGED <<i, back, opened, done>>
    /\ held' = held \cup {"send.timer"}
    /\ UNCHANGED <<reqVars, resp, file, contLen, leaked, keepAliveN, logged>> /\ NoFault

SendFails ==
    /\ Sending /\ Pending # NoIov
    /\ Destroy
    /\ UNCHANGED <<reqVars, respVars, pastVars>> /\ NoFault

\* Without memory the request is not logged.
AccesslogOpen ==
    /\ Opening("accesslog")
    /\ \/ OpenOk("accesslog") /\ held' = held \cup {"acclog_buf"} /\ NoFault
       \/ OpenSkip("accesslog") /\ UNCHANGED held /\ OutOfMemory
    /\ UNCHANGED <<reqVars, respVars, leaked, pastVars>>

AccesslogCall ==
    /\ Kcq /\ Processing("accesslog", "run")
    /\ Suspend("kcall")
    /\ UNCHANGED <<reqVars, respVars, memVars, pastVars>> /\ NoFault

\* The line is written, and the chain has come to its end.
AccesslogWritten ==
    /\ CallReturns("accesslog")
    /\ logged' = logged + 1
    /\ KeepAlive
    /\ UNCHANGED wire /\ NoFault

-----------------------------------------------------------------------------

\* ahreq_read_expired, ahsend_expired.
Expired ==
    /\ state \in {"recv", "send", "kcall"}
    /\ held \cap {"recv.timer", "send.timer"} # {}
    /\ Destroy
    /\ UNCHANGED <<reqVars, respVars, pastVars>> /\ NoFault

Chain ==
    \/ PassDone \/ PassEnd \/ OpenPlain
    \/ ReceivePass \/ ReceiveWait \/ ReceiveData \/ ReceiveEnd \/ ReceiveNoMemory
    \/ RequestIncomplete \/ RequestParsed
    \/ VirtspaceOpen \/ VirtspaceProcess
    \/ IndexOpen \/ IndexFound \/ IndexNotFound \/ IndexNoMemory
    \/ AutoindexOpen \/ AutoindexListed \/ AutoindexFailed
    \/ FileOpen \/ FileCall \/ FileOpened \/ FileInfo \/ FileRead \/ CallFails
    \/ ErrorOpen \/ ErrorProcess \/ TransferOpen \/ TransferProcess
    \/ ResponseOpen \/ ResponseProcess
    \/ SendAll \/ SendWait \/ SendFails
    \/ AccesslogOpen \/ AccesslogCall \/ AccesslogWritten

Rest == state = "ended" /\ UNCHANGED vars

Next == Chain \/ FileResized \/ Expired \/ Rest

Spec == Init /\ [][Next]_vars

(***************************************************************************)
(* Fairness: the worker runs a chain that has not stopped, kcall threads   *)
(* finish what is queued, and timers expire.  Nothing is assumed of peers. *)
(***************************************************************************)
FairSpec ==
    /\ Spec
    /\ WF_vars(state \in {"run", "kcall"} /\ Chain)
    /\ WF_vars(Expired)

-----------------------------------------------------------------------------

Resources == UNION {Owned(f) : f \in FilterSet}

Statuses == {0, 200, 301, 304, 400, 403, 404, 405, 500}
Lengths == {NoLen} \cup Nat
Resp == [code : Statuses, len : Lengths, err : BOOLEAN, done : BOOLEAN, head : BOOLEAN,
         ka : BOOLEAN, resized : BOOLEAN]
\* What `wire` keeps of a response.
Response == [code : Statuses, len : Lengths, close : BOOLEAN, body : Nat, resized : BOOLEAN]

\* The driver's assertion never fails: nothing goes BACK from the first filter.
ClientTypeOK ==
    /\ state \in {"run", "recv", "send", "kcall", "ended"}
    /\ i \in DOMAIN Filters /\ back \in BOOLEAN
    /\ opened \subseteq FilterSet /\ done \subseteq FilterSet
    /\ input \in Nat /\ contLen \in Nat
    /\ buf \in Seq(Requests) /\ {part, unprocessed} \subseteq BOOLEAN
    /\ req \in Request /\ resp \in Resp
    /\ file \in [state : 0 .. 2, left : Nat] /\ iov \in [hdr : BOOLEAN, body : Nat]
    /\ keepAliveN \in 0 .. KeepAliveMod - 1
    /\ held \subseteq Resources /\ leaked \subseteq Resources
    /\ {sent, taken} \subseteq Seq(Requests) /\ wire \in Seq(Response) /\ logged \in Nat
    /\ {faulted, blocked} \subseteq BOOLEAN

(***************************************************************************)
(* Pipelining: requests are parsed in the order they were received, none   *)
(* is lost and none is parsed twice, however the bytes were split over     *)
(* receives: what is parsed and what is still in req.buf is what was sent. *)
(***************************************************************************)
PipelineIntact ==
    sent = taken \o (IF "request" \in done THEN Tail(buf) ELSE buf)

\* The units of body the peer expects after a response to `r`.
Expected(r, w) == IF r.method = "HEAD" \/ w.code = 304 THEN 0 ELSE w.len

\* Responses that are known to break framing: see FramingKept and the README.
Excused(r, w) ==
    w.resized \/ w.code = 304 \/ (r.method = "HEAD" /\ r.target \in Slashed)

(***************************************************************************)
(* Keep-alive framing: when a response follows another on the connection,  *)
(* the peer can tell where the first one ends -- it has a Content-Length,  *)
(* and as many units of body as its header and the request's method say.   *)
(* Left out are the responses of Excused.                                  *)
(***************************************************************************)
FramingExact ==
    \A n \in 1 .. Len(wire) - 1 :
        \/ Excused(taken[n], wire[n])
        \/ wire[n].len # NoLen /\ wire[n].body = Expected(taken[n], wire[n])

\* The same for every response: what HTTP/1.1 promises the peer.
FramingKept ==
    \A n \in 1 .. Len(wire) - 1 :
        wire[n].len # NoLen /\ wire[n].body = Expected(taken[n], wire[n])

\* The same for the length of files alone: response.h promises the size that fffile_info
\* found, and the body is what file_process reads up to the end of the file.
FramingOfFiles ==
    \A n \in 1 .. Len(wire) - 1 :
        taken[n].target = "file" => wire[n].body = Expected(taken[n], wire[n])

(***************************************************************************)
(* A response that said "Connection: close" is the last, and one           *)
(* connection gets no more than max_keep_alive_reqs responses (0, or a     *)
(* value that ffushort cannot hold, is no limit).                          *)
(***************************************************************************)
KeepAliveKept ==
    /\ \A n \in 1 .. Len(wire) : wire[n].close => Len(taken) = n
    /\ MaxKeepAlive \in 1 .. KeepAliveMod - 1 => Len(taken) <= MaxKeepAlive

(***************************************************************************)
(* The filters' close functions release everything the connection holds,   *)
(* on every path.  Known to be forgotten: req.buf, when the connection     *)
(* ends before the request filter was opened again; and last_modified,     *)
(* when a failure keeps the response filter from being opened.             *)
(***************************************************************************)
ResourcesReleased ==
    leaked \subseteq (IF "request" \in opened THEN {} ELSE {"req.buf"})
                     \cup (IF faulted THEN {"resp.last_modified"} ELSE {})

(***************************************************************************)
(* Exactly the wait it bounds goes with each timer, so none can end a      *)
(* client whose kernel call is in flight (EventLoop builds on this).       *)
(***************************************************************************)
TimersFitWaits ==
    state \in {"recv", "send", "kcall"} =>
        /\ "recv.timer" \in held <=> state = "recv"
        /\ "send.timer" \in held <=> state = "send"

\* README.md: file I/O is asynchronous, "offload syscalls to other threads".
FileCallsOffloaded == Kcq => ~blocked

\* The statuses that fit a request, when nothing fails.
Fits(r) ==
    LET doc == <<r.method, r.target>> \in Docs
    IN
    IF r.bad THEN {400}
    ELSE CASE doc -> {200}
           [] ~doc /\ r.target = "listing" -> {200}
           [] ~doc /\ r.target = "nodir"   -> {404}
           [] OTHER ->
                IF r.method = "POST" THEN {405}
                ELSE CASE r.target \in {"file", "index"} -> {IF r.ims THEN 304 ELSE 200}
                       [] r.target = "missing"           -> {404}
                       [] r.target = "dir"               -> {301}
                       [] OTHER                          -> {0}

(***************************************************************************)
(* The connection implements the abstract service: every request parsed is *)
(* answered once, in order, with a status that fits it, and logged once,   *)
(* after its answer.                                                       *)
(***************************************************************************)
Service == INSTANCE HttpService WITH
    Requests <- Requests, Allowed <- Fits, taken <- taken,
    answers <- [n \in 1 .. Len(wire) |-> wire[n].code], logged <- logged
ServiceSpec == Service!Spec

(***************************************************************************)
(* Every connection ends, whatever its peer does and whatever fails: the   *)
(* chain does not go in circles, and no wait is without an end.            *)
(***************************************************************************)
ConnectionEnds == <>(state = "ended")

=============================================================================
