---------------------------- MODULE Client_proofs ----------------------------
(***************************************************************************)
(* What one connection keeps for every set of requests, every limit, every *)
(* set of virtual documents and every choice of failures.  And when a      *)
(* response can always be built and nothing fails, the requests and the    *)
(* responses of a connection stay one to one, so that the last is the one  *)
(* that says "close" and the whole implements HttpService.                 *)
(***************************************************************************)
EXTENDS Client, SequenceTheorems, TLAPS

-----------------------------------------------------------------------------
(* The order of the filters. *)

\* 1 when virtspace is in the chain: the filters after it stand one further.
V == IF Docs = {} THEN 0 ELSE 1

AtIndex == 3 + V
AtAutoindex == 4 + V
AtFile == 5 + V
AtError == 6 + V
AtTransfer == 7 + V
AtResponse == 8 + V
AtSend == 9 + V
AtLog == 10 + V

\* Where every filter stands.
PlacesOf(k) ==
    /\ Filters[k] = "receive" <=> k = 1
    /\ Filters[k] = "request" <=> k = 2
    /\ Filters[k] = "virtspace" <=> V = 1 /\ k = 3
    /\ Filters[k] = "index" <=> k = AtIndex
    /\ Filters[k] = "autoindex" <=> k = AtAutoindex
    /\ Filters[k] = "file" <=> k = AtFile
    /\ Filters[k] = "error" <=> k = AtError
    /\ Filters[k] = "transfer" <=> k = AtTransfer
    /\ Filters[k] = "response" <=> k = AtResponse
    /\ Filters[k] = "send" <=> k = AtSend
    /\ Filters[k] = "accesslog" <=> k = AtLog

\* The two chains, written out.
LEMMA FiltersPlain ==
    ASSUME Docs = {}
    PROVE  Filters = <<"receive", "request", "index", "autoindex", "file", "error",
                       "transfer", "response", "send", "accesslog">>
BY DEF Filters

\* With virtspace in it.
LEMMA FiltersVirtual ==
    ASSUME Docs # {}
    PROVE  Filters = <<"receive", "request", "virtspace", "index", "autoindex", "file",
                       "error", "transfer", "response", "send", "accesslog">>
BY DEF Filters

\* Every filter has its place.
LEMMA Places ==
    /\ V \in {0, 1} /\ (V = 0 <=> Docs = {})
    /\ DOMAIN Filters = 1 .. AtLog /\ Len(Filters) = AtLog
    /\ \A k \in 1 .. AtLog : PlacesOf(k)
<1>1. CASE Docs = {}
  <2>1. V = 0
    BY <1>1 DEF V
  <2>. QED  BY <1>1, <2>1, FiltersPlain DEF PlacesOf, AtIndex, AtAutoindex, AtFile, AtError,
              AtTransfer, AtResponse, AtSend, AtLog
<1>2. CASE Docs # {}
  <2>1. V = 1
    BY <1>2 DEF V
  <2>. QED  BY <1>2, <2>1, FiltersVirtual DEF PlacesOf, AtIndex, AtAutoindex, AtFile, AtError,
              AtTransfer, AtResponse, AtSend, AtLog
<1>. QED  BY <1>1, <1>2

\* A filter's name is one of these.
LEMMA FilterNames ==
    /\ \A k \in 1 .. AtLog : Filters[k] \in FilterSet
    /\ FilterSet \subseteq {"receive", "request", "virtspace", "index", "autoindex", "file",
                            "error", "transfer", "response", "send", "accesslog"}
<1>1. \A k \in 1 .. AtLog : Filters[k] \in FilterSet
  BY Places DEF FilterSet
<1>2. CASE Docs = {}
  BY <1>2, <1>1, FiltersPlain DEF FilterSet
<1>3. CASE Docs # {}
  BY <1>3, <1>1, FiltersVirtual DEF FilterSet
<1>. QED  BY <1>1, <1>2, <1>3

-----------------------------------------------------------------------------
(* How the chain moves. *)

ChainTypes ==
    /\ state \in {"run", "recv", "send", "kcall", "ended"}
    /\ i \in 1 .. AtLog /\ back \in BOOLEAN
    /\ opened \subseteq FilterSet /\ done \subseteq FilterSet
    /\ input \in Nat

Begun == opened \cup done

\* Filters that let the chain go on only when they are done.
Once == {"request", "virtspace", "index", "autoindex", "error", "response", "send"}

\* The chain reaches a filter over filters that have begun, and comes back only to those.
Reached ==
    /\ \A k \in 1 .. i - 1 : Filters[k] \in Begun
    /\ back => Filters[i] \in Begun

\* Nothing after such a filter begins before it is done.
InOrder ==
    \A k \in 1 .. AtLog : Filters[k] \in Once /\ Filters[k] \notin done =>
        /\ i <= k
        /\ \A j \in k + 1 .. AtLog : Filters[j] \notin Begun

\* The chain turns back only at `send`, or at `request`, and never with a whole response.
TurnsBack ==
    /\ resp.done => ~back /\ i > 2
    /\ back /\ i > 1 => "send" \in opened
    /\ "receive" \notin done

ChainInv ==
    /\ Reached
    /\ InOrder
    /\ TurnsBack
    /\ "request" \in done => buf # <<>>

\* A filter returned FWD or DONE.
LEMMA ForwardChain ==
    ASSUME ChainTypes, ChainInv, NEW d, NEW n \in Nat, Forward(d, n),
           i # AtLog, Filters[i] \in Begun,
           d \subseteq {Filters[i]} \ {"receive"},
           Filters[i] \in Once => Filters[i] \in done \cup d,
           "request" \in done \cup d => buf' # <<>>,
           resp'.done => i > 1
    PROVE  ChainTypes' /\ ChainInv'
<1>. USE DEF AtLog
<1>1. /\ state' = "run" /\ i' = i + 1 /\ back' = FALSE /\ done' = done \cup d /\ input' = n
      /\ opened' = opened
  BY DEF Forward
<1>2. i' \in 1 .. AtLog /\ i' - 1 = i
  BY <1>1, Places DEF ChainTypes
<1>3. ChainTypes'
  BY <1>1, <1>2, FilterNames DEF ChainTypes
<1>4. Begun \subseteq Begun'
  BY <1>1 DEF Begun
<1>5. Reached'
  BY <1>1, <1>2, <1>4 DEF ChainInv, Reached, ChainTypes
<1>6. InOrder'
  <2>. SUFFICES ASSUME NEW k \in 1 .. AtLog, Filters[k] \in Once, Filters[k] \notin done'
                PROVE  i' <= k /\ \A j \in k + 1 .. AtLog : Filters[j] \notin Begun'
    BY DEF InOrder
  <2>1. Filters[k] \notin done /\ i # k /\ Filters[k] \notin d
    BY <1>1
  <2>2. i <= k /\ \A j \in k + 1 .. AtLog : Filters[j] \notin Begun
    BY <2>1 DEF ChainInv, InOrder
  <2>3. i < k
    BY <2>1, <2>2, Places DEF ChainTypes
  <2>4. Begun' = Begun
    BY <1>1 DEF Begun
  <2>. QED  BY <1>1, <2>2, <2>3, <2>4, Places DEF ChainTypes
<1>7. TurnsBack'
  BY <1>1, <1>2 DEF ChainInv, TurnsBack, ChainTypes
<1>. QED  BY <1>1, <1>3, <1>5, <1>6, <1>7 DEF ChainInv

\* A filter returned BACK.
LEMMA BackwardChain ==
    ASSUME ChainTypes, ChainInv, Backward,
           i > 1, Filters[i] \in Begun, i > 2 => "send" \in opened,
           buf' = buf, resp' = resp, ~resp.done
    PROVE  ChainTypes' /\ ChainInv'
<1>. USE DEF AtLog
<1>1. /\ state' = "run" /\ i' = i - 1 /\ back' = TRUE /\ done' = done /\ input' = 0
      /\ opened' = opened /\ Begun' = Begun
  BY DEF Backward, Begun, ChainTypes
<1>2. i' \in 1 .. AtLog
  BY <1>1, Places DEF ChainTypes
<1>3. ChainTypes'
  BY <1>1, <1>2 DEF ChainTypes
<1>4. Reached'
  BY <1>1, <1>2 DEF ChainInv, Reached, ChainTypes
<1>5. InOrder'
  BY <1>1, <1>2 DEF ChainInv, InOrder, ChainTypes
<1>6. TurnsBack'
  BY <1>1, <1>2 DEF ChainInv, TurnsBack, ChainTypes
<1>. QED  BY <1>1, <1>3, <1>4, <1>5, <1>6 DEF ChainInv

\* A filter's open function returned, and it is opened, or done.
LEMMA OpenChain ==
    ASSUME ChainTypes, ChainInv, NEW f, Opening(f), OpenOk(f) \/ OpenSkip(f),
           f \notin {"receive", "request"} \/ OpenOk(f),
           buf' = buf, resp'.done => resp.done
    PROVE  ChainTypes' /\ ChainInv' /\ ~back
<1>. USE DEF AtLog
<1>1. /\ state' = state /\ i' = i /\ back' = back /\ input' = input
      /\ done \subseteq done' /\ done' \subseteq done \cup {f}
      /\ opened' \subseteq opened \cup {f} /\ opened \subseteq opened'
      /\ Begun' = Begun \cup {f}
  BY DEF OpenOk, OpenSkip, Begun
<1>2. f = Filters[i] /\ f \notin Begun
  BY DEF Opening, Begun
<1>3. f \in FilterSet /\ i \in 1 .. AtLog
  BY <1>2, FilterNames DEF ChainTypes
<1>4. ChainTypes'
  BY <1>1, <1>3 DEF ChainTypes
<1>5. Reached' /\ ~back
  BY <1>1, <1>2 DEF ChainInv, Reached
<1>6. InOrder'
  <2>. SUFFICES ASSUME NEW k \in 1 .. AtLog, Filters[k] \in Once, Filters[k] \notin done'
                PROVE  i' <= k /\ \A j \in k + 1 .. AtLog : Filters[j] \notin Begun'
    BY DEF InOrder
  <2>1. i <= k /\ \A j \in k + 1 .. AtLog : Filters[j] \notin Begun
    BY <1>1 DEF ChainInv, InOrder
  <2>2. \A j \in k + 1 .. AtLog : Filters[j] # f
    <3>. SUFFICES ASSUME NEW j \in k + 1 .. AtLog, Filters[j] = f PROVE FALSE
      OBVIOUS
    <3>1. j \in 1 .. AtLog /\ Filters[i] = Filters[j] /\ i # j
      BY <1>2, <1>3, <2>1, Places
    <3>2. Filters[i] \in FilterSet
      BY <1>2, <1>3
    <3>. QED  BY <1>3, <3>1, <3>2, Places, FilterNames DEF PlacesOf, AtIndex, AtAutoindex,
                AtFile, AtError, AtTransfer, AtResponse, AtSend
  <2>. QED  BY <1>1, <2>1, <2>2
<1>7. TurnsBack'
  BY <1>1, <1>2 DEF ChainInv, TurnsBack, OpenOk, OpenSkip, ChainTypes
<1>8. "request" \in done' => "request" \in done
  BY <1>1 DEF OpenOk, OpenSkip
<1>. QED  BY <1>4, <1>5, <1>6, <1>7, <1>8 DEF ChainInv

\* The chain stays where it is: it waits, it ends, or the filter makes its next call.
LEMMA StayChain ==
    ASSUME ChainTypes, ChainInv, UNCHANGED <<i, back, opened, done>>,
           state' \in {"run", "recv", "send", "kcall", "ended"}, input' \in Nat,
           buf' = buf, resp'.done => resp.done
    PROVE  ChainTypes' /\ ChainInv'
<1>1. Begun' = Begun
  BY DEF Begun
<1>2. ChainTypes'
  BY DEF ChainTypes
<1>3. Reached' /\ InOrder'
  BY <1>1 DEF ChainInv, Reached, InOrder
<1>4. TurnsBack'
  BY DEF ChainInv, TurnsBack
<1>. QED  BY <1>2, <1>3, <1>4 DEF ChainInv

\* The chain starts again.
LEMMA ResetChain ==
    ASSUME Reset
    PROVE  ChainTypes' /\ ChainInv'
<1>1. /\ state' = "run" /\ i' = 1 /\ back' = FALSE /\ opened' = {} /\ done' = {}
      /\ input' = 0 /\ resp' = NoResp
  BY DEF Reset, ResetRest
<1>2. 1 \in 1 .. AtLog
  BY Places DEF AtLog
<1>3. ChainTypes'
  BY <1>1, <1>2 DEF ChainTypes
<1>4. Reached'
  BY <1>1 DEF Reached
<1>5. InOrder'
  BY <1>1 DEF InOrder, Begun
<1>6. TurnsBack'
  BY <1>1 DEF TurnsBack, NoResp
<1>. QED  BY <1>1, <1>2, <1>3, <1>4, <1>5, <1>6 DEF ChainInv

-----------------------------------------------------------------------------
(* Types. *)

\* What the filters' close functions know of.
LEMMA ResourceNames ==
    /\ Resources \subseteq {"recv.timer", "req.buf", "req.path", "index.buf", "autoindex.buf",
           "file.buf", "file.f", "resp.buf", "resp.last_modified", "send.timer", "acclog_buf"}
    /\ {"recv.timer", "req.buf", "req.path", "index.buf", "autoindex.buf", "file.buf", "file.f",
        "resp.buf", "resp.last_modified", "send.timer", "acclog_buf"} \subseteq Resources
<1>1. \A f \in {"receive", "request", "index", "autoindex", "file", "response", "send",
                "accesslog"} : f \in FilterSet
  BY FiltersPlain, FiltersVirtual DEF FilterSet
<1>2. \A x \in Resources : \E f \in FilterSet : x \in Owned(f)
  BY DEF Resources
<1>3. \A f \in FilterSet : Owned(f) \subseteq Resources
  BY DEF Resources
<1>4. \A x \in Resources :
          x \in {"recv.timer", "req.buf", "req.path", "index.buf", "autoindex.buf", "file.buf",
                 "file.f", "resp.buf", "resp.last_modified", "send.timer", "acclog_buf"}
  BY <1>2, FilterNames DEF Owned
<1>. QED  BY <1>1, <1>3, <1>4 DEF Owned

DataTypes ==
    /\ contLen \in Nat
    /\ buf \in Seq(Requests) /\ part \in BOOLEAN /\ unprocessed \in BOOLEAN
    /\ req \in Request /\ resp \in Resp
    /\ file \in [state : 0 .. 2, left : Nat] /\ iov \in [hdr : BOOLEAN, body : Nat]
    /\ keepAliveN \in 0 .. KeepAliveMod - 1
    /\ held \subseteq Resources /\ leaked \subseteq Resources
    /\ sent \in Seq(Requests) /\ taken \in Seq(Requests)
    /\ wire \in Seq(Response) /\ logged \in Nat
    /\ faulted \in BOOLEAN /\ blocked \in BOOLEAN

\* The two halves of the type invariant.
LEMMA TypeHalves == ClientTypeOK <=> ChainTypes /\ DataTypes
BY Places DEF ClientTypeOK, ChainTypes, DataTypes

TypeInv == ChainTypes /\ DataTypes /\ ChainInv

\* One filter that was opened passes its input on.
LEMMA FilterForward ==
    ASSUME TypeInv, NEW f, Filters[i] = f, f \in opened, f # "accesslog", NEW n \in Nat,
           \/ Forward({f}, n) /\ f # "receive"
           \/ Forward({}, n) /\ f \in {"receive", "file", "transfer"},
           buf' = buf \/ ("request" \notin done /\ f # "request") \/ buf' # <<>>,
           f = "request" => buf # <<>>,
           f = "receive" => resp' = resp /\ ~resp.done
    PROVE  ChainTypes' /\ ChainInv'
<1>1. i \in 1 .. AtLog /\ i # AtLog /\ (f # "receive" => i > 1) /\ i >= 1
  BY Places DEF TypeInv, ChainTypes, PlacesOf, AtLog
<1>2. Filters[i] \in Begun
  BY DEF Begun
<1>3. "request" \in done \cup {f} => buf' # <<>>
  BY DEF TypeInv, ChainInv
<1>4. resp'.done => i > 1
  BY <1>1
<1>5. CASE Forward({f}, n) /\ f # "receive"
  <2>1. /\ {f} \subseteq {Filters[i]} \ {"receive"}
        /\ Filters[i] \in Once => Filters[i] \in done \cup {f}
    BY <1>5
  <2>. QED  BY <1>1, <1>2, <1>3, <1>4, <1>5, <2>1, ForwardChain DEF TypeInv
<1>6. CASE Forward({}, n) /\ f \in {"receive", "file", "transfer"}
  <2>1. {} \subseteq {Filters[i]} \ {"receive"} /\ Filters[i] \notin Once
    BY <1>6 DEF Once
  <2>2. "request" \in done \cup {} => buf' # <<>>
    BY <1>3
  <2>. QED  BY <1>1, <1>2, <1>4, <1>6, <2>1, <2>2, ForwardChain DEF TypeInv
<1>. QED  BY <1>5, <1>6

\* At the end of the chain the connection ends, or the chain starts again.
LEMMA KeepAliveChain ==
    ASSUME TypeInv, KeepAlive
    PROVE  ChainTypes' /\ ChainInv'
<1>1. CASE Reset
  BY <1>1, ResetChain
<1>2. CASE Destroy /\ UNCHANGED <<reqVars, respVars>>
  BY <1>2, StayChain DEF Destroy, DestroyHolding, reqVars, respVars, TypeInv, ChainTypes
<1>. QED  BY <1>1, <1>2 DEF KeepAlive

\* Every step moves the chain in one of these ways.
LEMMA ChainStep ==
    ASSUME TypeInv, [Next]_vars
    PROVE  ChainTypes' /\ ChainInv'
<1>1. CASE PassDone
  <2>1. CASE back
    <3>1. Backward /\ Filters[i] \in Begun /\ i > 1 /\ (i > 2 => "send" \in opened)
      BY <1>1, <2>1, Places DEF PassDone, TypeInv, ChainTypes, ChainInv, TurnsBack, Begun, PlacesOf
    <3>2. ~resp.done
      BY <2>1 DEF TypeInv, ChainInv, TurnsBack
    <3>. QED  BY <1>1, <3>1, <3>2, BackwardChain DEF PassDone, reqVars, respVars, TypeInv
  <2>2. CASE ~back
    <3>1. i # AtLog /\ Forward({}, input) /\ Filters[i] \in Begun /\ Filters[i] # "receive"
      BY <1>1, <2>2, Places DEF PassDone, TypeInv, ChainInv, TurnsBack, Begun
    <3>2. i > 1
      BY <3>1, Places DEF TypeInv, ChainTypes, PlacesOf, AtLog
    <3>3. buf' = buf /\ Filters[i] \in done /\ input \in Nat
      BY <1>1 DEF PassDone, reqVars, TypeInv, ChainTypes
    <3>. QED  BY <3>1, <3>2, <3>3, ForwardChain DEF TypeInv, ChainInv
  <2>. QED  BY <2>1, <2>2
<1>2. CASE PassEnd
  BY <1>2, KeepAliveChain DEF PassEnd
<1>3. CASE OpenPlain
  <2>. PICK f \in {"receive", "request", "send"} : Opening(f) /\ OpenOk(f)
    BY <1>3 DEF OpenPlain
  <2>. QED  BY <1>3, OpenChain DEF OpenPlain, TypeInv, reqVars, respVars
<1>4. CASE ReceivePass
  <2>1. ~resp.done
    BY <1>4, Places DEF ReceivePass, Processing, TypeInv, ChainTypes, ChainInv, TurnsBack, PlacesOf
  <2>. QED  BY <1>4, <2>1, FilterForward DEF ReceivePass, Processing, reqVars, respVars
<1>5. CASE ReceiveWait
  BY <1>5, StayChain DEF ReceiveWait, Suspend, reqVars, respVars, TypeInv, ChainTypes
<1>6. CASE ReceiveData
  <2>1. PICK n \in 0 .. 2 : \E rs \in [1 .. n -> Requests] : buf' = buf \o rs
    BY <1>6, Zenon DEF ReceiveData
  <2>2. PICK rs \in [1 .. n -> Requests] : buf' = buf \o rs
    BY <2>1
  <2>3. buf # <<>> => buf' # <<>>
    <3>1. buf \in Seq(Requests) /\ rs \in Seq(Requests)
      BY DEF TypeInv, DataTypes
    <3>. QED  BY <2>2, <3>1
  <2>. QED  BY <1>6, <2>3, FilterForward DEF ReceiveData, Receiving, Processing, respVars, TypeInv,
              ChainInv
<1>7. CASE ReceiveEnd
  BY <1>7, StayChain DEF ReceiveEnd, Destroy, DestroyHolding, reqVars, respVars, TypeInv,
     ChainTypes
<1>8. CASE ReceiveNoMemory
  BY <1>8, StayChain DEF ReceiveNoMemory, Destroy, DestroyHolding, reqVars, respVars, TypeInv,
     ChainTypes
<1>9. CASE RequestIncomplete
  <2>1. i = 2 /\ "request" \in opened /\ "request" \notin done
    BY <1>9, Places DEF RequestIncomplete, Processing, TypeInv, ChainTypes, PlacesOf
  <2>2. buf' = buf /\ resp' = resp
    BY <1>9 DEF RequestIncomplete, respVars
  <2>3. CASE Destroy
    BY <2>2, <2>3, StayChain DEF Destroy, DestroyHolding, TypeInv, ChainTypes
  <2>4. CASE Backward
    <3>1. Filters[i] \in Begun /\ ~resp.done
      BY <1>9, <2>1 DEF RequestIncomplete, Processing, Begun, TypeInv, ChainInv, TurnsBack
    <3>. QED  BY <2>1, <2>2, <2>4, <3>1, BackwardChain DEF TypeInv
  <2>. QED  BY <1>9, <2>3, <2>4 DEF RequestIncomplete
<1>10. CASE RequestParsed
  BY <1>10, FilterForward DEF RequestParsed, Processing
<1>11. CASE VirtspaceOpen
  BY <1>11, OpenChain DEF VirtspaceOpen, TypeInv, reqVars, respVars
<1>12. CASE VirtspaceProcess
  <2>. PICK n \in {0, 1} : Forward({"virtspace"}, n)
    BY <1>12 DEF VirtspaceProcess
  <2>. QED  BY <1>12, FilterForward DEF VirtspaceProcess, Processing, reqVars
<1>13. CASE IndexOpen
  BY <1>13, OpenChain DEF IndexOpen, TypeInv, reqVars, respVars
<1>14. CASE IndexFound
  BY <1>14, FilterForward DEF IndexFound, Processing, reqVars
<1>15. CASE IndexNotFound
  BY <1>15, FilterForward DEF IndexNotFound, Processing, reqVars
<1>16. CASE IndexNoMemory
  BY <1>16, FilterForward DEF IndexNoMemory, Processing, reqVars
<1>17. CASE AutoindexOpen
  BY <1>17, OpenChain DEF AutoindexOpen, TypeInv, reqVars, respVars
<1>18. CASE AutoindexListed
  BY <1>18, FilterForward DEF AutoindexListed, Processing, reqVars
<1>19. CASE AutoindexFailed
  BY <1>19, FilterForward DEF AutoindexFailed, Processing, reqVars
<1>20. CASE FileOpen
  <2>1. resp'.done => resp.done
    <3>. DEFINE r == [resp EXCEPT !.head = req.method = "HEAD"]
    <3>1. \/ resp' = resp \/ resp' = Status(resp, 405)
          \/ resp' = r \/ resp' = Status(r, 500)
      BY <1>20 DEF FileOpen
    <3>2. r \in Resp /\ r.done = resp.done
      BY DEF TypeInv, DataTypes, Resp
    <3>. HIDE DEF r
    <3>3. \A c : Status(r, c).done = r.done /\ Status(resp, c).done = resp.done
      BY <3>2 DEF Status, TypeInv, DataTypes, Resp
    <3>. QED  BY <3>1, <3>2, <3>3
  <2>2. Opening("file") /\ (OpenOk("file") \/ OpenSkip("file")) /\ buf' = buf
    BY <1>20 DEF FileOpen, reqVars
  <2>. QED  BY <2>1, <2>2, OpenChain DEF TypeInv
<1>21. CASE FileCall
  BY <1>21, StayChain DEF FileCall, Suspend, reqVars, respVars, TypeInv, ChainTypes
<1>22. CASE FileOpened
  <2>1. Forward({"file"}, 0) \/ (NextCall /\ UNCHANGED resp)
    BY <1>22 DEF FileOpened, FileDone
  <2>2. Filters[i] = "file" /\ "file" \in opened /\ buf' = buf
    BY <1>22 DEF FileOpened, CallReturns, Processing, reqVars
  <2>3. CASE Forward({"file"}, 0)
    BY <2>2, <2>3, FilterForward
  <2>4. CASE NextCall /\ UNCHANGED resp
    BY <2>2, <2>4, StayChain DEF NextCall, TypeInv, ChainTypes
  <2>. QED  BY <2>1, <2>3, <2>4
<1>23. CASE FileInfo
  <2>1. \/ Forward({"file"}, 0)
        \/ NextCall /\ \E n : resp' = [resp EXCEPT !.code = 200, !.len = n]
    BY <1>23 DEF FileInfo, FileDone, Redirected, NotModified
  <2>2. Filters[i] = "file" /\ "file" \in opened /\ buf' = buf
    BY <1>23 DEF FileInfo, CallReturns, Processing, reqVars
  <2>3. CASE Forward({"file"}, 0)
    BY <2>2, <2>3, FilterForward
  <2>4. CASE ~Forward({"file"}, 0)
    <3>1. resp'.done => resp.done
      BY <2>1, <2>4 DEF TypeInv, DataTypes, Resp
    <3>. QED  BY <2>1, <2>2, <2>4, <3>1, StayChain DEF NextCall, TypeInv, ChainTypes
  <2>. QED  BY <2>1, <2>3, <2>4
<1>24. CASE FileRead
  <2>1. Forward({"file"}, 0) \/ Forward({}, 1)
    BY <1>24 DEF FileRead, FileDone
  <2>. QED  BY <1>24, <2>1, FilterForward DEF FileRead, CallReturns, Processing, reqVars
<1>25. CASE CallFails
  BY <1>25, StayChain DEF CallFails, Destroy, DestroyHolding, reqVars, respVars, TypeInv,
     ChainTypes
<1>26. CASE ErrorOpen
  BY <1>26, OpenChain DEF ErrorOpen, TypeInv, reqVars, respVars
<1>27. CASE ErrorProcess
  BY <1>27, FilterForward DEF ErrorProcess, Processing, reqVars
<1>28. CASE TransferOpen
  <2>1. resp'.done => resp.done
    BY <1>28 DEF TransferOpen, TypeInv, DataTypes, Resp
  <2>. QED  BY <1>28, <2>1, OpenChain DEF TransferOpen, TypeInv, reqVars
<1>29. CASE TransferProcess
  <2>1. Filters[i] = "transfer" /\ "transfer" \in opened /\ buf' = buf /\ resp' = resp
    BY <1>29 DEF TransferProcess, Processing, reqVars
  <2>2. i = AtTransfer
    BY <2>1, Places DEF TypeInv, ChainTypes, PlacesOf
  <2>3. CASE back
    <3>1. i > 1 /\ i > 2
      BY <2>2, Places DEF AtTransfer
    <3>2. "send" \in opened /\ ~resp.done /\ Backward
      BY <1>29, <2>3, <3>1 DEF TransferProcess, TypeInv, ChainInv, TurnsBack
    <3>. QED  BY <2>1, <3>1, <3>2, BackwardChain DEF Begun, TypeInv
  <2>4. CASE ~back
    <3>1. PICK n \in Nat : Forward({}, n) \/ Forward({"transfer"}, n)
      BY <1>29, <2>4 DEF TransferProcess, TypeInv, ChainTypes, DataTypes
    <3>. QED  BY <2>1, <3>1, FilterForward
  <2>. QED  BY <2>3, <2>4
<1>30. CASE ResponseOpen
  BY <1>30, OpenChain DEF ResponseOpen, TypeInv, reqVars, respVars
<1>31. CASE ResponseProcess
  BY <1>31, FilterForward DEF ResponseProcess, Processing, reqVars
<1>32. CASE SendAll
  <2>1. Filters[i] = "send" /\ "send" \in opened /\ buf' = buf /\ resp' = resp
    BY <1>32 DEF SendAll, Sending, Processing, reqVars
  <2>2. i > 1 /\ i > 2
    BY <2>1, Places DEF TypeInv, ChainTypes, PlacesOf, AtSend
  <2>3. CASE resp.done
    BY <1>32, <2>1, <2>3, FilterForward DEF SendAll
  <2>4. CASE ~resp.done
    BY <1>32, <2>1, <2>2, <2>4, BackwardChain DEF SendAll, Begun, TypeInv
  <2>. QED  BY <2>3, <2>4
<1>33. CASE SendWait
  BY <1>33, StayChain DEF SendWait, reqVars, TypeInv
<1>34. CASE SendFails
  BY <1>34, StayChain DEF SendFails, Destroy, DestroyHolding, reqVars, respVars, TypeInv,
     ChainTypes
<1>35. CASE AccesslogOpen
  BY <1>35, OpenChain DEF AccesslogOpen, TypeInv, reqVars, respVars
<1>36. CASE AccesslogCall
  BY <1>36, StayChain DEF AccesslogCall, Suspend, reqVars, respVars, TypeInv, ChainTypes
<1>37. CASE AccesslogWritten
  BY <1>37, KeepAliveChain DEF AccesslogWritten
<1>38. CASE FileResized
  <2>1. resp'.done = resp.done
    BY <1>38 DEF FileResized, TypeInv, DataTypes, Resp
  <2>. QED  BY <1>38, <2>1, StayChain DEF FileResized, chainVars, reqVars, TypeInv, ChainTypes
<1>39. CASE Expired
  BY <1>39, StayChain DEF Expired, Destroy, DestroyHolding, reqVars, respVars, TypeInv,
     ChainTypes
<1>40. CASE UNCHANGED vars
  BY <1>40, StayChain DEF vars, chainVars, reqVars, respVars, TypeInv, ChainTypes
<1>. QED
  BY <1>1, <1>2, <1>3, <1>4, <1>5, <1>6, <1>7, <1>8, <1>9, <1>10, <1>11, <1>12, <1>13, <1>14,
     <1>15, <1>16, <1>17, <1>18, <1>19, <1>20, <1>21, <1>22, <1>23, <1>24, <1>25, <1>26, <1>27,
     <1>28, <1>29, <1>30, <1>31, <1>32, <1>33, <1>34, <1>35, <1>36, <1>37, <1>38, <1>39, <1>40
     DEF Next, Chain, Rest

-----------------------------------------------------------------------------
(* What a step does to each group of variables. *)

\* The steps that touch the requests.
LEMMA ReqStep ==
    ASSUME [Next]_vars
    PROVE  \/ UNCHANGED reqVars
           \/ ReceiveData \/ RequestIncomplete \/ RequestParsed \/ IndexFound
           \/ PassEnd \/ AccesslogWritten
BY DEF Next, Chain, Rest, vars, PassDone, OpenPlain, ReceivePass, ReceiveWait, ReceiveEnd,
   ReceiveNoMemory, VirtspaceOpen, VirtspaceProcess, IndexOpen, IndexNotFound, IndexNoMemory,
   AutoindexOpen, AutoindexListed, AutoindexFailed, FileOpen, FileCall, FileOpened, FileInfo,
   FileRead, CallFails, ErrorOpen, ErrorProcess, TransferOpen, TransferProcess, ResponseOpen,
   ResponseProcess, SendAll, SendWait, SendFails, AccesslogOpen, AccesslogCall, FileResized,
   Expired

\* The steps that touch the response.
LEMMA RespStep ==
    ASSUME [Next]_vars
    PROVE  \/ UNCHANGED respVars
           \/ RequestParsed \/ VirtspaceProcess \/ IndexNoMemory \/ AutoindexListed
           \/ AutoindexFailed \/ FileOpen \/ FileOpened \/ FileInfo \/ FileRead \/ FileResized
           \/ ErrorProcess \/ TransferOpen \/ TransferProcess \/ ResponseProcess
           \/ SendAll \/ SendWait \/ PassEnd \/ AccesslogWritten
BY DEF Next, Chain, Rest, vars, PassDone, OpenPlain, ReceivePass, ReceiveWait, ReceiveData,
   ReceiveEnd, ReceiveNoMemory, RequestIncomplete, VirtspaceOpen, IndexOpen, IndexFound,
   IndexNotFound, AutoindexOpen, FileCall, CallFails, ErrorOpen, ResponseOpen, SendFails,
   AccesslogOpen, AccesslogCall, Expired

\* A connection that ends is destroyed with what it holds, and with req.buf if that was
\* being allocated.
Ends == Destroy \/ (Receiving /\ DestroyHolding(held \cup {"req.buf"}))

\* The steps that touch what the connection holds.
LEMMA MemStep ==
    ASSUME [Next]_vars
    PROVE  \/ UNCHANGED memVars
           \/ Ends
           \/ ReceiveWait \/ ReceiveData \/ RequestParsed \/ IndexNotFound
           \/ AutoindexListed \/ AutoindexFailed \/ FileOpen \/ FileOpened \/ FileInfo
           \/ ResponseOpen \/ SendAll \/ SendWait \/ AccesslogOpen
           \/ PassEnd \/ AccesslogWritten
BY DEF Next, Chain, Rest, vars, PassDone, OpenPlain, ReceivePass, ReceiveEnd,
   ReceiveNoMemory, RequestIncomplete, VirtspaceOpen, VirtspaceProcess, IndexOpen, IndexFound,
   IndexNoMemory, AutoindexOpen, FileCall, FileRead, CallFails, ErrorOpen, ErrorProcess,
   TransferOpen, TransferProcess, ResponseProcess, SendFails, AccesslogCall, FileResized,
   Expired, Ends

\* The steps that touch what the peer and the log have seen.
LEMMA PastStep ==
    ASSUME [Next]_vars
    PROVE  \/ UNCHANGED pastVars
           \/ SendAll \/ SendWait \/ PassEnd \/ AccesslogWritten
BY DEF Next, Chain, Rest, vars, PassDone, OpenPlain, ReceivePass, ReceiveWait, ReceiveData,
   ReceiveEnd, ReceiveNoMemory, RequestIncomplete, RequestParsed, VirtspaceOpen,
   VirtspaceProcess, IndexOpen, IndexFound, IndexNotFound, IndexNoMemory, AutoindexOpen,
   AutoindexListed, AutoindexFailed, FileOpen, FileCall, FileOpened, FileInfo, FileRead,
   CallFails, ErrorOpen, ErrorProcess, TransferOpen, TransferProcess, ResponseOpen,
   ResponseProcess, SendFails, AccesslogOpen, AccesslogCall, FileResized, Expired

\* The histories of failures only grow.
LEMMA FaultStep ==
    ASSUME [Next]_vars
    PROVE  /\ faulted' = faulted \/ faulted' = TRUE
           /\ blocked' = blocked \/ blocked' = TRUE
BY DEF Next, Chain, Rest, vars, faultVars, NoFault, OutOfMemory, FileCallFails, PassDone,
   PassEnd, OpenPlain, ReceivePass, ReceiveWait, ReceiveData,
   ReceiveEnd, ReceiveNoMemory, RequestIncomplete, RequestParsed, VirtspaceOpen,
   VirtspaceProcess, IndexOpen, IndexFound, IndexNotFound, IndexNoMemory, AutoindexOpen,
   AutoindexListed, AutoindexFailed, FileOpen, FileCall, FileOpened, FileInfo, FileRead,
   CallFails, ErrorOpen, ErrorProcess, TransferOpen, TransferProcess, ResponseOpen,
   ResponseProcess, SendAll, SendWait, SendFails, AccesslogOpen, AccesslogCall,
   AccesslogWritten, FileResized, Expired

\* At the end of the chain the connection ends, or it starts again.
LEMMA EndStep ==
    ASSUME PassEnd \/ AccesslogWritten
    PROVE  /\ i = AtLog \/ i \notin 1 .. AtLog
           /\ \/ Destroy /\ UNCHANGED <<reqVars, respVars>>
              \/ Reset
           /\ KeepAlive /\ state # "ended" /\ wire' = wire /\ NoFault
           /\ logged' = logged \/ (AccesslogWritten /\ logged' = logged + 1)
<1>1. i = AtLog \/ i \notin 1 .. AtLog
  BY Places DEF PassEnd, AccesslogWritten, CallReturns, Processing, PlacesOf
<1>. QED  BY <1>1 DEF PassEnd, AccesslogWritten, CallReturns, Processing, KeepAlive

-----------------------------------------------------------------------------
(* The types of the data. *)

\* cl_resp_status, field by field.
LEMMA StatusFields ==
    ASSUME NEW r \in Resp, NEW c \in Statuses
    PROVE  /\ Status(r, c) \in Resp
           /\ Status(r, c).code = c /\ Status(r, c).err
           /\ Status(r, c).ka <=> (r.ka /\ c # 400)
           /\ Status(r, c).len = r.len /\ Status(r, c).done = r.done
           /\ Status(r, c).head = r.head /\ Status(r, c).resized = r.resized
<1>1. Status(r, c) \in Resp
  BY DEF Status, Resp
<1>2. /\ Status(r, c).code = c /\ Status(r, c).err
      /\ Status(r, c).ka <=> (r.ka /\ c # 400)
  BY DEF Status, Resp
<1>3. /\ Status(r, c).len = r.len /\ Status(r, c).done = r.done
      /\ Status(r, c).head = r.head /\ Status(r, c).resized = r.resized
  BY DEF Status, Resp
<1>. QED  BY <1>1, <1>2, <1>3

\* The requests stay requests of the peer.
LEMMA ReqTypes ==
    ASSUME TypeInv, [Next]_vars
    PROVE  /\ buf' \in Seq(Requests) /\ sent' \in Seq(Requests) /\ taken' \in Seq(Requests)
           /\ part' \in BOOLEAN /\ unprocessed' \in BOOLEAN /\ req' \in Request
<1>. USE DEF TypeInv, DataTypes
<1>1. CASE UNCHANGED reqVars
  BY <1>1 DEF reqVars
<1>2. CASE ReceiveData
  BY <1>2 DEF ReceiveData
<1>3. CASE RequestIncomplete
  BY <1>3 DEF RequestIncomplete
<1>4. CASE RequestParsed
  <2>1. buf # <<>> /\ Head(buf) \in Requests
    BY <1>4 DEF RequestParsed
  <2>2. Head(buf) \in Request
    BY <2>1, ClientAssumption
  <2>3. /\ buf' = buf /\ part' = part /\ sent' = sent /\ unprocessed' = FALSE
        /\ req' = Head(buf) /\ taken' = Append(taken, Head(buf))
    BY <1>4 DEF RequestParsed
  <2>4. buf' \in Seq(Requests) /\ sent' \in Seq(Requests) /\ taken' \in Seq(Requests)
    BY <2>1, <2>3
  <2>5. part' \in BOOLEAN /\ unprocessed' \in BOOLEAN
    BY <2>3
  <2>. QED  BY <2>2, <2>3, <2>4, <2>5
<1>5. CASE IndexFound
  <2>1. req' \in Request
    BY <1>5 DEF IndexFound, Request, Targets
  <2>. QED  BY <1>5, <2>1 DEF IndexFound
<1>6. CASE PassEnd \/ AccesslogWritten
  <2>1. CASE UNCHANGED <<reqVars, respVars>>
    BY <2>1 DEF reqVars
  <2>2. CASE Reset
    <3>1. i > 2 
      BY <1>6, EndStep, Places DEF ChainTypes, AtLog
    <3>2. "request" \in done 
      <4>1. 2 \in 1 .. AtLog /\ Filters[2] = "request" /\ ~(i <= 2)
        BY <3>1, Places DEF AtLog, PlacesOf, ChainTypes
      <4>. QED  BY <4>1 DEF ChainInv, InOrder, Once
    <3>3. buf # <<>>
      BY <3>2 DEF ChainInv
    <3>4. NoReq \in Request
      BY DEF Request, NoReq, Methods, Targets
    <3>. QED  BY <2>2, <3>3, <3>4 DEF Reset, ResetRest
  <2>. QED  BY <1>6, <2>1, <2>2, EndStep
<1>. QED  BY <1>1, <1>2, <1>3, <1>4, <1>5, <1>6, ReqStep

\* What f_info makes of the response: another status, or a length and the file to be read.
Sized(n) == [resp EXCEPT !.code = 200, !.len = n]
SizedOnly(n) == [resp EXCEPT !.code = 200, !.len = n, !.done = TRUE]
InfoResponses ==
    {Status(resp, c) : c \in {301, 304, 403, 500}} \cup UNION {{Sized(n), SizedOnly(n)} : n \in Nat}

LEMMA InfoAnswers ==
    ASSUME FileInfo
    PROVE  /\ resp' \in InfoResponses
           /\ file' = file \/ \E n \in Nat : file' = [state |-> 2, left |-> n]
<1>1. ASSUME NEW c \in {301, 304, 403, 500}, FileDone(Status(resp, c))
      PROVE  resp' \in InfoResponses /\ file' = file
  BY <1>1 DEF FileDone, InfoResponses
<1>2. ASSUME NEW n \in 0 .. MaxSize, FileDone(SizedOnly(n))
      PROVE  resp' \in InfoResponses /\ file' = file
  <2>1. n \in Nat
    BY ClientAssumption
  <2>. QED  BY <1>2, <2>1 DEF FileDone, InfoResponses
<1>3. ASSUME NEW n \in 0 .. MaxSize, resp' = Sized(n), file' = [state |-> 2, left |-> n]
      PROVE  resp' \in InfoResponses /\ \E m \in Nat : file' = [state |-> 2, left |-> m]
  <2>1. n \in Nat
    BY ClientAssumption
  <2>. QED  BY <1>3, <2>1 DEF InfoResponses
<1>4. CASE Redirected \/ NotModified
  <2>1. \E c \in {301, 304, 403, 500} : FileDone(Status(resp, c))
    BY <1>4 DEF Redirected, NotModified
  <2>. QED  BY <1>1, <2>1
<1>5. CASE FileDone(Status(resp, 403)) \/ FileDone(Status(resp, 500))
  BY <1>1, <1>5
<1>6. ASSUME NEW n \in 0 .. MaxSize,
             IF resp.head THEN FileDone(SizedOnly(n))
                          ELSE resp' = Sized(n) /\ file' = [state |-> 2, left |-> n]
      PROVE  /\ resp' \in InfoResponses
             /\ file' = file \/ \E m \in Nat : file' = [state |-> 2, left |-> m]
  BY <1>2, <1>3, <1>6
<1>7. \/ Redirected \/ NotModified
      \/ FileDone(Status(resp, 403)) \/ FileDone(Status(resp, 500))
      \/ \E n \in 0 .. MaxSize :
            IF resp.head THEN FileDone(SizedOnly(n))
                         ELSE resp' = Sized(n) /\ file' = [state |-> 2, left |-> n]
  BY Zenon DEF FileInfo, Sized, SizedOnly
<1>. QED  BY <1>4, <1>5, <1>6, <1>7

\* They are responses, and none of them keeps a connection that was not kept.
LEMMA AnswersFit ==
    ASSUME resp \in Resp, NEW r \in InfoResponses
    PROVE  r \in Resp /\ (r.ka => resp.ka)
<1>1. \A c \in {301, 304, 403, 500} :
        Status(resp, c) \in Resp /\ (Status(resp, c).ka => resp.ka)
  BY StatusFields DEF Statuses
<1>2. 200 \in Statuses /\ Nat \subseteq Lengths
  BY DEF Statuses, Lengths
<1>3. ASSUME NEW n \in Nat PROVE Sized(n) \in Resp /\ (Sized(n).ka => resp.ka)
  BY <1>2 DEF Sized, Resp
<1>4. ASSUME NEW n \in Nat PROVE SizedOnly(n) \in Resp /\ (SizedOnly(n).ka => resp.ka)
  BY <1>2 DEF SizedOnly, Resp
<1>. QED  BY <1>1, <1>3, <1>4 DEF InfoResponses

\* The response keeps its type.
LEMMA RespTypes ==
    ASSUME TypeInv, [Next]_vars
    PROVE  resp' \in Resp /\ contLen' \in Nat
           /\ file' \in [state : 0 .. 2, left : Nat] /\ iov' \in [hdr : BOOLEAN, body : Nat]
<1>0. /\ contLen \in Nat /\ input \in Nat /\ resp \in Resp /\ req' \in Request
      /\ file \in [state : 0 .. 2, left : Nat] /\ iov \in [hdr : BOOLEAN, body : Nat]
  BY ReqTypes DEF TypeInv, DataTypes, ChainTypes
<1>1. CASE UNCHANGED respVars
  BY <1>0, <1>1 DEF respVars
<1>2. CASE RequestParsed
  <2>. DEFINE r == [resp EXCEPT !.ka = req'.ka]
  <2>1. UNCHANGED <<file, contLen, iov>>
    BY <1>2 DEF RequestParsed
  <2>2. resp' = Status(resp, 400) \/ resp' = r \/ resp' = Status(r, 500)
    BY <1>2 DEF RequestParsed
  <2>3. r \in Resp
    BY <1>0 DEF Resp, Request
  <2>4. 400 \in Statuses /\ 500 \in Statuses
    BY DEF Statuses
  <2>. HIDE DEF r
  <2>. QED  BY <1>0, <2>1, <2>2, <2>3, <2>4, StatusFields
<1>3. CASE VirtspaceProcess
  <2>1. UNCHANGED <<file, contLen, iov>>
    BY <1>3 DEF VirtspaceProcess
  <2>2. PICK n \in Nat : resp' = [resp EXCEPT !.code = 200, !.len = n, !.done = TRUE]
    BY <1>3 DEF VirtspaceProcess
  <2>3. 200 \in Statuses
    BY DEF Statuses
  <2>4. resp' \in Resp
    BY <1>0, <2>2, <2>3 DEF Resp, Lengths
  <2>. QED  BY <1>0, <2>1, <2>4
<1>4. CASE IndexNoMemory
  BY <1>0, <1>4, StatusFields DEF IndexNoMemory, Statuses
<1>5. CASE AutoindexListed
  <2>1. UNCHANGED <<file, contLen, iov>>
    BY <1>5 DEF AutoindexListed
  <2>2. resp' = [resp EXCEPT !.code = 200, !.len = 1, !.done = TRUE]
    BY <1>0, <1>5 DEF AutoindexListed
  <2>3. 200 \in Statuses
    BY DEF Statuses
  <2>4. resp' \in Resp
    BY <1>0, <2>2, <2>3 DEF Resp, Lengths
  <2>. QED  BY <1>0, <2>1, <2>4
<1>6. CASE AutoindexFailed
  BY <1>0, <1>6, StatusFields DEF AutoindexFailed, Statuses
<1>7. CASE FileOpen
  <2>. DEFINE r == [resp EXCEPT !.head = req.method = "HEAD"]
  <2>1. \/ resp' = resp \/ resp' = Status(resp, 405)
        \/ resp' = r \/ resp' = Status(r, 500)
    BY <1>0, <1>7 DEF FileOpen
  <2>2. r \in Resp
    BY <1>0 DEF Resp
  <2>. HIDE DEF r
  <2>3. resp' \in Resp
    BY <1>0, <2>1, <2>2, StatusFields DEF Statuses
  <2>. QED  BY <1>0, <1>7, <2>3 DEF FileOpen
<1>8. CASE FileOpened
  BY <1>0, <1>8, StatusFields DEF FileOpened, FileDone, Statuses
<1>9. CASE FileInfo
  <2>1. UNCHANGED <<contLen, iov>>
    BY <1>9 DEF FileInfo
  <2>2. resp' \in Resp
    BY <1>0, <1>9, InfoAnswers, AnswersFit
  <2>3. \A n \in Nat : [state |-> 2, left |-> n] \in [state : 0 .. 2, left : Nat]
    OBVIOUS
  <2>4. file' \in [state : 0 .. 2, left : Nat]
    BY <1>0, <1>9, <2>3, InfoAnswers
  <2>. QED  BY <1>0, <2>1, <2>2, <2>4
<1>10. CASE FileRead
  <2>1. resp' \in Resp
    BY <1>0, <1>10 DEF FileRead, FileDone, Resp
  <2>. QED  BY <1>0, <1>10, <2>1 DEF FileRead, FileDone
<1>11. CASE FileResized
  <2>1. resp' \in Resp
    BY <1>0, <1>11 DEF FileResized, Resp
  <2>2. PICK n \in Nat : file' = [file EXCEPT !.left = n]
    BY <1>11 DEF FileResized
  <2>. QED  BY <1>0, <1>11, <2>1, <2>2 DEF FileResized
<1>12. CASE ErrorProcess
  BY <1>0, <1>12 DEF ErrorProcess, Resp, Lengths
<1>13. CASE TransferOpen
  BY <1>0, <1>13 DEF TransferOpen, Resp, Lengths
<1>14. CASE TransferProcess
  BY <1>0, <1>14 DEF TransferProcess
<1>15. CASE ResponseProcess
  BY <1>0, <1>15 DEF ResponseProcess, Resp
<1>16. CASE SendAll
  BY <1>0, <1>16 DEF SendAll, NoIov
<1>17. CASE SendWait
  <2>1. Pending \in [hdr : BOOLEAN, body : Nat]
    BY <1>0 DEF Pending
  <2>. QED  BY <1>0, <1>17, <2>1 DEF SendWait
<1>18. CASE PassEnd \/ AccesslogWritten
  <2>1. CASE UNCHANGED <<reqVars, respVars>>
    BY <1>0, <2>1 DEF respVars
  <2>2. CASE Reset
    BY <1>0, <2>2 DEF Reset, ResetRest, NoResp, NoFile, NoIov, Resp, Statuses, Lengths
  <2>. QED  BY <1>0, <1>18, <2>1, <2>2, EndStep
<1>. QED  BY <1>0, <1>1, <1>2, <1>3, <1>4, <1>5, <1>6, <1>7, <1>8, <1>9, <1>10, <1>11, <1>12, <1>13,
            <1>14, <1>15, <1>16, <1>17, <1>18, RespStep

\* What the connection holds is something the filters release.
LEMMA MemTypes ==
    ASSUME TypeInv, [Next]_vars
    PROVE  held' \subseteq Resources /\ leaked' \subseteq Resources
<1>. USE DEF TypeInv, DataTypes
<1>1. CASE UNCHANGED memVars
  BY <1>1 DEF memVars
<1>2. CASE Ends
  BY <1>2, ResourceNames DEF Ends, Destroy, DestroyHolding
<1>3. CASE \/ ReceiveWait \/ ReceiveData \/ RequestParsed \/ IndexNotFound \/ AutoindexListed
           \/ AutoindexFailed \/ FileOpen \/ FileOpened
  BY <1>3, ResourceNames DEF ReceiveWait, ReceiveData, RequestParsed, IndexNotFound,
     AutoindexListed, AutoindexFailed, FileOpen, FileOpened
<1>4. CASE FileInfo \/ ResponseOpen \/ SendAll \/ SendWait \/ AccesslogOpen
  BY <1>4, ResourceNames DEF FileInfo, Redirected, NotModified, ResponseOpen, SendAll, SendWait,
     AccesslogOpen
<1>5. CASE PassEnd \/ AccesslogWritten
  BY <1>5, EndStep DEF Destroy, DestroyHolding, Reset, ResetRest
<1>. QED  BY <1>1, <1>2, <1>3, <1>4, <1>5, MemStep

\* What a send appends to: the responses, with the header if it is pending.
WithHeader(v) == IF v.hdr THEN Append(wire, Header) ELSE wire

\* What the peer receives is counted as the last response's.
LEMMA ReceivedLast ==
    ASSUME TypeInv, NEW v \in [hdr : BOOLEAN, body : Nat]
    PROVE  LET w == WithHeader(v)
               last == [w[Len(w)] EXCEPT !.body = @ + v.body, !.resized = @ \/ resp.resized]
           IN  /\ w \in Seq(Response)
               /\ w = <<>> => Received(v) = w
               /\ w # <<>> => /\ Received(v) = [w EXCEPT ![Len(w)] = last]
                             /\ w[Len(w)] \in Response /\ last \in Response
<1>. DEFINE w == WithHeader(v)
            last == [w[Len(w)] EXCEPT !.body = @ + v.body, !.resized = @ \/ resp.resized]
<1>1. Header \in Response /\ resp.resized \in BOOLEAN /\ v.body \in Nat
  BY DEF TypeInv, DataTypes, Header, Resp, Response
<1>2. w \in Seq(Response)
  BY <1>1 DEF TypeInv, DataTypes, WithHeader
<1>3. Received(v) = IF w = <<>> THEN w
                    ELSE [w EXCEPT ![Len(w)].body = @ + v.body,
                                   ![Len(w)].resized = @ \/ resp.resized]
  BY DEF Received, WithHeader
<1>4. CASE w # <<>>
  <2>1. Len(w) \in 1 .. Len(w) /\ w[Len(w)] \in Response
    BY <1>2, <1>4
  <2>2. w[Len(w)].body + v.body \in Nat /\ (w[Len(w)].resized \/ resp.resized) \in BOOLEAN
    BY <1>1, <2>1 DEF Response
  <2>3. last \in Response
    BY <2>1, <2>2 DEF Response
  <2>4. [w EXCEPT ![Len(w)].body = @ + v.body, ![Len(w)].resized = @ \/ resp.resized]
           = [w EXCEPT ![Len(w)] = last]
    BY <1>1, <1>2, <1>4
  <2>. QED  BY <1>2, <1>3, <1>4, <2>1, <2>3, <2>4
<1>. QED  BY <1>2, <1>3, <1>4

\* What the peer receives are responses, and their number grows with the header.
LEMMA ReceivedType ==
    ASSUME TypeInv, NEW v \in [hdr : BOOLEAN, body : Nat]
    PROVE  /\ Received(v) \in Seq(Response)
           /\ Len(Received(v)) = IF v.hdr THEN Len(wire) + 1 ELSE Len(wire)
<1>. DEFINE w == WithHeader(v)
            last == [w[Len(w)] EXCEPT !.body = @ + v.body, !.resized = @ \/ resp.resized]
<1>1. Len(w) = IF v.hdr THEN Len(wire) + 1 ELSE Len(wire)
  BY DEF WithHeader, TypeInv, DataTypes
<1>2. /\ w \in Seq(Response)
      /\ w = <<>> => Received(v) = w
      /\ w # <<>> => Received(v) = [w EXCEPT ![Len(w)] = last] /\ last \in Response
  BY ReceivedLast
<1>. HIDE DEF last
<1>. QED  BY <1>1, <1>2


\* The response that a send continues.
Continued(v) == IF v.hdr THEN Header ELSE wire[Len(wire)]

\* What the peer receives, field by field.
LEMMA ReceivedFields ==
    ASSUME TypeInv, NEW v \in [hdr : BOOLEAN, body : Nat],
           NEW w, w = Received(v), NEW n, n = Len(w)
    PROVE  /\ w \in Seq(Response) /\ (n = IF v.hdr THEN Len(wire) + 1 ELSE Len(wire))
           /\ \A k \in 1 .. n - 1 : w[k] = wire[k]
           /\ n > 0 =>
                      /\ Continued(v) \in Response
                      /\ w[n].code = Continued(v).code /\ w[n].len = Continued(v).len
                      /\ w[n].close <=> Continued(v).close
                      /\ w[n].body = Continued(v).body + v.body
                      /\ w[n].resized <=> (Continued(v).resized \/ resp.resized)
<1>. DEFINE u == WithHeader(v)
            last == [u[Len(u)] EXCEPT !.body = @ + v.body, !.resized = @ \/ resp.resized]
            old == Continued(v)
<1>1. w \in Seq(Response) /\ n = IF v.hdr THEN Len(wire) + 1 ELSE Len(wire)
  BY ReceivedType
<1>2. /\ u \in Seq(Response)
      /\ u = <<>> => w = u
      /\ u # <<>> => w = [u EXCEPT ![Len(u)] = last] /\ u[Len(u)] \in Response /\ last \in Response
  BY ReceivedLast
<1>3. CASE u = <<>>
  <2>1. n = 0
    BY <1>2, <1>3
  <2>. QED  BY <1>1, <2>1
<1>4. CASE u # <<>>
  <2>0. wire \in Seq(Response)
    BY DEF TypeInv, DataTypes
  <2>1. Len(u) = n /\ n > 0 /\ n \in 1 .. n /\ n \in DOMAIN u
    BY <1>1, <1>2, <1>4, <2>0 DEF WithHeader
  <2>2. \A k \in 1 .. n - 1 : u[k] = wire[k]
    BY <1>1, <2>0, <2>1 DEF WithHeader
  <2>3. u[n] = old
    BY <1>1, <2>0, <2>1 DEF WithHeader, Continued
  <2>4. w[n] = last /\ \A k \in 1 .. n - 1 : w[k] = u[k]
    <3>. HIDE DEF last, u
    <3>1. w = [u EXCEPT ![n] = last]
      BY <1>2, <1>4, <2>1
    <3>2. DOMAIN u = 1 .. n
      BY <1>2, <2>1
    <3>. QED  BY <2>1, <3>1, <3>2
  <2>5. last = [old EXCEPT !.body = @ + v.body, !.resized = @ \/ resp.resized]
    BY <2>1, <2>3
  <2>6. old \in Response
    BY <1>2, <1>4, <2>1, <2>3
  <2>7. /\ w[n].code = old.code /\ w[n].len = old.len
        /\ w[n].close <=> old.close
        /\ w[n].body = old.body + v.body
        /\ w[n].resized <=> (old.resized \/ resp.resized)
    <3>. HIDE DEF last, old, u
    <3>. QED  BY <2>4, <2>5, <2>6 DEF Response
  <2>8. w \in Seq(Response) /\ (n = IF v.hdr THEN Len(wire) + 1 ELSE Len(wire))
        /\ \A k \in 1 .. n - 1 : w[k] = wire[k]
    BY <1>1, <2>2, <2>4
  <2>. QED  BY <2>6, <2>7, <2>8
<1>. QED  BY <1>3, <1>4
\* The data keeps its types.
LEMMA DataStep ==
    ASSUME TypeInv, [Next]_vars
    PROVE  DataTypes'
<1>1. keepAliveN' \in 0 .. KeepAliveMod - 1
  <2>1. keepAliveN' = keepAliveN \/ keepAliveN' = (keepAliveN + 1) % KeepAliveMod
    BY PastStep, EndStep DEF pastVars, SendAll, SendWait, KeepAlive
  <2>2. keepAliveN \in 0 .. KeepAliveMod - 1 /\ KeepAliveMod \in Nat \ {0}
    BY ClientAssumption DEF TypeInv, DataTypes
  <2>. QED  BY <2>1, <2>2
<1>2. logged' \in Nat
  <2>1. logged' = logged \/ logged' = logged + 1
    BY PastStep, EndStep DEF pastVars, SendAll, SendWait
  <2>. QED  BY <2>1 DEF TypeInv, DataTypes
<1>3. wire' \in Seq(Response)
  <2>1. Pending \in [hdr : BOOLEAN, body : Nat]
    BY DEF Pending, TypeInv, DataTypes, ChainTypes
  <2>2. [Pending EXCEPT !.body = 0] \in [hdr : BOOLEAN, body : Nat]
    BY <2>1
  <2>3. wire' = wire \/ wire' = Received(Pending) \/ wire' = Received([Pending EXCEPT !.body = 0])
    BY PastStep, EndStep DEF pastVars, SendAll, SendWait
  <2>. QED  BY <2>1, <2>2, <2>3, ReceivedType DEF TypeInv, DataTypes
<1>4. faulted' \in BOOLEAN /\ blocked' \in BOOLEAN
  BY FaultStep DEF TypeInv, DataTypes
<1>. QED  BY <1>1, <1>2, <1>3, <1>4, ReqTypes, RespTypes, MemTypes DEF DataTypes

\* The first state has the types, and so has every state after it.
LEMMA TypeInit == Init => TypeInv
<1>. SUFFICES ASSUME Init PROVE TypeInv
  OBVIOUS
<1>1. ChainTypes
  <2>1. 1 \in 1 .. AtLog
    BY Places DEF AtLog
  <2>. QED  BY <2>1 DEF Init, ChainTypes
<1>2. DataTypes
  <2>1. NoReq \in Request /\ NoResp \in Resp /\ NoFile \in [state : 0 .. 2, left : Nat]
        /\ NoIov \in [hdr : BOOLEAN, body : Nat]
    BY DEF NoReq, NoResp, NoFile, NoIov, Request, Resp, Statuses, Lengths, Methods, Targets
  <2>2. keepAliveN \in 0 .. KeepAliveMod - 1
    BY ClientAssumption DEF Init
  <2>3. buf \in Seq(Requests) /\ sent \in Seq(Requests) /\ taken \in Seq(Requests)
        /\ wire \in Seq(Response)
    BY DEF Init
  <2>. QED  BY <2>1, <2>2, <2>3 DEF Init, DataTypes
<1>3. ChainInv
  <2>1. Reached /\ TurnsBack /\ InOrder
    BY DEF Init, Reached, TurnsBack, InOrder, Begun, NoResp
  <2>. QED  BY <2>1 DEF Init, ChainInv
<1>. QED  BY <1>1, <1>2, <1>3 DEF TypeInv

\* Every step keeps the types.
LEMMA TypeStep == TypeInv /\ [Next]_vars => TypeInv'
BY ChainStep, DataStep DEF TypeInv

(***************************************************************************)
(* Every variable of a connection keeps its type, and the driver's         *)
(* assertion never fails: whatever fails and whichever filters are done,   *)
(* the chain never goes BACK from its first filter, and no filter passes   *)
(* anything on from the last.                                              *)
(***************************************************************************)
THEOREM ClientTyped == Spec => []ClientTypeOK
<1>1. TypeInv => ClientTypeOK
  BY TypeHalves DEF TypeInv
<1>. QED  BY <1>1, TypeInit, TypeStep, PTL DEF Spec

-----------------------------------------------------------------------------
(* Timers and the waits they bound. *)

Timers == {"recv.timer", "send.timer"}

WaitInv ==
    /\ state = "recv" => i = 1
    /\ state = "send" => i = AtSend
    /\ state = "kcall" => i \in {AtFile, AtLog}
    /\ "recv.timer" \in held <=> state = "recv"
    /\ "send.timer" \in held <=> state = "send"

\* A step of a chain that waits for no socket, to a state where it waits for none.
Working ==
    /\ state \in {"run", "kcall"} /\ state' \in {"run", "kcall", "assert"}
    /\ state' = "kcall" => i' = i /\ Filters[i] \in {"file", "accesslog"}
    /\ held' \cap Timers = held \cap Timers

\* The steps that may end a connection before the end of the chain.
Stops ==
    \/ ReceiveEnd \/ ReceiveNoMemory \/ RequestIncomplete \/ CallFails \/ SendFails
    \/ Expired

\* How a step can touch the wait and the timers.
LEMMA WaitStep ==
    ASSUME [Next]_vars
    PROVE  \/ UNCHANGED <<state, i, held>>
           \/ Working
           \/ Ends /\ Stops
           \/ ReceiveWait \/ ReceiveData \/ SendAll \/ SendWait
           \/ PassEnd \/ AccesslogWritten
<1>1. CASE \/ PassDone \/ OpenPlain \/ ReceivePass
           \/ RequestIncomplete \/ RequestParsed
           \/ VirtspaceOpen \/ VirtspaceProcess
           \/ IndexOpen \/ IndexFound \/ IndexNotFound \/ IndexNoMemory
           \/ AutoindexOpen \/ AutoindexListed \/ AutoindexFailed
  BY <1>1 DEF PassDone, OpenPlain, ReceivePass, RequestIncomplete, RequestParsed, VirtspaceOpen,
     VirtspaceProcess, IndexOpen, IndexFound, IndexNotFound, IndexNoMemory, AutoindexOpen,
     AutoindexListed, AutoindexFailed, Working, Timers, Ends, Stops, memVars, Opening, Processing,
     OpenOk, OpenSkip, Forward, Backward
<1>2. CASE \/ ErrorOpen \/ ErrorProcess \/ TransferOpen \/ TransferProcess
           \/ ResponseOpen \/ ResponseProcess \/ AccesslogOpen \/ AccesslogCall
  BY <1>2 DEF ErrorOpen, ErrorProcess, TransferOpen, TransferProcess, ResponseOpen,
     ResponseProcess, AccesslogOpen, AccesslogCall, CallReturns, Suspend, Working,
     Timers, memVars, Opening, Processing, OpenOk, OpenSkip, Forward, Backward
<1>4. CASE FileOpen \/ FileCall \/ FileOpened \/ FileRead
  BY <1>4 DEF FileOpen, FileCall, FileOpened, FileRead, CallReturns, FileDone, NextCall, Suspend,
     Working, Timers, memVars, Opening, Processing, OpenOk, OpenSkip, Forward
<1>6. CASE FileInfo
  BY <1>6 DEF FileInfo, CallReturns, FileDone, Redirected, NotModified, NextCall, Working, Timers,
     Processing, Forward
<1>3. CASE ReceiveEnd \/ ReceiveNoMemory \/ CallFails \/ SendFails \/ Expired
  BY <1>3 DEF ReceiveEnd, ReceiveNoMemory, CallFails, SendFails, Expired, Ends, Stops
<1>5. CASE FileResized \/ Rest \/ UNCHANGED vars
  BY <1>5 DEF FileResized, Rest, vars, chainVars, memVars
<1>. QED  BY <1>1, <1>2, <1>3, <1>4, <1>5, <1>6 DEF Next, Chain

\* Every step keeps each timer with its wait.
LEMMA WaitKept == TypeInv /\ WaitInv /\ [Next]_vars => WaitInv'
<1>. SUFFICES ASSUME TypeInv, WaitInv, [Next]_vars PROVE WaitInv'
  OBVIOUS
<1>0. state' \in {"run", "recv", "send", "kcall", "ended"} /\ i \in 1 .. AtLog
  BY TypeStep DEF TypeInv, ChainTypes
<1>1. CASE UNCHANGED <<state, i, held>>
  BY <1>1 DEF WaitInv
<1>2. CASE Working
  <2>1. state' = "kcall" => i' \in {AtFile, AtLog}
    BY <1>0, <1>2, Places DEF Working, PlacesOf
  <2>2. "recv.timer" \notin held' /\ "send.timer" \notin held'
    BY <1>2 DEF Working, Timers, WaitInv
  <2>. QED  BY <1>0, <1>2, <2>1, <2>2 DEF Working, WaitInv
<1>3. CASE Ends
  BY <1>3 DEF Ends, Destroy, DestroyHolding, WaitInv
<1>4. CASE ReceiveWait
  <2>1. i' = i /\ i = 1 /\ state = "run" /\ state' = "recv"
    BY <1>0, <1>4, Places DEF ReceiveWait, Receiving, Processing, Suspend, PlacesOf
  <2>. QED  BY <1>4, <2>1 DEF ReceiveWait, WaitInv
<1>5. CASE ReceiveData
  <2>1. state \in {"run", "recv"} /\ state' = "run"
    BY <1>5 DEF ReceiveData, Receiving, Processing, Forward
  <2>. QED  BY <1>5, <2>1 DEF ReceiveData, WaitInv
<1>6. CASE SendAll
  <2>1. state \in {"run", "send"} /\ state' = "run"
    BY <1>0, <1>6 DEF SendAll, Sending, Processing, Forward, Backward
  <2>. QED  BY <1>6, <2>1 DEF SendAll, WaitInv
<1>7. CASE SendWait
  <2>1. i' = i /\ i = AtSend /\ state \in {"run", "send"} /\ state' = "send"
    BY <1>0, <1>7, Places DEF SendWait, Sending, Processing, PlacesOf
  <2>. QED  BY <1>7, <2>1 DEF SendWait, WaitInv
<1>8. CASE PassEnd \/ AccesslogWritten
  <2>1. CASE Destroy
    BY <2>1 DEF Destroy, DestroyHolding, WaitInv
  <2>2. CASE Reset
    BY <2>2 DEF Reset, ResetRest, WaitInv
  <2>. QED  BY <1>8, <2>1, <2>2, EndStep
<1>. QED  BY <1>1, <1>2, <1>3, <1>4, <1>5, <1>6, <1>7, <1>8, WaitStep

\* The two invariants hold together.
LEMMA WaitAlways == Spec => [](TypeInv /\ WaitInv)
<1>1. Init => WaitInv
  BY DEF Init, WaitInv
<1>. QED  BY <1>1, TypeInit, TypeStep, WaitKept, PTL DEF Spec

(***************************************************************************)
(* Exactly one wait goes with each timer: the receive timer runs while the *)
(* chain waits for data, the send timer while it waits to send, and none   *)
(* while a kernel call is in flight, so no timer ends such a client.       *)
(***************************************************************************)
THEOREM TimersFit == Spec => []TimersFitWaits
<1>1. WaitInv => TimersFitWaits
  BY DEF WaitInv, TimersFitWaits
<1>. QED  BY <1>1, WaitAlways, PTL

-----------------------------------------------------------------------------
(* Which step marks a filter as opened or done. *)

\* Marks are only taken away at the end of the chain.
LEMMA MarkStep ==
    ASSUME [Next]_vars
    PROVE  \/ PassEnd \/ AccesslogWritten
           \/ /\ opened \subseteq opened' /\ done \subseteq done'
              /\ "request" \in done' \ done => RequestParsed
              /\ "virtspace" \in done' \ done => VirtspaceOpen \/ VirtspaceProcess
              /\ "index" \in done' \ done =>
                     IndexOpen \/ IndexFound \/ IndexNotFound \/ IndexNoMemory
              /\ "autoindex" \in done' \ done =>
                     AutoindexOpen \/ AutoindexListed \/ AutoindexFailed
              /\ "file" \in done' \ done => FileOpen \/ FileOpened \/ FileInfo \/ FileRead
              /\ "transfer" \in done' \ done => TransferOpen \/ TransferProcess
              /\ "response" \in done' \ done => ResponseOpen \/ ResponseProcess
              /\ "send" \in done' \ done => SendAll
              /\ "virtspace" \in opened' \ opened => VirtspaceOpen
              /\ "index" \in opened' \ opened => IndexOpen
              /\ "autoindex" \in opened' \ opened => AutoindexOpen
              /\ "file" \in opened' \ opened => FileOpen
              /\ "transfer" \in opened' \ opened => TransferOpen
              /\ "response" \in opened' \ opened => ResponseOpen
<1>1. CASE \/ PassDone \/ OpenPlain \/ ReceivePass \/ ReceiveWait \/ ReceiveData
           \/ RequestIncomplete \/ RequestParsed
           \/ VirtspaceOpen \/ VirtspaceProcess
           \/ IndexOpen \/ IndexFound \/ IndexNotFound \/ IndexNoMemory
           \/ AutoindexOpen \/ AutoindexListed \/ AutoindexFailed
  BY <1>1 DEF PassDone, OpenPlain, ReceivePass, ReceiveWait, ReceiveData, RequestIncomplete,
     VirtspaceOpen, VirtspaceProcess, IndexOpen, IndexFound, IndexNotFound, IndexNoMemory,
     AutoindexOpen, AutoindexListed, AutoindexFailed, Destroy, DestroyHolding, Suspend,
     OpenOk, OpenSkip, Forward, Backward, RequestParsed
<1>2. CASE \/ ErrorOpen \/ ErrorProcess \/ TransferOpen \/ TransferProcess
           \/ ResponseOpen \/ ResponseProcess \/ SendAll \/ SendWait
           \/ AccesslogOpen \/ AccesslogCall
  BY <1>2 DEF ErrorOpen, ErrorProcess, TransferOpen, TransferProcess, ResponseOpen,
     ResponseProcess, SendAll, SendWait, AccesslogOpen, AccesslogCall, Suspend, OpenOk,
     OpenSkip, Forward, Backward
<1>3. CASE FileOpen
  BY <1>3 DEF FileOpen, OpenOk, OpenSkip
<1>4. CASE FileCall \/ FileOpened
  BY <1>4 DEF FileCall, FileOpened, FileDone, NextCall, Suspend, Forward
<1>5. CASE FileInfo \/ FileRead
  <2>1. opened' = opened /\ (done' = done \/ done' = done \cup {"file"})
    BY <1>5 DEF FileInfo, FileRead, FileDone, Redirected, NotModified, NextCall, Forward
  <2>. QED  BY <1>5, <2>1
<1>6. CASE ReceiveEnd \/ ReceiveNoMemory \/ CallFails \/ SendFails \/ Expired
  BY <1>6 DEF ReceiveEnd, ReceiveNoMemory, CallFails, SendFails, Expired, Destroy,
     DestroyHolding
<1>7. CASE FileResized \/ Rest \/ UNCHANGED vars
  BY <1>7 DEF FileResized, Rest, vars, chainVars
<1>. QED  BY <1>1, <1>2, <1>3, <1>4, <1>5, <1>6, <1>7 DEF Next, Chain

\* At the end of the chain the request is there, and everything before it is done.
LEMMA AtEnd ==
    ASSUME TypeInv, PassEnd \/ AccesslogWritten
    PROVE  /\ i = AtLog /\ buf # <<>>
           /\ "request" \in done /\ "response" \in done /\ "send" \in done
<1>1. i = AtLog /\ i \in 1 .. AtLog
  BY EndStep DEF TypeInv, ChainTypes
<1>2. \A k \in 1 .. AtLog : k < AtLog /\ Filters[k] \in Once => Filters[k] \in done
  BY <1>1, Places DEF TypeInv, ChainInv, InOrder, AtLog
<1>3. /\ 2 \in 1 .. AtLog /\ Filters[2] = "request" /\ 2 < AtLog
      /\ AtResponse \in 1 .. AtLog /\ Filters[AtResponse] = "response" /\ AtResponse < AtLog
      /\ AtSend \in 1 .. AtLog /\ Filters[AtSend] = "send" /\ AtSend < AtLog
  BY Places DEF AtLog, AtResponse, AtSend, PlacesOf
<1>4. "request" \in done /\ "response" \in done /\ "send" \in done
  BY <1>2, <1>3 DEF Once
<1>. QED  BY <1>1, <1>4 DEF TypeInv, ChainInv

-----------------------------------------------------------------------------
(* Pipelining. *)

\* Taking the head of what is left leaves the whole unchanged.
LEMMA TakeHead ==
    ASSUME NEW S, NEW t \in Seq(S), NEW b \in Seq(S), b # <<>>
    PROVE  Append(t, Head(b)) \o Tail(b) = t \o b
<1>1. Head(b) \in S /\ Tail(b) \in Seq(S)
  BY HeadTailProperties
<1>2. Append(t, Head(b)) = t \o <<Head(b)>>
  BY <1>1, AppendIsConcat
<1>3. (t \o <<Head(b)>>) \o Tail(b) = t \o (<<Head(b)>> \o Tail(b))
  BY <1>1, ConcatAssociative
<1>4. <<Head(b)>> \o Tail(b) = b
  BY <1>1
<1>. QED  BY <1>2, <1>3, <1>4

\* What is added at the end stays behind the head.
LEMMA TailGrows ==
    ASSUME NEW S, NEW b \in Seq(S), NEW r \in Seq(S), b # <<>>
    PROVE  Tail(b \o r) = Tail(b) \o r
OBVIOUS

\* Every step keeps the requests in order.
LEMMA PipelineKept == TypeInv /\ PipelineIntact /\ [Next]_vars => PipelineIntact'
<1>. SUFFICES ASSUME TypeInv, PipelineIntact, [Next]_vars PROVE PipelineIntact'
  OBVIOUS
<1>0. buf \in Seq(Requests) /\ sent \in Seq(Requests) /\ taken \in Seq(Requests)
  BY DEF TypeInv, DataTypes
<1>1. CASE PassEnd \/ AccesslogWritten
  <2>1. CASE Destroy /\ UNCHANGED <<reqVars, respVars>>
    BY <2>1 DEF Destroy, DestroyHolding, reqVars, PipelineIntact
  <2>2. CASE Reset
    BY <1>1, <2>2, AtEnd DEF Reset, ResetRest, PipelineIntact
  <2>. QED  BY <1>1, <2>1, <2>2, EndStep
<1>2. CASE RequestParsed
  <2>1. /\ sent' = sent /\ buf' = buf /\ taken' = Append(taken, Head(buf)) /\ buf # <<>>
        /\ "request" \notin done /\ "request" \in done'
    BY <1>2 DEF RequestParsed, Processing, Forward
  <2>2. Append(taken, Head(buf)) \o Tail(buf) = taken \o buf
    BY <1>0, <2>1, TakeHead
  <2>. QED  BY <2>1, <2>2 DEF PipelineIntact
<1>3. CASE ReceiveData
  <2>1. PICK n \in 0 .. 2 :
            \E r \in [1 .. n -> Requests] : buf' = buf \o r /\ sent' = sent \o r
    BY <1>3 DEF ReceiveData
  <2>2. PICK rs \in [1 .. n -> Requests] : buf' = buf \o rs /\ sent' = sent \o rs
    BY <2>1
  <2>3. rs \in Seq(Requests)
    OBVIOUS
  <2>4. done' = done /\ taken' = taken
    BY <1>3 DEF ReceiveData, Forward
  <2>. DEFINE left == IF "request" \in done THEN Tail(buf) ELSE buf
  <2>5. left \in Seq(Requests) /\ (IF "request" \in done' THEN Tail(buf') ELSE buf') = left \o rs
    <3>1. CASE "request" \in done
      <4>1. buf # <<>>
        BY <3>1 DEF TypeInv, ChainInv
      <4>. QED  BY <1>0, <2>2, <2>3, <2>4, <3>1, <4>1, TailGrows
    <3>2. CASE "request" \notin done
      BY <1>0, <2>2, <2>3, <2>4, <3>2
    <3>. QED  BY <3>1, <3>2
  <2>6. sent = taken \o left
    BY DEF PipelineIntact
  <2>. HIDE DEF left
  <2>7. (taken \o left) \o rs = taken \o (left \o rs)
    <3>1. taken \in Seq(Requests) /\ left \in Seq(Requests) /\ rs \in Seq(Requests)
      BY <1>0, <2>3, <2>5
    <3>. QED  BY <3>1, ConcatAssociative
  <2>. QED  BY <2>2, <2>4, <2>5, <2>6, <2>7 DEF PipelineIntact
<1>4. CASE ~(PassEnd \/ AccesslogWritten \/ RequestParsed \/ ReceiveData)
  <2>1. UNCHANGED <<buf, sent, taken>>
    BY <1>4, ReqStep DEF reqVars, RequestIncomplete, IndexFound
  <2>2. "request" \in done' <=> "request" \in done
    BY <1>4, MarkStep
  <2>. QED  BY <2>1, <2>2 DEF PipelineIntact
<1>. QED  BY <1>1, <1>2, <1>3, <1>4

(***************************************************************************)
(* Pipelining, for every splitting of the bytes and every failure: what    *)
(* was parsed, followed by what is still in req.buf, is what was received; *)
(* so no request is lost, parsed twice or out of order (request.h, and     *)
(* ahreq_close, which erases exactly the answered request).                *)
(***************************************************************************)
THEOREM Pipelined == Spec => []PipelineIntact
<1>1. Init => PipelineIntact
  BY DEF Init, PipelineIntact
<1>. QED  BY <1>1, TypeInit, TypeStep, PipelineKept, PTL DEF Spec

-----------------------------------------------------------------------------
(* The limit of keep-alive requests. *)

\* A connection that has ended does nothing more.
LEMMA EndedStep ==
    ASSUME [Next]_vars, state = "ended"
    PROVE  UNCHANGED vars
BY DEF Next, Chain, Rest, Opening, Processing, CallReturns, Receiving, Sending, PassDone, PassEnd,
   OpenPlain, ReceivePass, ReceiveWait, ReceiveData, ReceiveEnd, ReceiveNoMemory,
   RequestIncomplete, RequestParsed, VirtspaceOpen, VirtspaceProcess, IndexOpen, IndexFound,
   IndexNotFound, IndexNoMemory, AutoindexOpen, AutoindexListed, AutoindexFailed, FileOpen,
   FileCall, FileOpened, FileInfo, FileRead, CallFails, ErrorOpen, ErrorProcess, TransferOpen,
   TransferProcess, ResponseOpen, ResponseProcess, SendAll, SendWait, SendFails, AccesslogOpen,
   AccesslogCall, AccesslogWritten, FileResized, Expired

\* Requests that count: those answered before, and the one in the chain.
LimitInv ==
    MaxKeepAlive \in 1 .. KeepAliveMod - 1 =>
        /\ Len(taken) <= MaxKeepAlive
        /\ state # "ended" =>
              /\ keepAliveN < MaxKeepAlive
              /\ Len(taken) = keepAliveN + (IF "request" \in done THEN 1 ELSE 0)

\* Every step keeps the count of requests.
LEMMA LimitKept == TypeInv /\ LimitInv /\ [Next]_vars => LimitInv'
<1>. SUFFICES ASSUME TypeInv, LimitInv, [Next]_vars, MaxKeepAlive \in 1 .. KeepAliveMod - 1
              PROVE  /\ Len(taken') <= MaxKeepAlive
                     /\ state' # "ended" =>
                          /\ keepAliveN' < MaxKeepAlive
                          /\ Len(taken') = keepAliveN' + (IF "request" \in done' THEN 1 ELSE 0)
  BY DEF LimitInv
<1>0. /\ KeepAliveMod \in Nat /\ MaxKeepAlive \in Nat /\ keepAliveN \in Nat
      /\ taken \in Seq(Requests) /\ Len(taken) \in Nat
  BY ClientAssumption DEF TypeInv, DataTypes
<1>1. CASE PassEnd \/ AccesslogWritten
  <2>1. /\ "request" \in done /\ state # "ended" /\ taken' = taken
        /\ keepAliveN < MaxKeepAlive /\ Len(taken) = keepAliveN + 1
    <3>1. "request" \in done /\ state # "ended"
      BY <1>1, AtEnd, EndStep
    <3>2. taken' = taken
      BY <1>1, EndStep DEF reqVars, Reset, ResetRest
    <3>. QED  BY <3>1, <3>2 DEF LimitInv
  <2>2. (keepAliveN + 1) % KeepAliveMod = keepAliveN + 1
    BY <1>0, <2>1
  <2>3. CASE Destroy
    BY <1>0, <2>1, <2>3 DEF Destroy, DestroyHolding
  <2>4. CASE ~Destroy
    <3>1. resp.ka /\ keepAliveN' # MaxKeepAlive /\ Reset /\ keepAliveN' = keepAliveN + 1
      BY <1>1, <2>2, <2>4, EndStep DEF KeepAlive
    <3>2. "request" \notin done'
      BY <3>1 DEF Reset, ResetRest
    <3>. QED  BY <1>0, <2>1, <3>1, <3>2
  <2>. QED  BY <2>3, <2>4
<1>2. CASE RequestParsed
  <2>1. /\ taken' = Append(taken, Head(buf)) /\ keepAliveN' = keepAliveN
        /\ "request" \notin done /\ "request" \in done' /\ state # "ended" /\ buf # <<>>
    BY <1>2 DEF RequestParsed, Processing, Forward, pastVars
  <2>2. Len(taken') = Len(taken) + 1
    BY <1>0, <2>1
  <2>3. Len(taken) = keepAliveN /\ keepAliveN < MaxKeepAlive
    BY <1>0, <2>1 DEF LimitInv
  <2>. QED  BY <1>0, <2>1, <2>2, <2>3
<1>3. CASE ~(PassEnd \/ AccesslogWritten \/ RequestParsed)
  <2>1. taken' = taken
    BY <1>3, ReqStep DEF reqVars, ReceiveData, RequestIncomplete, IndexFound
  <2>2. keepAliveN' = keepAliveN
    BY <1>3, PastStep DEF pastVars, SendAll, SendWait
  <2>3. "request" \in done' <=> "request" \in done
    BY <1>3, MarkStep
  <2>4. state' # "ended" => state # "ended"
    BY EndedStep DEF vars, chainVars
  <2>. QED  BY <2>1, <2>2, <2>3, <2>4 DEF LimitInv
<1>. QED  BY <1>1, <1>2, <1>3

(***************************************************************************)
(* A limit that ffushort can hold is a limit: no connection is served more *)
(* than max_keep_alive_reqs requests, whatever the requests are and        *)
(* whatever fails (cl_keepalive).                                          *)
(***************************************************************************)
THEOREM KeepAliveLimited ==
    Spec => [](MaxKeepAlive \in 1 .. KeepAliveMod - 1 => Len(taken) <= MaxKeepAlive)
<1>1. Init => LimitInv
  BY ClientAssumption DEF Init, LimitInv
<1>2. LimitInv => (MaxKeepAlive \in 1 .. KeepAliveMod - 1 => Len(taken) <= MaxKeepAlive)
  BY DEF LimitInv
<1>. QED  BY <1>1, <1>2, TypeInit, TypeStep, LimitKept, PTL DEF Spec

-----------------------------------------------------------------------------
(* Resources. *)

\* Everything but req.buf and last_modified belongs to a filter that is opened.
OwnedInv ==
    /\ "recv.timer" \in held => "receive" \in opened
    /\ "req.path" \in held => "request" \in opened
    /\ "index.buf" \in held => "index" \in opened
    /\ "autoindex.buf" \in held => "autoindex" \in opened
    /\ "file.buf" \in held => "file" \in opened
    /\ "file.f" \in held => "file" \in opened
    /\ "resp.buf" \in held => "response" \in opened
    /\ "send.timer" \in held => "send" \in opened
    /\ "acclog_buf" \in held => "accesslog" \in opened

\* last_modified is on its way from the file filter to the response filter, which owns it.
LeakInv ==
    /\ leaked \subseteq {"req.buf", "resp.last_modified"}
    /\ "req.buf" \in leaked => state = "ended" /\ "request" \notin opened
    /\ "resp.last_modified" \in leaked => faulted
    /\ "response" \in done \ opened => faulted
    /\ "resp.last_modified" \in held /\ "response" \notin Begun => i >= AtFile /\ ~back

\* What the close functions of the opened filters release.
LEMMA ReleasedNames ==
    /\ "receive" \in opened => "recv.timer" \in Released
    /\ "request" \in opened => "req.path" \in Released /\ "req.buf" \in Released
    /\ "index" \in opened => "index.buf" \in Released
    /\ "autoindex" \in opened => "autoindex.buf" \in Released
    /\ "file" \in opened => "file.buf" \in Released /\ "file.f" \in Released
    /\ "response" \in opened => "resp.buf" \in Released /\ "resp.last_modified" \in Released
    /\ "send" \in opened => "send.timer" \in Released
    /\ "accesslog" \in opened => "acclog_buf" \in Released
<1>1. \A f \in opened : Owned(f) \subseteq Released
  BY DEF Released
<1>. QED  BY <1>1 DEF Owned

\* So only those two can be forgotten.
LEMMA HeldReleased ==
    ASSUME TypeInv, OwnedInv
    PROVE  held \ Released \subseteq {"req.buf", "resp.last_modified"}
<1>. SUFFICES ASSUME NEW x \in held, x \notin Released
              PROVE  x \in {"req.buf", "resp.last_modified"}
  OBVIOUS
<1>1. x \in {"recv.timer", "req.buf", "req.path", "index.buf", "autoindex.buf", "file.buf",
             "file.f", "resp.buf", "resp.last_modified", "send.timer", "acclog_buf"}
  BY ResourceNames DEF TypeInv, DataTypes
<1>2. x # "recv.timer" /\ x # "req.path" /\ x # "index.buf" /\ x # "autoindex.buf"
  BY ReleasedNames DEF OwnedInv
<1>3. x # "file.buf" /\ x # "file.f"
  BY ReleasedNames DEF OwnedInv
<1>4. x # "resp.buf" /\ x # "send.timer" /\ x # "acclog_buf"
  BY ReleasedNames DEF OwnedInv
<1>. QED  BY <1>1, <1>2, <1>3, <1>4

\* What a connection holds belongs to an opened filter after every step.
LEMMA OwnedKept == TypeInv /\ OwnedInv /\ [Next]_vars => OwnedInv'
<1>. SUFFICES ASSUME TypeInv, OwnedInv, [Next]_vars PROVE OwnedInv'
  OBVIOUS
<1>1. CASE PassEnd \/ AccesslogWritten
  <2>1. held' \subseteq {"req.buf"}
    BY <1>1, EndStep DEF Destroy, DestroyHolding, Reset, ResetRest
  <2>. QED  BY <2>1 DEF OwnedInv
<1>2. CASE Ends
  BY <1>2 DEF Ends, Destroy, DestroyHolding, OwnedInv
<1>3. CASE ~(PassEnd \/ AccesslogWritten \/ Ends)
  <2>1. opened \subseteq opened'
    BY <1>3, MarkStep
  <2>2. CASE UNCHANGED memVars
    BY <2>1, <2>2 DEF memVars, OwnedInv
  <2>3. CASE ReceiveWait \/ ReceiveData \/ RequestParsed \/ IndexNotFound
    BY <2>1, <2>3 DEF ReceiveWait, ReceiveData, Receiving, RequestParsed, IndexNotFound,
       Processing, OwnedInv
  <2>4. CASE AutoindexListed \/ AutoindexFailed
    BY <2>1, <2>4 DEF AutoindexListed, AutoindexFailed, Processing, OwnedInv
  <2>5. CASE FileOpen
    BY <2>1, <2>5 DEF FileOpen, OpenOk, OwnedInv
  <2>6. CASE FileOpened
    BY <2>1, <2>6 DEF FileOpened, CallReturns, Processing, OwnedInv
  <2>7. CASE FileInfo
    <3>1. held' \subseteq held \cup {"resp.last_modified"}
      BY <2>7 DEF FileInfo, Redirected, NotModified
    <3>. QED  BY <2>1, <3>1 DEF OwnedInv
  <2>8. CASE ResponseOpen \/ AccesslogOpen
    BY <2>1, <2>8 DEF ResponseOpen, AccesslogOpen, OpenOk, OwnedInv
  <2>9. CASE SendAll \/ SendWait
    BY <2>1, <2>9 DEF SendAll, SendWait, Sending, Processing, OwnedInv
  <2>. QED  BY <1>3, <2>2, <2>3, <2>4, <2>5, <2>6, <2>7, <2>8, <2>9, MemStep
<1>. QED  BY <1>1, <1>2, <1>3

\* Past the response filter, or coming back, the response filter is done.
LEMMA ResponseBehind ==
    ASSUME TypeInv, i > AtResponse \/ (back /\ i > 1)
    PROVE  "response" \in done
<1>1. /\ AtResponse \in 1 .. AtLog /\ Filters[AtResponse] = "response"
      /\ AtSend \in AtResponse + 1 .. AtLog /\ Filters[AtSend] = "send"
  BY Places DEF AtLog, AtResponse, AtSend, PlacesOf
<1>2. "response" \notin done => i <= AtResponse /\ "send" \notin Begun
  BY <1>1 DEF TypeInv, ChainInv, InOrder, Once
<1>3. back /\ i > 1 => "send" \in Begun
  BY DEF TypeInv, ChainInv, TurnsBack, Begun
<1>. QED  BY <1>1, <1>2, <1>3 DEF TypeInv, ChainTypes

\* Where a chain can be whose connection ends with no failure of the server's own.
LEMMA EndsWhere ==
    ASSUME [Next]_vars, Ends, state # "ended"
    PROVE  \/ faulted'
           \/ Filters[i] \in {"receive", "request", "send"}
           \/ Expired \/ PassEnd \/ AccesslogWritten
<1>0. state' = "ended"
  BY DEF Ends, Destroy, DestroyHolding
<1>1. CASE \/ ReceiveWait \/ ReceiveData \/ ReceiveEnd \/ ReceiveNoMemory \/ ReceivePass
           \/ RequestIncomplete \/ RequestParsed \/ SendAll \/ SendWait \/ SendFails
  BY <1>1 DEF ReceiveWait, ReceiveData, ReceiveEnd, ReceiveNoMemory, ReceivePass, Receiving,
     RequestIncomplete, RequestParsed, SendAll, SendWait, SendFails, Sending, Processing
<1>2. CASE CallFails
  BY <1>2 DEF CallFails, FileCallFails
<1>3. CASE Working
  BY <1>0, <1>3 DEF Working
<1>4. CASE UNCHANGED <<state, i, held>>
  BY <1>0, <1>4
<1>5. CASE ~Working /\ ~(UNCHANGED <<state, i, held>>)
  <2>1. \/ ReceiveWait \/ ReceiveData \/ SendAll \/ SendWait \/ PassEnd \/ AccesslogWritten
        \/ ReceiveEnd \/ ReceiveNoMemory \/ RequestIncomplete \/ CallFails \/ SendFails
        \/ Expired
    BY <1>5, WaitStep DEF Stops
  <2>. QED  BY <1>1, <1>2, <2>1
<1>. QED  BY <1>3, <1>4, <1>5

\* A connection that ends, or starts again, forgets last_modified only after a failure.
LEMMA ModifiedForgotten ==
    ASSUME TypeInv, WaitInv, LeakInv, [Next]_vars, state # "ended",
           Ends \/ PassEnd \/ AccesslogWritten,
           "resp.last_modified" \in held, "response" \notin opened
    PROVE  faulted'
<1>1. faulted => faulted'
  BY FaultStep DEF TypeInv, DataTypes
<1>2. i \in 1 .. AtLog
  BY DEF TypeInv, ChainTypes
<1>3. CASE "response" \in done
  BY <1>1, <1>3 DEF LeakInv
<1>4. CASE "response" \notin done /\ ~faulted'
  <2>1. i >= AtFile /\ i <= AtResponse
    BY <1>2, <1>4, ResponseBehind, Places DEF LeakInv, Begun, AtResponse
  <2>2. Filters[i] \notin {"receive", "request", "send"}
    BY <1>2, <2>1, Places DEF PlacesOf, AtFile, AtResponse, AtSend
  <2>3. ~Expired
    <3>1. Expired => state \in {"recv", "send"}
      BY DEF Expired, WaitInv
    <3>. QED  BY <2>1, <3>1, Places DEF WaitInv, AtFile, AtResponse, AtSend
  <2>. QED  BY <1>4, <2>2, <2>3, EndsWhere, AtEnd
<1>. QED  BY <1>3, <1>4

\* The chain turns back only at `request` and at `send`, and never jumps.
LEMMA MoveStep ==
    ASSUME [Next]_vars
    PROVE  \/ PassEnd \/ AccesslogWritten \/ SendAll \/ RequestIncomplete \/ back
           \/ back' = back /\ i' = i
           \/ back' = FALSE /\ i' = i + 1
<1>1. CASE \/ PassDone \/ OpenPlain \/ ReceivePass \/ ReceiveWait \/ ReceiveData
           \/ RequestParsed
           \/ VirtspaceOpen \/ VirtspaceProcess
           \/ IndexOpen \/ IndexFound \/ IndexNotFound \/ IndexNoMemory
           \/ AutoindexOpen \/ AutoindexListed \/ AutoindexFailed
  BY <1>1 DEF PassDone, OpenPlain, ReceivePass, ReceiveWait, ReceiveData, RequestParsed,
     VirtspaceOpen, VirtspaceProcess, IndexOpen, IndexFound, IndexNotFound, IndexNoMemory,
     AutoindexOpen, AutoindexListed, AutoindexFailed, Suspend, OpenOk, OpenSkip, Forward
<1>2. CASE \/ ErrorOpen \/ ErrorProcess \/ TransferOpen \/ TransferProcess
           \/ ResponseOpen \/ ResponseProcess \/ SendWait \/ AccesslogOpen \/ AccesslogCall
  BY <1>2 DEF ErrorOpen, ErrorProcess, TransferOpen, TransferProcess, ResponseOpen,
     ResponseProcess, SendWait, AccesslogOpen, AccesslogCall, Suspend, OpenOk, OpenSkip, Forward
<1>4. CASE FileOpen \/ FileCall \/ FileOpened \/ FileInfo \/ FileRead
  BY <1>4 DEF FileOpen, FileCall, FileOpened, FileInfo, FileRead, FileDone, Redirected,
     NotModified, NextCall, Suspend, OpenOk, OpenSkip, Forward
<1>3. CASE ReceiveEnd \/ ReceiveNoMemory \/ CallFails \/ SendFails \/ Expired
  BY <1>3 DEF ReceiveEnd, ReceiveNoMemory, CallFails, SendFails, Expired, Destroy,
     DestroyHolding
<1>5. CASE FileResized \/ Rest \/ UNCHANGED vars
  BY <1>5 DEF FileResized, Rest, vars, chainVars
<1>. QED  BY <1>1, <1>2, <1>3, <1>4, <1>5 DEF Next, Chain

\* So last_modified is forgotten only by a chain that failed.
LEMMA LeakKept == TypeInv /\ WaitInv /\ OwnedInv /\ LeakInv /\ [Next]_vars => LeakInv'
<1>. SUFFICES ASSUME TypeInv, WaitInv, OwnedInv, LeakInv, [Next]_vars PROVE LeakInv'
  OBVIOUS
<1>0. /\ faulted => faulted'
      /\ i \in 1 .. AtLog /\ back \in BOOLEAN
  BY FaultStep DEF TypeInv, DataTypes, ChainTypes
<1>1. CASE state = "ended"
  <2>1. UNCHANGED vars
    BY <1>1, EndedStep
  <2>. QED  BY <2>1 DEF vars, chainVars, memVars, faultVars, LeakInv, Begun
<1>2. CASE state # "ended" /\ (PassEnd \/ AccesslogWritten) /\ Reset
  <2>1. /\ leaked' = leaked \cup (held \ (Released \cup {"req.buf"}))
        /\ opened' = {} /\ done' = {} /\ held' \subseteq {"req.buf"}
    BY <1>2 DEF Reset, ResetRest
  <2>2. "resp.last_modified" \in leaked' => faulted'
    <3>1. "resp.last_modified" \in held \ Released => "response" \notin opened
      BY ReleasedNames
    <3>. QED  BY <1>0, <1>2, <2>1, <3>1, ModifiedForgotten DEF LeakInv
  <2>3. leaked' \subseteq {"resp.last_modified"}
    BY <1>2, <2>1, HeldReleased DEF LeakInv
  <2>. QED  BY <2>1, <2>2, <2>3 DEF LeakInv
<1>3. CASE state # "ended" /\ Ends
  <2>1. /\ state' = "ended" /\ held' = {} /\ UNCHANGED <<i, back, opened, done>>
        /\ leaked' \subseteq leaked \cup ((held \cup {"req.buf"}) \ Released)
    BY <1>3 DEF Ends, Destroy, DestroyHolding
  <2>2. "resp.last_modified" \in leaked' => faulted'
    <3>1. "resp.last_modified" \in held \ Released => "response" \notin opened
      BY ReleasedNames
    <3>. QED  BY <1>0, <1>3, <2>1, <3>1, ModifiedForgotten DEF LeakInv
  <2>3. "req.buf" \in leaked' => "request" \notin opened
    BY <1>3, <2>1, ReleasedNames DEF LeakInv
  <2>4. leaked' \subseteq {"req.buf", "resp.last_modified"}
    BY <2>1, HeldReleased DEF LeakInv
  <2>. QED  BY <1>0, <2>1, <2>2, <2>3, <2>4 DEF LeakInv
<1>4. CASE state # "ended" /\ ~(PassEnd \/ AccesslogWritten \/ Ends)
  <2>1. leaked' = leaked
    BY <1>4, MemStep DEF memVars, ReceiveWait, ReceiveData, RequestParsed, IndexNotFound,
       AutoindexListed, AutoindexFailed, FileOpen, FileOpened, FileInfo, ResponseOpen, SendAll,
       SendWait, AccesslogOpen
  <2>2. /\ opened \subseteq opened' /\ done \subseteq done'
        /\ "response" \in done' \ done => ResponseOpen \/ ResponseProcess
    BY <1>4, MarkStep
  <2>3. "response" \in done' \ opened' => faulted'
    <3>1. CASE ResponseOpen
      BY <3>1, <1>0, <2>2 DEF ResponseOpen, Opening, OpenOk, OutOfMemory
    <3>2. CASE ResponseProcess
      BY <3>2, <2>2 DEF ResponseProcess, Processing
    <3>. QED  BY <1>0, <2>2, <3>1, <3>2 DEF LeakInv
  <2>4. ASSUME "resp.last_modified" \in held', "response" \notin Begun'
        PROVE  i' >= AtFile /\ ~back'
    <3>1. "response" \notin Begun
      BY <2>2, <2>4 DEF Begun
    <3>2. i <= AtResponse /\ (back => i <= 1)
      BY <1>0, <3>1, ResponseBehind, Places DEF Begun, AtResponse, AtLog
    <3>3. i >= AtFile /\ ~back
      <4>1. CASE "resp.last_modified" \in held
        BY <3>1, <4>1 DEF LeakInv
      <4>2. CASE FileInfo
        <5>1. Filters[i] = "file"
          BY <4>2 DEF FileInfo, CallReturns, Processing
        <5>2. i = AtFile
          BY <1>0, <5>1, Places DEF PlacesOf
        <5>. QED  BY <1>0, <3>2, <5>2, Places DEF AtFile
      <4>3. CASE "resp.last_modified" \notin held /\ ~FileInfo
        <5>1. held' \subseteq held \cup (Resources \ {"resp.last_modified"})
          <6>1. CASE \/ UNCHANGED memVars \/ ReceiveWait \/ ReceiveData \/ RequestParsed
                     \/ IndexNotFound \/ AutoindexListed \/ AutoindexFailed
            BY <6>1, ResourceNames DEF memVars, ReceiveWait, ReceiveData, RequestParsed,
               IndexNotFound, AutoindexListed, AutoindexFailed
          <6>2. CASE \/ FileOpen \/ FileOpened \/ ResponseOpen \/ SendAll \/ SendWait
                     \/ AccesslogOpen
            BY <6>2, ResourceNames DEF FileOpen, FileOpened, ResponseOpen, SendAll, SendWait,
               AccesslogOpen
          <6>. QED  BY <1>4, <4>3, <6>1, <6>2, MemStep
        <5>. QED  BY <2>4, <4>3, <5>1
      <4>. QED  BY <4>1, <4>2, <4>3
    <3>4. ~SendAll /\ ~RequestIncomplete
      BY <1>0, <3>2, <3>3, Places DEF SendAll, Sending, RequestIncomplete, Processing, PlacesOf,
         AtFile, AtResponse, AtSend
    <3>5. \/ back' = back /\ i' = i
          \/ back' = FALSE /\ i' = i + 1
      BY <1>4, <3>3, <3>4, MoveStep
    <3>. QED  BY <1>0, <3>3, <3>5, Places DEF AtFile
  <2>5. "req.buf" \notin leaked
    BY <1>4 DEF LeakInv
  <2>. QED  BY <1>0, <2>1, <2>3, <2>4, <2>5 DEF LeakInv
<1>5. CASE PassEnd \/ AccesslogWritten => Reset \/ Ends
  BY <1>1, <1>2, <1>3, <1>4, <1>5
<1>. QED  BY <1>5, EndStep DEF Ends

(***************************************************************************)
(* On every path, whatever fails, a connection forgets nothing but what    *)
(* is known to be forgotten: req.buf, when it ends before its request      *)
(* filter was opened again, and last_modified, after a failure.  In        *)
(* particular no descriptor and no timer is ever lost (client.c:           *)
(* cl_mods_close, and the close functions of http/*.h).                    *)
(***************************************************************************)
THEOREM NothingElseLeaks == Spec => []ResourcesReleased
<1>1. Init => WaitInv /\ OwnedInv /\ LeakInv
  BY DEF Init, WaitInv, OwnedInv, LeakInv
<1>2. LeakInv => ResourcesReleased
  BY DEF LeakInv, ResourcesReleased
<1>. QED  BY <1>1, <1>2, TypeInit, TypeStep, WaitKept, OwnedKept, LeakKept, PTL DEF Spec

-----------------------------------------------------------------------------
(* A response that says "close". *)

\* The header of the response to the request that is being answered has been sent.
HeaderSent == "response" \in done /\ ~iov.hdr

CloseInv ==
    /\ iov.hdr => "response" \in done
    /\ \A n \in 1 .. Len(wire) - 1 : ~wire[n].close
    /\ wire # <<>> /\ wire[Len(wire)].close => HeaderSent /\ ~resp.ka

\* No response is made before its request is parsed.
LEMMA RequestBehind ==
    ASSUME TypeInv, NEW f \in Begun, f # "receive", f # "request"
    PROVE  "request" \in done
<1>1. 2 \in 1 .. AtLog /\ Filters[2] = "request"
  BY Places DEF AtLog, PlacesOf
<1>2. f \in FilterSet
  BY DEF TypeInv, ChainTypes, Begun
<1>3. PICK k \in 1 .. AtLog : Filters[k] = f
  BY <1>2, Places DEF FilterSet
<1>4. k > 2
  BY <1>3, <1>1, Places DEF PlacesOf, AtLog
<1>. QED  BY <1>1, <1>3, <1>4, Places DEF TypeInv, ChainInv, InOrder, Once, AtLog

\* Only the request says that the connection is kept.
LEMMA KeptByRequest ==
    ASSUME TypeInv, [Next]_vars, resp'.ka, ~resp.ka
    PROVE  RequestParsed \/ PassEnd \/ AccesslogWritten
<1>. SUFFICES ASSUME ~(RequestParsed \/ PassEnd \/ AccesslogWritten) PROVE FALSE
  OBVIOUS
<1>0. resp \in Resp
  BY DEF TypeInv, DataTypes
<1>1. CASE UNCHANGED respVars
  BY <1>1 DEF respVars
<1>2. CASE IndexNoMemory \/ AutoindexFailed \/ FileOpened
  BY <1>0, <1>2, StatusFields DEF IndexNoMemory, AutoindexFailed, FileOpened, FileDone, Statuses
<1>3. CASE VirtspaceProcess \/ AutoindexListed \/ ErrorProcess \/ FileRead \/ FileResized
  BY <1>0, <1>3 DEF VirtspaceProcess, AutoindexListed, ErrorProcess, FileRead, FileResized,
     FileDone, Resp
<1>4. CASE FileOpen
  <2>. DEFINE r == [resp EXCEPT !.head = req.method = "HEAD"]
  <2>1. \/ resp' = resp \/ resp' = Status(resp, 405)
        \/ resp' = r \/ resp' = Status(r, 500)
    BY <1>4 DEF FileOpen
  <2>2. r \in Resp /\ (r.ka <=> resp.ka)
    BY <1>0 DEF Resp
  <2>. HIDE DEF r
  <2>. QED  BY <1>0, <2>1, <2>2, StatusFields DEF Statuses
<1>5. CASE FileInfo
  BY <1>0, <1>5, InfoAnswers, AnswersFit
<1>6. CASE TransferOpen \/ TransferProcess \/ ResponseProcess \/ SendAll \/ SendWait
  BY <1>0, <1>6 DEF TransferOpen, TransferProcess, ResponseProcess, SendAll, SendWait, Resp
<1>. QED  BY <1>1, <1>2, <1>3, <1>4, <1>5, <1>6, RespStep

\* What a send does to the responses.
LEMMA SendStep ==
    ASSUME TypeInv, SendAll \/ SendWait
    PROVE  \/ wire' = wire /\ iov' = Pending
           \/ \E v \in [hdr : BOOLEAN, body : Nat] :
                 /\ wire' = Received(v) /\ v.hdr = Pending.hdr /\ ~iov'.hdr
<1>1. Pending \in [hdr : BOOLEAN, body : Nat]
  BY DEF Pending, TypeInv, DataTypes, ChainTypes
<1>2. /\ [Pending EXCEPT !.body = 0] \in [hdr : BOOLEAN, body : Nat]
      /\ [Pending EXCEPT !.body = 0].hdr = Pending.hdr
      /\ ~[Pending EXCEPT !.hdr = FALSE].hdr
  BY <1>1
<1>. HIDE DEF Pending
<1>3. CASE SendAll
  BY <1>1, <1>3 DEF SendAll, NoIov
<1>4. CASE SendWait
  <2>1. \/ iov' = Pending /\ wire' = wire
        \/ iov' = [Pending EXCEPT !.hdr = FALSE] /\ wire' = Received([Pending EXCEPT !.body = 0])
    BY <1>4 DEF SendWait
  <2>. QED  BY <1>2, <2>1
<1>. QED  BY <1>3, <1>4

\* The steps that touch what is pending to be sent.
LEMMA IovStep ==
    ASSUME [Next]_vars
    PROVE  \/ iov' = iov
           \/ ResponseProcess \/ SendAll \/ SendWait \/ PassEnd \/ AccesslogWritten
BY RespStep DEF respVars, RequestParsed, VirtspaceProcess, IndexNoMemory, AutoindexListed,
   AutoindexFailed, FileOpen, FileOpened, FileInfo, FileRead, FileResized, ErrorProcess,
   TransferOpen, TransferProcess

\* A response that said "close" stays the last.
LEMMA CloseKept == TypeInv /\ CloseInv /\ [Next]_vars => CloseInv'
<1>. SUFFICES ASSUME TypeInv, CloseInv, [Next]_vars PROVE CloseInv'
  OBVIOUS
<1>0. resp \in Resp /\ wire \in Seq(Response) /\ iov \in [hdr : BOOLEAN, body : Nat]
      /\ input \in Nat
  BY DEF TypeInv, DataTypes, ChainTypes
<1>1. CASE PassEnd \/ AccesslogWritten
  <2>1. wire' = wire
    BY <1>1, EndStep
  <2>2. CASE Destroy /\ UNCHANGED <<reqVars, respVars>>
    BY <2>1, <2>2 DEF Destroy, DestroyHolding, respVars, CloseInv, HeaderSent
  <2>3. CASE Reset /\ ~(Destroy /\ UNCHANGED <<reqVars, respVars>>)
    <3>1. resp.ka /\ ~iov'.hdr
      BY <1>1, <2>3, EndStep DEF KeepAlive, Reset, ResetRest, NoIov
    <3>. QED  BY <1>0, <2>1, <3>1 DEF CloseInv
  <2>. QED  BY <1>1, <2>2, <2>3, EndStep
<1>2. CASE SendAll \/ SendWait
  <2>1. UNCHANGED resp /\ done \subseteq done'
    BY <1>2 DEF SendAll, SendWait, Forward, Backward
  <2>2. Pending.hdr => iov.hdr
    BY DEF Pending
  <2>3. CASE wire' = wire /\ iov' = Pending
    BY <2>1, <2>2, <2>3 DEF CloseInv, HeaderSent
  <2>4. ASSUME NEW v \in [hdr : BOOLEAN, body : Nat], wire' = Received(v), v.hdr = Pending.hdr,
               ~iov'.hdr
        PROVE  CloseInv'
    <3>1. /\ Len(wire') = IF v.hdr THEN Len(wire) + 1 ELSE Len(wire)
          /\ \A k \in 1 .. Len(wire') - 1 : wire'[k] = wire[k]
          /\ Len(wire') > 0 => (wire'[Len(wire')].close <=> Continued(v).close)
      BY <2>4, ReceivedFields
    <3>2. CASE v.hdr
      <4>1. /\ ~HeaderSent /\ "response" \in done
        BY <2>2, <2>4, <3>2 DEF CloseInv, HeaderSent
      <4>2. \A k \in 1 .. Len(wire) : ~wire[k].close
        BY <1>0, <4>1 DEF CloseInv
      <4>3. Header.close <=> ~resp.ka
        BY <1>0 DEF Header, Resp
      <4>4. /\ Len(wire') = Len(wire) + 1 /\ HeaderSent' /\ ~iov'.hdr
            /\ \A k \in 1 .. Len(wire') - 1 : ~wire'[k].close
        BY <1>0, <2>1, <2>4, <3>1, <3>2, <4>1, <4>2 DEF HeaderSent
      <4>5. wire'[Len(wire')].close => ~resp'.ka
        BY <1>0, <2>1, <3>1, <3>2, <4>3, <4>4 DEF Continued
      <4>. QED  BY <4>4, <4>5 DEF CloseInv
    <3>3. CASE ~v.hdr
      BY <1>0, <2>1, <2>4, <3>1, <3>3 DEF CloseInv, HeaderSent, Continued
    <3>. QED  BY <3>2, <3>3
  <2>. QED  BY <1>2, <2>3, <2>4, SendStep
<1>3. CASE ResponseProcess
  <2>1. "response" \notin done /\ "response" \in done' /\ wire' = wire
    BY <1>3 DEF ResponseProcess, Processing, Forward, pastVars
  <2>. QED  BY <2>1 DEF CloseInv, HeaderSent
<1>4. CASE ~(PassEnd \/ AccesslogWritten \/ SendAll \/ SendWait \/ ResponseProcess)
  <2>1. wire' = wire /\ iov' = iov /\ done \subseteq done'
    BY <1>4, PastStep, IovStep, MarkStep DEF pastVars
  <2>2. "response" \in done /\ resp'.ka => resp.ka
    <3>1. "response" \in done => ~RequestParsed
      BY RequestBehind DEF RequestParsed, Processing, Begun
    <3>. QED  BY <1>4, <3>1, KeptByRequest
  <2>. QED  BY <2>1, <2>2 DEF CloseInv, HeaderSent
<1>. QED  BY <1>1, <1>2, <1>3, <1>4

\* The two invariants hold together.
LEMMA CloseAlways == Spec => [](TypeInv /\ CloseInv)
<1>1. Init => CloseInv
  BY DEF Init, CloseInv, NoIov
<1>. QED  BY <1>1, TypeInit, TypeStep, CloseKept, PTL DEF Spec

(***************************************************************************)
(* Whatever fails, a response that said "Connection: close" is the last    *)
(* the peer gets: only the responses before it kept the connection.        *)
(***************************************************************************)
THEOREM CloseComesLast == Spec => [](\A n \in 1 .. Len(wire) - 1 : ~wire[n].close)
BY CloseAlways, PTL DEF CloseInv

(***************************************************************************)
(* Whatever fails, once a response has said "close" no step parses another *)
(* request, although the peer may have pipelined some, or starts another   *)
(* response (client.c: cl_keepalive; request.h; response.h).               *)
(***************************************************************************)
THEOREM NothingAfterClose ==
    Spec => [][wire # <<>> /\ wire[Len(wire)].close =>
                   taken' = taken /\ Len(wire') = Len(wire)]_vars
<1>. DEFINE A == wire # <<>> /\ wire[Len(wire)].close =>
                     taken' = taken /\ Len(wire') = Len(wire)
<1>1. TypeInv /\ CloseInv /\ [Next]_vars => [A]_vars
  <2>. SUFFICES ASSUME TypeInv, CloseInv, [Next]_vars, wire # <<>>, wire[Len(wire)].close
                PROVE  taken' = taken /\ Len(wire') = Len(wire)
    OBVIOUS
  <2>1. "response" \in done /\ ~iov.hdr /\ ~resp.ka /\ "request" \in done
    BY RequestBehind DEF CloseInv, HeaderSent, Begun
  <2>2. ~RequestParsed
    BY <2>1 DEF RequestParsed, Processing
  <2>3. taken' = taken
    BY <2>2, ReqStep, EndStep DEF reqVars, ReceiveData, RequestIncomplete, IndexFound, Reset,
       ResetRest
  <2>4. Len(wire') = Len(wire)
    <3>1. CASE SendAll \/ SendWait
      <4>1. ~Pending.hdr
        BY <2>1 DEF Pending
      <4>. QED  BY <3>1, <4>1, SendStep, ReceivedFields
    <3>. QED  BY <3>1, PastStep, EndStep DEF pastVars
  <2>. QED  BY <2>3, <2>4
<1>. QED  BY <1>1, CloseAlways, PTL DEF Spec

-----------------------------------------------------------------------------
(* Requests and responses, one to one. *)

\* Every request taken is answered, but for the one whose header is still to be sent.
AlignInv ==
    /\ Len(wire) = Len(taken) - (IF "request" \in done /\ ~HeaderSent THEN 1 ELSE 0)
    /\ "request" \in done => taken # <<>>
    /\ iov.hdr => i = AtSend /\ input = 0 /\ "send" \notin done

\* At `send` the chain waits for it.
LEMMA SendHolds ==
    ASSUME TypeInv, [Next]_vars, i = AtSend, "send" \notin done
    PROVE  SendAll \/ (i' = i /\ (input' = input \/ input' = 0))
<1>1. Filters[i] = "send" /\ i # Len(Filters)
  <2>1. i \in 1 .. AtLog /\ i # AtLog
    BY Places DEF AtSend, AtLog
  <2>. QED  BY <2>1, Places DEF PlacesOf
<1>2. CASE \/ PassDone \/ PassEnd \/ OpenPlain \/ ReceivePass \/ ReceiveWait \/ ReceiveData
           \/ RequestIncomplete \/ RequestParsed
           \/ VirtspaceOpen \/ VirtspaceProcess
           \/ IndexOpen \/ IndexFound \/ IndexNotFound \/ IndexNoMemory
           \/ AutoindexOpen \/ AutoindexListed \/ AutoindexFailed
  BY <1>1, <1>2 DEF PassDone, PassEnd, OpenPlain, ReceivePass, ReceiveWait, ReceiveData, Receiving,
     RequestIncomplete, RequestParsed, VirtspaceOpen, VirtspaceProcess, IndexOpen, IndexFound,
     IndexNotFound, IndexNoMemory, AutoindexOpen, AutoindexListed, AutoindexFailed,
     Opening, Processing, OpenOk
<1>3. CASE \/ FileOpen \/ FileCall \/ FileOpened \/ FileInfo \/ FileRead
           \/ ErrorOpen \/ ErrorProcess \/ TransferOpen \/ TransferProcess
           \/ ResponseOpen \/ ResponseProcess \/ SendWait
           \/ AccesslogOpen \/ AccesslogCall \/ AccesslogWritten
  BY <1>1, <1>3 DEF FileOpen, FileCall, FileOpened, FileInfo, FileRead, CallReturns, ErrorOpen,
     ErrorProcess, TransferOpen, TransferProcess, ResponseOpen, ResponseProcess, SendWait,
     AccesslogOpen, AccesslogCall, AccesslogWritten, Opening, Processing
<1>4. CASE \/ ReceiveEnd \/ ReceiveNoMemory \/ CallFails \/ SendFails \/ Expired
           \/ FileResized \/ Rest \/ UNCHANGED vars
  BY <1>4 DEF ReceiveEnd, ReceiveNoMemory, CallFails, SendFails, Expired, Destroy,
     DestroyHolding, FileResized, Rest, vars, chainVars
<1>. QED  BY <1>2, <1>3, <1>4 DEF Next, Chain

\* A send starts a response when its header is pending, and no other.
LEMMA SendAligned ==
    ASSUME TypeInv, AlignInv, SendAll \/ SendWait
    PROVE  \/ wire' = wire /\ (iov'.hdr <=> iov.hdr)
           \/ \E v \in [hdr : BOOLEAN, body : Nat] :
                 wire' = Received(v) /\ (v.hdr <=> iov.hdr) /\ ~iov'.hdr
<1>1. Pending.hdr <=> iov.hdr
  BY DEF Pending, AlignInv, TypeInv, ChainTypes
<1>. QED  BY <1>1, SendStep

\* Requests and responses stay one to one.
LEMMA AlignKept ==
    ASSUME "oom" \notin MayHappen
    PROVE  TypeInv /\ CloseInv /\ AlignInv /\ [Next]_vars => AlignInv'
<1>. SUFFICES ASSUME TypeInv, CloseInv, AlignInv, [Next]_vars PROVE AlignInv'
  OBVIOUS
<1>0. /\ wire \in Seq(Response) /\ taken \in Seq(Requests) /\ iov \in [hdr : BOOLEAN, body : Nat]
      /\ i \in 1 .. AtLog /\ input \in Nat
  BY DEF TypeInv, DataTypes, ChainTypes
<1>1. CASE PassEnd \/ AccesslogWritten
  <2>1. wire' = wire /\ i = AtLog /\ i # AtSend /\ "response" \in done
    BY <1>1, EndStep, AtEnd DEF AtLog, AtSend, V
  <2>2. CASE Destroy /\ UNCHANGED <<reqVars, respVars>>
    BY <2>1, <2>2 DEF Destroy, DestroyHolding, respVars, reqVars, AlignInv, HeaderSent
  <2>3. CASE Reset
    <3>1. done' = {} /\ taken' = taken /\ ~iov'.hdr
      BY <2>3 DEF Reset, ResetRest, NoIov
    <3>. QED  BY <2>1, <3>1 DEF AlignInv, HeaderSent
  <2>. QED  BY <1>1, <2>2, <2>3, EndStep
<1>2. CASE SendAll \/ SendWait
  <2>1. /\ UNCHANGED taken
        /\ "request" \in done' <=> "request" \in done
        /\ "response" \in done' <=> "response" \in done
    BY <1>2 DEF SendAll, SendWait, Forward, Backward, reqVars
  <2>2. iov'.hdr => iov.hdr /\ i' = i /\ input' = 0 /\ "send" \notin done'
    <3>1. CASE SendAll
      BY <3>1 DEF SendAll, NoIov
    <3>2. CASE SendWait
      <4>1. iov'.hdr => iov.hdr
        BY <3>2, SendAligned
      <4>. QED  BY <3>2, <4>1 DEF SendWait, AlignInv
    <3>. QED  BY <1>2, <3>1, <3>2
  <2>3. CASE wire' = wire /\ (iov'.hdr <=> iov.hdr)
    BY <2>1, <2>2, <2>3 DEF AlignInv, HeaderSent
  <2>4. ASSUME NEW v \in [hdr : BOOLEAN, body : Nat], wire' = Received(v), v.hdr <=> iov.hdr,
               ~iov'.hdr
        PROVE  AlignInv'
    <3>1. Len(wire') = IF v.hdr THEN Len(wire) + 1 ELSE Len(wire)
      BY <2>4, ReceivedFields
    <3>2. "request" \in done => taken # <<>>
      BY DEF AlignInv
    <3>3. CASE iov.hdr
      <4>1. "response" \in done /\ "request" \in done
        BY <3>3, RequestBehind DEF CloseInv, Begun
      <4>2. Len(wire') = Len(wire) + 1 /\ Len(wire) = Len(taken) - 1
        BY <2>4, <3>1, <3>3, <4>1 DEF AlignInv, HeaderSent
      <4>. QED  BY <1>0, <2>1, <2>4, <3>2, <4>1, <4>2 DEF AlignInv, HeaderSent
    <3>4. CASE ~iov.hdr
      <4>1. Len(wire') = Len(wire)
        BY <2>4, <3>1, <3>4
      <4>. QED  BY <2>1, <2>4, <3>2, <3>4, <4>1 DEF AlignInv, HeaderSent
    <3>. QED  BY <3>3, <3>4
  <2>. QED  BY <1>2, <2>3, <2>4, SendAligned
<1>3. CASE RequestParsed
  <2>1. /\ "request" \notin done /\ done' = done \cup {"request"}
        /\ taken' = Append(taken, Head(buf)) /\ wire' = wire /\ iov' = iov
        /\ Head(buf) \in Requests
    BY <1>3 DEF RequestParsed, Processing, Forward, pastVars, TypeInv, DataTypes
  <2>2. "response" \notin done
    BY <2>1, RequestBehind DEF Begun
  <2>3. Len(taken') = Len(taken) + 1 /\ taken' # <<>>
    BY <1>0, <2>1
  <2>4. ~iov.hdr
    BY <2>2 DEF CloseInv
  <2>. QED  BY <1>0, <2>1, <2>2, <2>3, <2>4 DEF AlignInv, HeaderSent
<1>4. CASE ResponseProcess
  <2>1. /\ i = AtResponse /\ i' = AtSend /\ input' = 0 /\ iov'.hdr
        /\ "response" \notin done /\ done' = done \cup {"response"}
        /\ UNCHANGED <<wire, taken>>
    BY <1>0, <1>4, Places DEF ResponseProcess, Processing, Forward, pastVars, reqVars, PlacesOf,
       AtSend, AtResponse
  <2>2. "send" \notin done
    <3>1. /\ AtSend \in i + 1 .. AtLog /\ Filters[AtSend] = "send" /\ Filters[i] = "response"
      BY <1>0, <2>1, Places DEF AtSend, AtResponse, AtLog, PlacesOf
    <3>. QED  BY <1>0, <2>1, <3>1 DEF TypeInv, ChainInv, InOrder, Once, Begun
  <2>. QED  BY <2>1, <2>2 DEF AlignInv, HeaderSent
<1>5. CASE ~(\/ PassEnd \/ AccesslogWritten \/ SendAll \/ SendWait \/ RequestParsed
             \/ ResponseProcess)
  <2>1. wire' = wire /\ iov' = iov /\ taken' = taken
    BY <1>5, PastStep, IovStep, ReqStep DEF pastVars, reqVars, ReceiveData, RequestIncomplete,
       IndexFound
  <2>2. /\ "request" \in done' <=> "request" \in done
        /\ "response" \in done' <=> "response" \in done
        /\ "send" \in done' <=> "send" \in done
    <3>1. CASE ResponseOpen
      BY <3>1 DEF ResponseOpen, OpenOk, OutOfMemory
    <3>. QED  BY <1>5, <3>1, MarkStep
  <2>3. iov.hdr => i' = i /\ input' = 0
    BY <1>5, SendHolds DEF AlignInv
  <2>. QED  BY <2>1, <2>2, <2>3 DEF AlignInv, HeaderSent
<1>. QED  BY <1>1, <1>2, <1>3, <1>4, <1>5

\* The invariants hold together.
LEMMA AlignAlways ==
    ASSUME "oom" \notin MayHappen
    PROVE  Spec => [](TypeInv /\ CloseInv /\ AlignInv)
<1>1. Init => CloseInv /\ AlignInv
  BY DEF Init, CloseInv, AlignInv, HeaderSent, NoIov
<1>. QED  BY <1>1, TypeInit, TypeStep, CloseKept, AlignKept, PTL DEF Spec

(***************************************************************************)
(* Responses are counted by requests: the response that says "close"       *)
(* answers the last request taken, and a connection gets no more of them   *)
(* than max_keep_alive_reqs.  (A response that finds no memory is never    *)
(* sent, and the ones after it are one behind: see the README.)            *)
(***************************************************************************)
THEOREM KeepAliveExact ==
    ASSUME "oom" \notin MayHappen
    PROVE  Spec => []KeepAliveKept
<1>1. TypeInv /\ CloseInv /\ AlignInv =>
          \A n \in 1 .. Len(wire) : wire[n].close => Len(taken) = n
  <2>. SUFFICES ASSUME TypeInv, CloseInv, AlignInv, NEW n \in 1 .. Len(wire), wire[n].close
                PROVE  Len(taken) = n
    OBVIOUS
  <2>1. wire \in Seq(Response) /\ taken \in Seq(Requests)
    BY DEF TypeInv, DataTypes
  <2>2. n = Len(wire) /\ wire # <<>>
    BY <2>1 DEF CloseInv
  <2>. QED  BY <2>1, <2>2 DEF CloseInv, AlignInv
<1>. QED  BY <1>1, AlignAlways, KeepAliveLimited, PTL DEF KeepAliveKept

-----------------------------------------------------------------------------
(* The status of every answer. *)

\* The request that is being answered, as it came.
Asked == taken[Len(taken)]

IsDocument(r) == ~r.bad /\ <<r.method, r.target>> \in Docs

\* What the index filter makes of it.
Indexed(r) ==
    IF r.target = "index" /\ ~r.bad /\ ~IsDocument(r) THEN [r EXCEPT !.target = "file"] ELSE r

HasStatus(c) == resp.code = c /\ (resp.err <=> c >= 300)

\* What is known of a request from the filters that have taken it.
OpenedFor(r) ==
    /\ "virtspace" \in opened => IsDocument(r)
    /\ "index" \in opened => ~r.bad /\ ~IsDocument(r) /\ r.target \in Slashed
    /\ "autoindex" \in opened =>
           ~r.bad /\ r.target \in Slashed /\ (IsDocument(r) \/ r.target # "index")
    /\ "file" \in opened =>
           /\ ~r.bad /\ ~IsDocument(r) /\ r.method # "POST"
           /\ r.target \in {"file", "index", "missing", "dir"}
    /\ file.state # 0 => "file" \in opened /\ r.target # "missing"
    /\ req = IF "index" \in done THEN Indexed(r) ELSE r

\* The status after the request filter, after virtspace, after autoindex and after file.
StatusFor(r) ==
    /\ V = 1 /\ "virtspace" \notin done =>
           HasStatus(IF r.bad THEN 400 ELSE 0)
    /\ (V = 1 => "virtspace" \in done) /\ "autoindex" \notin done =>
           HasStatus(IF r.bad THEN 400 ELSE IF IsDocument(r) THEN 200 ELSE 0)
    /\ "autoindex" \in done /\ "file" \notin done /\ file.state # 2 =>
           HasStatus(IF r.bad THEN 400
                     ELSE IF IsDocument(r) \/ r.target = "listing" THEN 200
                     ELSE IF r.target = "nodir" THEN 404 ELSE 0)
    /\ "file" \in done \/ file.state = 2 => resp.code \in Fits(r)

\* Nothing is known before the request is parsed; all of it afterwards.
Fresh == "request" \notin done => file.state = 0 /\ HasStatus(0)
Known == "request" \in done => OpenedFor(Asked) /\ StatusFor(Asked)

\* The chain goes on from the file filter with an answer, or while it reads the file.
Answered == i > AtFile => "file" \in done \/ file.state = 2

StatusInv == Fresh /\ Known /\ Answered

\* No call fails (a file may be resized), and no virtual document stands in for a directory
\* that is not there: autoindex answers for such a document that the directory is missing.
NothingFails ==
    /\ "oom" \notin MayHappen /\ "io" \notin MayHappen
    /\ \A m \in Methods : <<m, "nodir">> \notin Docs

\* Which filters are still ahead, and which are behind.
LEMMA Order ==
    ASSUME TypeInv
    PROVE  /\ V = 0 => "virtspace" \notin Begun
           /\ "request" \notin done =>
                 {"virtspace", "index", "autoindex", "file"} \cap Begun = {}
           /\ V = 1 /\ "virtspace" \notin done => {"index", "autoindex", "file"} \cap Begun = {}
           /\ "index" \notin done => {"autoindex", "file"} \cap Begun = {}
           /\ "autoindex" \notin done => "file" \notin Begun
           /\ Filters[i] \in {"virtspace", "index", "autoindex", "file"} => "request" \in done
           /\ Filters[i] \in {"index", "autoindex", "file"} /\ V = 1 => "virtspace" \in done
           /\ Filters[i] \in {"autoindex", "file"} => "index" \in done
           /\ Filters[i] = "file" => "autoindex" \in done
<1>1. i \in 1 .. AtLog /\ opened \subseteq FilterSet /\ done \subseteq FilterSet
  BY DEF TypeInv, ChainTypes
<1>2. \A k \in 1 .. AtLog : Filters[k] \in Once /\ Filters[k] \notin done =>
          /\ i <= k
          /\ \A j \in k + 1 .. AtLog : Filters[j] \notin Begun
  BY DEF TypeInv, ChainInv, InOrder
<1>3. /\ 2 \in 1 .. AtLog /\ Filters[2] = "request"
      /\ V = 1 => 3 \in 1 .. AtLog /\ Filters[3] = "virtspace"
      /\ AtIndex \in 1 .. AtLog /\ Filters[AtIndex] = "index"
      /\ AtAutoindex \in 1 .. AtLog /\ Filters[AtAutoindex] = "autoindex"
      /\ AtFile \in 1 .. AtLog /\ Filters[AtFile] = "file"
      /\ AtIndex = 3 + V /\ AtAutoindex = 4 + V /\ AtFile = 5 + V /\ V \in {0, 1}
  BY Places DEF AtLog, AtIndex, AtAutoindex, AtFile, PlacesOf
<1>4. V = 0 => "virtspace" \notin Begun
  <2>. SUFFICES ASSUME V = 0, "virtspace" \in FilterSet PROVE FALSE
    BY <1>1 DEF Begun
  <2>. QED  BY Places DEF FilterSet, PlacesOf
<1>5. /\ Filters[i] \in {"virtspace", "index", "autoindex", "file"} => i > 2
      /\ Filters[i] \in {"index", "autoindex", "file"} => i > 2 + V
      /\ Filters[i] \in {"autoindex", "file"} => i > AtIndex
      /\ Filters[i] = "file" => i > AtAutoindex
  BY <1>1, Places DEF PlacesOf, AtIndex, AtAutoindex, AtFile
<1>6. /\ "request" \notin done =>
             {"virtspace", "index", "autoindex", "file"} \cap Begun = {}
      /\ V = 1 /\ "virtspace" \notin done => {"index", "autoindex", "file"} \cap Begun = {}
      /\ "index" \notin done => {"autoindex", "file"} \cap Begun = {}
      /\ "autoindex" \notin done => "file" \notin Begun
  BY <1>2, <1>3, <1>4, Places DEF Once
<1>7. /\ i > 2 => "request" \in done
      /\ i > 2 + V /\ V = 1 => "virtspace" \in done
      /\ i > AtIndex => "index" \in done
      /\ i > AtAutoindex => "autoindex" \in done
  BY <1>1, <1>2, <1>3 DEF Once
<1>. QED  BY <1>4, <1>5, <1>6, <1>7

\* The chain walks one filter at a time.
LEMMA WalkStep ==
    ASSUME [Next]_vars
    PROVE  PassEnd \/ AccesslogWritten \/ i' = i \/ i' = i + 1 \/ i' = i - 1
<1>1. CASE \/ PassDone \/ OpenPlain \/ ReceivePass \/ ReceiveWait \/ ReceiveData
           \/ RequestIncomplete \/ RequestParsed
           \/ VirtspaceOpen \/ VirtspaceProcess
           \/ IndexOpen \/ IndexFound \/ IndexNotFound \/ IndexNoMemory
           \/ AutoindexOpen \/ AutoindexListed \/ AutoindexFailed
  BY <1>1 DEF PassDone, OpenPlain, ReceivePass, ReceiveWait, ReceiveData, RequestIncomplete,
     RequestParsed, VirtspaceOpen, VirtspaceProcess, IndexOpen, IndexFound, IndexNotFound,
     IndexNoMemory, AutoindexOpen, AutoindexListed, AutoindexFailed, Suspend, OpenOk, OpenSkip,
     Destroy, DestroyHolding, Forward, Backward
<1>2. CASE \/ ErrorOpen \/ ErrorProcess \/ TransferOpen \/ TransferProcess
           \/ ResponseOpen \/ ResponseProcess \/ SendAll \/ SendWait
           \/ AccesslogOpen \/ AccesslogCall
           \/ FileOpen \/ FileCall \/ FileOpened \/ FileInfo \/ FileRead
  BY <1>2 DEF ErrorOpen, ErrorProcess, TransferOpen, TransferProcess, ResponseOpen,
     ResponseProcess, SendAll, SendWait, AccesslogOpen, AccesslogCall, FileOpen, FileCall,
     FileOpened, FileInfo, FileRead, FileDone, Redirected, NotModified, NextCall, Suspend,
     OpenOk, OpenSkip, Forward, Backward
<1>3. CASE ReceiveEnd \/ ReceiveNoMemory \/ CallFails \/ SendFails \/ Expired
  BY <1>3 DEF ReceiveEnd, ReceiveNoMemory, CallFails, SendFails, Expired, Destroy,
     DestroyHolding
<1>4. CASE FileResized \/ Rest \/ UNCHANGED vars
  BY <1>4 DEF FileResized, Rest, vars, chainVars
<1>. QED  BY <1>1, <1>2, <1>3, <1>4 DEF Next, Chain

\* The chain leaves the file filter when it is done, or with a part of the file.
LEMMA FileLeft ==
    ASSUME TypeInv, [Next]_vars, Filters[i] = "file", i' # i
    PROVE  \/ "file" \in done
           \/ (FileOpened \/ FileInfo) /\ "file" \in done'
           \/ FileRead
<1>1. i # AtLog /\ i \in 1 .. AtLog
  BY Places DEF PlacesOf, AtFile, AtLog, TypeInv, ChainTypes
<1>2. CASE \/ PassDone \/ PassEnd \/ OpenPlain \/ ReceivePass \/ ReceiveWait \/ ReceiveData
           \/ RequestIncomplete \/ RequestParsed
           \/ VirtspaceOpen \/ VirtspaceProcess
           \/ IndexOpen \/ IndexFound \/ IndexNotFound \/ IndexNoMemory
           \/ AutoindexOpen \/ AutoindexListed \/ AutoindexFailed
  BY <1>1, <1>2, Places DEF PassDone, PassEnd, OpenPlain, ReceivePass, ReceiveWait, ReceiveData,
     Receiving, RequestIncomplete, RequestParsed, VirtspaceOpen, VirtspaceProcess, IndexOpen,
     IndexFound, IndexNotFound, IndexNoMemory, AutoindexOpen, AutoindexListed, AutoindexFailed,
     Opening, Processing, OpenOk
<1>3. CASE \/ ErrorOpen \/ ErrorProcess \/ TransferOpen \/ TransferProcess
           \/ ResponseOpen \/ ResponseProcess \/ SendAll \/ SendWait
           \/ AccesslogOpen \/ AccesslogCall \/ AccesslogWritten
  BY <1>3 DEF ErrorOpen, ErrorProcess, TransferOpen, TransferProcess, ResponseOpen,
     ResponseProcess, SendAll, SendWait, Sending, AccesslogOpen, AccesslogCall, AccesslogWritten,
     CallReturns, Opening, Processing
<1>4. CASE \/ FileOpen \/ FileCall \/ FileOpened \/ FileInfo \/ FileRead
  BY <1>4 DEF FileOpen, FileCall, FileOpened, FileInfo, FileDone, Redirected, NotModified,
     NextCall, Forward, Suspend, OpenOk, OpenSkip
<1>5. CASE ReceiveEnd \/ ReceiveNoMemory \/ CallFails \/ SendFails \/ Expired
  BY <1>5 DEF ReceiveEnd, ReceiveNoMemory, CallFails, SendFails, Expired, Destroy,
     DestroyHolding
<1>6. CASE FileResized \/ Rest \/ UNCHANGED vars
  BY <1>6 DEF FileResized, Rest, vars, chainVars
<1>. QED  BY <1>2, <1>3, <1>4, <1>5, <1>6 DEF Next, Chain

\* The steps that touch the request, the status or the state of the file.
LEMMA StatusStep ==
    ASSUME TypeInv, [Next]_vars
    PROVE  \/ /\ resp'.code = resp.code /\ (resp'.err <=> resp.err)
              /\ file'.state = file.state /\ req' = req /\ taken' = taken
           \/ RequestParsed \/ VirtspaceProcess \/ IndexFound \/ IndexNoMemory
           \/ AutoindexListed \/ AutoindexFailed \/ FileOpen \/ FileOpened \/ FileInfo
           \/ PassEnd \/ AccesslogWritten
<1>0. resp \in Resp /\ file \in [state : 0 .. 2, left : Nat]
  BY DEF TypeInv, DataTypes
<1>1. \/ req' = req /\ taken' = taken
      \/ RequestParsed \/ IndexFound \/ PassEnd \/ AccesslogWritten
  BY ReqStep DEF reqVars, ReceiveData, RequestIncomplete
<1>2. CASE UNCHANGED respVars
  BY <1>1, <1>2 DEF respVars
<1>3. CASE \/ FileRead \/ FileResized \/ ErrorProcess \/ TransferOpen \/ TransferProcess
           \/ ResponseProcess \/ SendAll \/ SendWait
  <2>1. resp'.code = resp.code /\ (resp'.err <=> resp.err)
    BY <1>0, <1>3 DEF FileRead, FileDone, FileResized, ErrorProcess, TransferOpen,
       TransferProcess, ResponseProcess, SendAll, SendWait, Resp
  <2>2. file'.state = file.state
    BY <1>0, <1>3 DEF FileRead, FileDone, FileResized, ErrorProcess, TransferOpen,
       TransferProcess, ResponseProcess, SendAll, SendWait
  <2>. QED  BY <1>1, <2>1, <2>2
<1>. QED  BY <1>2, <1>3, RespStep

\* What is common to the filters after `request`.
LEMMA AskedType ==
    ASSUME TypeInv, AlignInv, "request" \in done
    PROVE  Asked \in Request
<1>1. taken \in Seq(Requests) /\ taken # <<>>
  BY DEF TypeInv, DataTypes, AlignInv
<1>2. taken[Len(taken)] \in Requests
  BY <1>1
<1>. QED  BY <1>2, ClientAssumption DEF Asked

\* The request filter.
LEMMA RequestStatus ==
    ASSUME NothingFails, TypeInv, StatusInv, RequestParsed
    PROVE  Fresh' /\ Known'
<1>1. /\ "request" \notin done /\ done' = done \cup {"request"} /\ opened' = opened
      /\ file' = file /\ req' = Head(buf) /\ taken' = Append(taken, Head(buf))
      /\ Head(buf) \in Requests
      /\ IF req'.bad THEN resp' = Status(resp, 400) ELSE resp' = [resp EXCEPT !.ka = req'.ka]
  BY DEF RequestParsed, Processing, Forward, OutOfMemory, NothingFails, TypeInv, DataTypes
<1>2. Asked' = req' /\ req' \in Request
  BY <1>1, ClientAssumption DEF Asked, TypeInv, DataTypes
<1>3. {"virtspace", "index", "autoindex", "file"} \cap Begun = {}
  BY <1>1, Order
<1>4. HasStatus(IF Asked.bad THEN 400 ELSE 0)'
  <2>1. resp \in Resp /\ 400 \in Statuses /\ HasStatus(0)
    BY <1>1 DEF TypeInv, DataTypes, Statuses, StatusInv, Fresh
  <2>2. CASE req'.bad
    BY <1>1, <1>2, <2>1, <2>2, StatusFields DEF HasStatus
  <2>3. CASE ~req'.bad
    BY <1>1, <1>2, <2>1, <2>3 DEF HasStatus, Resp
  <2>. QED  BY <2>2, <2>3
<1>5. file'.state = 0
  BY <1>1 DEF StatusInv, Fresh
<1>6. OpenedFor(Asked)'
  BY <1>1, <1>2, <1>3, <1>5 DEF OpenedFor, Begun
<1>7. StatusFor(Asked)'
  <2>1. V = 0 => ~IsDocument(Asked)'
    BY Places DEF IsDocument
  <2>2. {"virtspace", "index", "autoindex", "file"} \cap done' = {}
    BY <1>1, <1>3 DEF Begun
  <2>3. HasStatus(IF Asked.bad THEN 400 ELSE IF IsDocument(Asked) THEN 200 ELSE 0)' \/ V = 1
    BY <1>4, <2>1, Places DEF HasStatus
  <2>. QED  BY <1>4, <1>5, <2>2, <2>3, Places DEF StatusFor
<1>. QED  BY <1>1, <1>6, <1>7 DEF Fresh, Known

\* The virtspace filter.
LEMMA VirtspaceStatus ==
    ASSUME TypeInv, AlignInv, StatusInv, VirtspaceOpen \/ VirtspaceProcess
    PROVE  Fresh' /\ Known'
<1>1. /\ Filters[i] = "virtspace" /\ "virtspace" \notin done
      /\ UNCHANGED <<file, req, taken>>
  BY DEF VirtspaceOpen, VirtspaceProcess, Opening, Processing, reqVars, respVars
<1>2. "request" \in done /\ V = 1 /\ {"index", "autoindex", "file"} \cap Begun = {}
  BY <1>1, Order, Places DEF TypeInv, ChainTypes, PlacesOf
<1>3. /\ OpenedFor(Asked) /\ StatusFor(Asked) /\ Asked' = Asked
      /\ HasStatus(IF Asked.bad THEN 400 ELSE 0) /\ file.state = 0 /\ req = Asked
  BY <1>1, <1>2 DEF StatusInv, Known, OpenedFor, StatusFor, Asked, Begun
<1>. HIDE DEF Asked
<1>4. CASE VirtspaceOpen /\ IsDocument(req)
  <2>1. IsDocument(Asked) /\ resp' = resp /\ done' = done /\ opened' = opened \cup {"virtspace"}
    BY <1>3, <1>4 DEF VirtspaceOpen, OpenOk, OpenSkip, IsDocument, respVars
  <2>. QED  BY <1>1, <1>2, <1>3, <2>1 DEF Fresh, Known, OpenedFor, StatusFor, HasStatus
<1>5. CASE VirtspaceOpen /\ ~IsDocument(req)
  <2>1. /\ ~IsDocument(Asked) /\ resp' = resp /\ opened' = opened
        /\ done' = done \cup {"virtspace"}
    BY <1>3, <1>5 DEF VirtspaceOpen, OpenOk, OpenSkip, IsDocument, respVars
  <2>. QED  BY <1>1, <1>2, <1>3, <2>1 DEF Fresh, Known, OpenedFor, StatusFor, HasStatus, Begun
<1>6. CASE VirtspaceProcess
  <2>1. /\ IsDocument(Asked) /\ opened' = opened /\ done' = done \cup {"virtspace"}
    BY <1>3, <1>6 DEF VirtspaceProcess, Processing, Forward, OpenedFor
  <2>2. ~Asked.bad /\ resp.code = 0 /\ ~resp.err
    BY <1>3, <2>1 DEF IsDocument, HasStatus
  <2>3. resp'.code = 200 /\ ~resp'.err
    BY <1>6, <2>2 DEF VirtspaceProcess, TypeInv, DataTypes, Resp
  <2>. QED  BY <1>1, <1>2, <1>3, <2>1, <2>2, <2>3 DEF Fresh, Known, OpenedFor, StatusFor,
              HasStatus, Begun
<1>. QED  BY <1>4, <1>5, <1>6

\* The index filter.
LEMMA IndexStatus ==
    ASSUME NothingFails, TypeInv, AlignInv, StatusInv,
           IndexOpen \/ IndexFound \/ IndexNotFound \/ IndexNoMemory
    PROVE  Fresh' /\ Known'
<1>0. ~IndexNoMemory
  BY DEF IndexNoMemory, OutOfMemory, NothingFails
<1>1. /\ Filters[i] = "index" /\ "index" \notin done /\ UNCHANGED <<file, resp, taken>>
  BY <1>0 DEF IndexOpen, IndexFound, IndexNotFound, Opening, Processing, reqVars, respVars
<1>2. "request" \in done /\ (V = 1 => "virtspace" \in done)
      /\ {"autoindex", "file"} \cap Begun = {}
  BY <1>1, Order
<1>3. /\ OpenedFor(Asked) /\ StatusFor(Asked) /\ Asked' = Asked
      /\ HasStatus(IF Asked.bad THEN 400 ELSE IF IsDocument(Asked) THEN 200 ELSE 0)
      /\ file.state = 0 /\ req = Asked /\ Asked \in Request
  BY <1>1, <1>2, AskedType DEF StatusInv, Known, OpenedFor, StatusFor, Asked, Begun
<1>. HIDE DEF Asked
<1>4. CASE IndexOpen /\ ~resp.err /\ resp.code = 0 /\ req.target \in Slashed
  <2>1. /\ ~Asked.bad /\ ~IsDocument(Asked) /\ Asked.target \in Slashed
        /\ req' = req /\ done' = done /\ opened' = opened \cup {"index"}
    BY <1>3, <1>4 DEF IndexOpen, OpenOk, OpenSkip, HasStatus, reqVars
  <2>. QED  BY <1>1, <1>2, <1>3, <2>1 DEF Fresh, Known, OpenedFor, StatusFor, HasStatus
<1>5. CASE IndexOpen /\ (resp.err \/ resp.code # 0 \/ req.target \notin Slashed)
  <2>1. /\ Asked.bad \/ IsDocument(Asked) \/ Asked.target \notin Slashed
        /\ req' = req /\ done' = done \cup {"index"} /\ opened' = opened
    BY <1>3, <1>5 DEF IndexOpen, OpenOk, OpenSkip, HasStatus, reqVars
  <2>2. Indexed(Asked) = Asked
    BY <2>1 DEF Indexed, Slashed
  <2>. QED  BY <1>1, <1>2, <1>3, <2>1, <2>2 DEF Fresh, Known, OpenedFor, StatusFor, HasStatus, Begun
<1>6. CASE IndexFound \/ IndexNotFound
  <2>1. /\ ~Asked.bad /\ ~IsDocument(Asked)
        /\ done' = done \cup {"index"} /\ opened' = opened
    BY <1>3, <1>6 DEF IndexFound, IndexNotFound, Processing, Forward, OpenedFor
  <2>2. req' = Indexed(Asked)
    BY <1>3, <1>6, <2>1 DEF IndexFound, IndexNotFound, NothingFails, Indexed, reqVars
  <2>. QED  BY <1>1, <1>2, <1>3, <2>1, <2>2 DEF Fresh, Known, OpenedFor, StatusFor, HasStatus, Begun
<1>. QED  BY <1>0, <1>4, <1>5, <1>6

\* The autoindex filter.
LEMMA AutoindexStatus ==
    ASSUME NothingFails, TypeInv, AlignInv, StatusInv,
           AutoindexOpen \/ AutoindexListed \/ AutoindexFailed
    PROVE  Fresh' /\ Known'
<1>1. /\ Filters[i] = "autoindex" /\ "autoindex" \notin done
      /\ UNCHANGED <<file, req, taken>>
  BY DEF AutoindexOpen, AutoindexListed, AutoindexFailed, Opening, Processing, reqVars, respVars
<1>2. /\ "request" \in done /\ (V = 1 => "virtspace" \in done)
      /\ "index" \in done /\ "file" \notin Begun
  BY <1>1, Order
<1>3. /\ OpenedFor(Asked) /\ StatusFor(Asked) /\ Asked' = Asked
      /\ HasStatus(IF Asked.bad THEN 400 ELSE IF IsDocument(Asked) THEN 200 ELSE 0)
      /\ file.state = 0 /\ req = Indexed(Asked) /\ Asked \in Request
  BY <1>1, <1>2, AskedType DEF StatusInv, Known, OpenedFor, StatusFor, Asked, Begun
<1>4. resp \in Resp /\ 404 \in Statuses
  BY DEF TypeInv, DataTypes, Statuses
<1>5. IsDocument(Asked) => ~Asked.bad /\ Asked.target # "nodir"
  BY <1>3 DEF IsDocument, NothingFails, Request
<1>. HIDE DEF Asked
<1>6. CASE AutoindexOpen /\ ~resp.err /\ req.target \in Slashed
  <2>1. /\ ~Asked.bad /\ Asked.target \in Slashed /\ (IsDocument(Asked) \/ Asked.target # "index")
    BY <1>3, <1>6 DEF Indexed, Slashed, HasStatus, Request
  <2>2. resp' = resp /\ done' = done /\ opened' = opened \cup {"autoindex"}
    BY <1>6 DEF AutoindexOpen, OpenOk, respVars
  <2>. QED  BY <1>1, <1>2, <1>3, <2>1, <2>2 DEF Fresh, Known, OpenedFor, StatusFor, HasStatus
<1>7. CASE AutoindexOpen /\ (resp.err \/ req.target \notin Slashed)
  <2>1. Asked.bad \/ IsDocument(Asked) \/ (Asked.target # "listing" /\ Asked.target # "nodir")
    BY <1>3, <1>7 DEF Indexed, Slashed, HasStatus
  <2>2. resp' = resp /\ done' = done \cup {"autoindex"} /\ opened' = opened
    BY <1>7 DEF AutoindexOpen, OpenSkip, respVars
  <2>. QED  BY <1>1, <1>2, <1>3, <1>5, <2>1, <2>2 DEF Fresh, Known, OpenedFor, StatusFor, HasStatus,
              Begun
<1>8. CASE AutoindexListed \/ AutoindexFailed
  <2>1. /\ ~Asked.bad /\ Asked.target \in Slashed /\ (IsDocument(Asked) \/ Asked.target # "index")
        /\ done' = done \cup {"autoindex"} /\ opened' = opened /\ ~resp.err
    BY <1>3, <1>8 DEF AutoindexListed, AutoindexFailed, Processing, Forward, OpenedFor, HasStatus
  <2>2. req = Asked
    BY <1>3, <2>1 DEF Indexed
  <2>3. CASE AutoindexListed
    <3>1. resp'.code = 200 /\ ~resp'.err
      BY <1>4, <2>1, <2>3 DEF AutoindexListed, Resp
    <3>2. IsDocument(Asked) \/ Asked.target = "listing"
      BY <2>1, <2>2, <2>3 DEF AutoindexListed, Slashed
    <3>. QED  BY <1>1, <1>2, <1>3, <2>1, <3>1, <3>2 DEF Fresh, Known, OpenedFor, StatusFor,
                HasStatus, Begun
  <2>4. CASE AutoindexFailed
    <3>1. Asked.target = "nodir" /\ resp' = Status(resp, 404)
      BY <2>2, <2>4 DEF AutoindexFailed, NothingFails, FileCallFails, OutOfMemory
    <3>2. resp'.code = 404 /\ resp'.err
      BY <1>4, <3>1, StatusFields
    <3>. QED  BY <1>1, <1>2, <1>3, <1>5, <2>1, <3>1, <3>2 DEF Fresh, Known, OpenedFor, StatusFor,
                HasStatus, Begun
  <2>. QED  BY <1>8, <2>3, <2>4
<1>. QED  BY <1>6, <1>7, <1>8 DEF AutoindexOpen

\* What the file filter finds when its turn comes.
LEMMA FileTurn ==
    ASSUME TypeInv, AlignInv, StatusInv, Filters[i] = "file"
    PROVE  /\ "request" \in done /\ "autoindex" \in done /\ (V = 1 => "virtspace" \in done)
           /\ OpenedFor(Asked) /\ StatusFor(Asked) /\ Asked \in Request
           /\ req = Indexed(Asked) /\ resp \in Resp
           /\ file \in [state : 0 .. 2, left : Nat]
BY Order, AskedType DEF StatusInv, Known, OpenedFor, TypeInv, DataTypes

\* The file filter: open.
LEMMA FileOpenStatus ==
    ASSUME NothingFails, TypeInv, AlignInv, StatusInv, FileOpen
    PROVE  Fresh' /\ Known'
<1>1. /\ Filters[i] = "file" /\ "file" \notin Begun /\ UNCHANGED <<file, req, taken>>
  BY DEF FileOpen, Opening, reqVars, Begun
<1>2. /\ "request" \in done /\ "autoindex" \in done /\ (V = 1 => "virtspace" \in done)
      /\ OpenedFor(Asked) /\ StatusFor(Asked) /\ Asked' = Asked
      /\ file.state = 0 /\ req = Indexed(Asked) /\ Asked \in Request /\ resp \in Resp
  BY <1>1, FileTurn DEF OpenedFor, Begun, Asked
<1>. HIDE DEF Asked
<1>3. HasStatus(IF Asked.bad THEN 400
                ELSE IF IsDocument(Asked) \/ Asked.target = "listing" THEN 200
                ELSE IF Asked.target = "nodir" THEN 404 ELSE 0)
  BY <1>1, <1>2 DEF StatusFor, Begun
<1>4. IsDocument(Asked) <=> ~Asked.bad /\ <<Asked.method, Asked.target>> \in Docs
  BY DEF IsDocument
<1>5. IsDocument(Asked) => Asked.target # "nodir"
  BY <1>2, <1>4 DEF NothingFails, Request
<1>. DEFINE skipped == resp.err \/ resp.code # 0
            r == [resp EXCEPT !.head = req.method = "HEAD"]
<1>6. skipped <=> \/ Asked.bad \/ IsDocument(Asked)
                  \/ Asked.target = "listing" \/ Asked.target = "nodir"
  BY <1>3 DEF HasStatus
<1>7. r.code = resp.code /\ (r.err <=> resp.err)
  BY <1>2 DEF Resp
<1>8. CASE /\ OpenSkip("file")
           /\ \/ skipped /\ resp' = resp
              \/ ~skipped /\ req.method = "POST" /\ resp' = Status(resp, 405)
              \/ ~skipped /\ req.method # "POST" /\ req.target = "toolong" /\ resp' = r
  <2>1. done' = done \cup {"file"} /\ opened' = opened
    BY <1>8 DEF OpenSkip
  <2>2. req.method = Asked.method /\ (req.target = "toolong" <=> Asked.target = "toolong")
    BY <1>2 DEF Indexed, Request
  <2>3. resp'.code \in Fits(Asked)
    <3>1. CASE skipped /\ resp' = resp
      BY <1>3, <1>4, <1>5, <1>6, <3>1 DEF HasStatus, Fits
    <3>2. CASE ~skipped /\ req.method = "POST" /\ resp' = Status(resp, 405)
      <4>1. resp'.code = 405
        BY <1>2, <3>2, StatusFields DEF Statuses
      <4>. QED  BY <1>4, <1>6, <2>2, <3>2, <4>1 DEF Fits
    <3>3. CASE ~skipped /\ req.method # "POST" /\ req.target = "toolong" /\ resp' = r
      <4>1. resp'.code = 0
        BY <1>7, <3>3
      <4>. QED  BY <1>4, <1>6, <2>2, <3>3, <4>1 DEF Fits
    <3>. QED  BY <1>8, <3>1, <3>2, <3>3
  <2>. QED  BY <1>1, <1>2, <2>1, <2>3 DEF Fresh, Known, OpenedFor, StatusFor
<1>9. CASE /\ OpenOk("file") /\ ~skipped /\ req.method # "POST" /\ req.target # "toolong"
           /\ resp' = r
  <2>1. done' = done /\ opened' = opened \cup {"file"}
    BY <1>9 DEF OpenOk
  <2>2. /\ ~Asked.bad /\ ~IsDocument(Asked) /\ Asked.method # "POST"
        /\ Asked.target \in {"file", "index", "missing", "dir"}
    BY <1>2, <1>6, <1>9 DEF Indexed, Request, Targets
  <2>3. resp'.code = resp.code /\ (resp'.err <=> resp.err)
    BY <1>7, <1>9
  <2>. HIDE DEF r, skipped
  <2>. QED  BY <1>1, <1>2, <2>1, <2>2, <2>3 DEF Fresh, Known, OpenedFor, StatusFor, HasStatus
<1>. QED  BY <1>8, <1>9 DEF FileOpen, NothingFails, OutOfMemory

\* The file filter: the calls that decide the status.
LEMMA FileCallStatus ==
    ASSUME NothingFails, TypeInv, AlignInv, StatusInv, FileOpened \/ FileInfo
    PROVE  Fresh' /\ Known'
<1>1. /\ Filters[i] = "file" /\ "file" \in opened /\ "file" \notin done
      /\ UNCHANGED <<req, taken>>
  BY DEF FileOpened, FileInfo, CallReturns, Processing, reqVars
<1>2. /\ "request" \in done /\ "autoindex" \in done /\ (V = 1 => "virtspace" \in done)
      /\ OpenedFor(Asked) /\ StatusFor(Asked) /\ Asked' = Asked
      /\ req = Indexed(Asked) /\ Asked \in Request /\ resp \in Resp
      /\ file \in [state : 0 .. 2, left : Nat]
  BY <1>1, FileTurn DEF OpenedFor, Begun, Asked
<1>. HIDE DEF Asked
<1>3. /\ ~Asked.bad /\ ~IsDocument(Asked) /\ Asked.method # "POST"
      /\ Asked.target \in {"file", "index", "missing", "dir"}
      /\ req.target = (IF Asked.target = "index" THEN "file" ELSE Asked.target)
      /\ req.ims = Asked.ims
  BY <1>1, <1>2 DEF OpenedFor, Indexed, Request
<1>4. <<Asked.method, Asked.target>> \notin Docs
  BY <1>3 DEF IsDocument
<1>5. file.state # 2 => HasStatus(0)
  BY <1>1, <1>2, <1>3 DEF StatusFor
<1>6. CASE FileOpened
  <2>1. CASE req.target # "missing"
    <3>1. /\ file'.state = 1 /\ done' = done /\ opened' = opened /\ resp' = resp
      BY <1>2, <1>6, <2>1 DEF FileOpened, NextCall, NothingFails, FileCallFails
    <3>2. file.state = 0
      BY <1>6 DEF FileOpened
    <3>. QED  BY <1>1, <1>2, <1>3, <2>1, <3>1, <3>2 DEF Fresh, Known, OpenedFor, StatusFor,
                HasStatus
  <2>2. CASE req.target = "missing"
    <3>1. /\ file' = file /\ done' = done \cup {"file"} /\ opened' = opened
          /\ resp' = Status(resp, 404)
      BY <1>6, <2>2 DEF FileOpened, FileDone, Forward, NothingFails, FileCallFails
    <3>2. resp'.code = 404
      BY <1>2, <3>1, StatusFields DEF Statuses
    <3>3. resp'.code \in Fits(Asked)
      BY <1>3, <1>4, <2>2, <3>2 DEF Fits
    <3>. QED  BY <1>1, <1>2, <3>1, <3>3 DEF Fresh, Known, OpenedFor, StatusFor
  <2>. QED  BY <2>1, <2>2
<1>7. CASE FileInfo
  <2>. HIDE DEF Asked
  <2>0. file.state = 1
    BY <1>7 DEF FileInfo
  <2>1. /\ opened' = opened
        /\ done' = done \cup {"file"} \/ (done' = done /\ file'.state = 2)
    <3>1. \/ Forward({"file"}, 0)
          \/ NextCall /\ \E n \in 0 .. MaxSize : file' = [state |-> 2, left |-> n]
      BY <1>7 DEF FileInfo, FileDone, Redirected, NotModified
    <3>. QED  BY <3>1 DEF NextCall, Forward
  <2>2. resp'.code = IF req.target = "dir" THEN 301 ELSE IF req.ims THEN 304 ELSE 200
    <3>1. CASE req.target = "dir"
      <4>1. resp' = Status(resp, 301)
        BY <1>7, <3>1 DEF FileInfo, FileDone, Redirected, NotModified, NothingFails,
           OutOfMemory, FileCallFails
      <4>. QED  BY <1>2, <3>1, <4>1, StatusFields DEF Statuses
    <3>2. CASE req.target # "dir" /\ req.ims
      <4>1. resp' = Status(resp, 304)
        BY <1>7, <3>2 DEF FileInfo, FileDone, Redirected, NotModified, NothingFails,
           OutOfMemory, FileCallFails
      <4>. QED  BY <1>2, <3>2, <4>1, StatusFields DEF Statuses
    <3>3. CASE req.target # "dir" /\ ~req.ims
      <4>1. PICK n \in 0 .. MaxSize :
                \/ resp' = [resp EXCEPT !.code = 200, !.len = n]
                \/ resp' = [resp EXCEPT !.code = 200, !.len = n, !.done = TRUE]
        BY <1>7, <3>3 DEF FileInfo, FileDone, Redirected, NotModified, NothingFails,
           OutOfMemory, FileCallFails
      <4>. QED  BY <1>2, <3>3, <4>1 DEF Resp
    <3>. QED  BY <3>1, <3>2, <3>3
  <2>3. resp'.code \in Fits(Asked)
    <3>1. Asked.target # "missing"
      BY <1>2, <2>0 DEF OpenedFor
    <3>. QED  BY <1>3, <1>4, <2>2, <3>1 DEF Fits
  <2>4. file'.state # 0 => Asked.target # "missing"
    BY <1>2, <2>0 DEF OpenedFor
  <2>. QED  BY <1>1, <1>2, <2>1, <2>3, <2>4 DEF Fresh, Known, OpenedFor, StatusFor
<1>. QED  BY <1>6, <1>7

\* The other filters leave the request and its status alone.
LEMMA OtherStatus ==
    ASSUME NothingFails, TypeInv, StatusInv, [Next]_vars,
           ~(\/ PassEnd \/ AccesslogWritten \/ RequestParsed
             \/ VirtspaceOpen \/ VirtspaceProcess
             \/ IndexOpen \/ IndexFound \/ IndexNotFound \/ IndexNoMemory
             \/ AutoindexOpen \/ AutoindexListed \/ AutoindexFailed
             \/ FileOpen \/ FileOpened \/ FileInfo)
    PROVE  Fresh' /\ Known'
<1>1. /\ resp'.code = resp.code /\ (resp'.err <=> resp.err)
      /\ file'.state = file.state /\ req' = req /\ taken' = taken
  BY StatusStep
<1>2. /\ "request" \in done' <=> "request" \in done
      /\ "virtspace" \in done' <=> "virtspace" \in done
      /\ "index" \in done' <=> "index" \in done
      /\ "autoindex" \in done' <=> "autoindex" \in done
      /\ "virtspace" \in opened' <=> "virtspace" \in opened
      /\ "index" \in opened' <=> "index" \in opened
      /\ "autoindex" \in opened' <=> "autoindex" \in opened
      /\ "file" \in opened' <=> "file" \in opened
      /\ "file" \in done => "file" \in done'
      /\ "file" \in done' \ done => FileRead
  BY MarkStep
<1>3. "file" \in done' \ done => file.state = 2
  BY <1>2 DEF FileRead
<1>4. Fresh'
  BY <1>1, <1>2 DEF StatusInv, Fresh, HasStatus
<1>5. ASSUME "request" \in done PROVE OpenedFor(Asked)' /\ StatusFor(Asked)'
  <2>1. OpenedFor(Asked) /\ StatusFor(Asked) /\ Asked' = Asked
    BY <1>1, <1>5 DEF StatusInv, Known, Asked
  <2>. HIDE DEF Asked
  <2>2. OpenedFor(Asked)'
    BY <1>1, <1>2, <2>1 DEF OpenedFor
  <2>3. StatusFor(Asked)'
    BY <1>1, <1>2, <1>3, <2>1 DEF StatusFor, HasStatus
  <2>. QED  BY <2>2, <2>3
<1>. QED  BY <1>2, <1>4, <1>5 DEF Known

\* The chain does not pass the file filter without an answer.
LEMMA AnsweredKept ==
    ASSUME TypeInv, StatusInv, [Next]_vars, ~(PassEnd \/ AccesslogWritten)
    PROVE  Answered'
<1>. SUFFICES ASSUME i' > AtFile PROVE "file" \in done' \/ file'.state = 2
  BY DEF Answered
<1>1. i \in 1 .. AtLog /\ AtFile \in 1 .. AtLog /\ file \in [state : 0 .. 2, left : Nat]
  BY Places DEF TypeInv, ChainTypes, DataTypes, AtFile, AtLog
<1>2. "file" \in done => "file" \in done'
  BY MarkStep
<1>3. file.state = 2 => file'.state = 2
  <2>1. \/ file'.state = file.state \/ FileOpened \/ FileInfo
        \/ RequestParsed \/ VirtspaceProcess \/ IndexFound \/ IndexNoMemory
        \/ AutoindexListed \/ AutoindexFailed \/ FileOpen
    BY StatusStep
  <2>. QED  BY <2>1 DEF FileOpened, FileInfo, RequestParsed, VirtspaceProcess, IndexFound,
              IndexNoMemory, AutoindexListed, AutoindexFailed, FileOpen, respVars
<1>4. CASE i > AtFile
  BY <1>2, <1>3, <1>4 DEF StatusInv, Answered
<1>5. CASE i <= AtFile
  <2>1. i = AtFile /\ i' # i
    BY <1>1, <1>5, WalkStep
  <2>2. Filters[i] = "file"
    BY <1>1, <2>1, Places DEF PlacesOf
  <2>3. FileRead => file.state = 2
    BY DEF FileRead
  <2>. QED  BY <1>2, <1>3, <2>1, <2>2, <2>3, FileLeft
<1>. QED  BY <1>1, <1>4, <1>5

\* Every answer keeps fitting its request.
LEMMA StatusKept ==
    ASSUME NothingFails
    PROVE  TypeInv /\ AlignInv /\ StatusInv /\ [Next]_vars => StatusInv'
<1>. SUFFICES ASSUME TypeInv, AlignInv, StatusInv, [Next]_vars PROVE StatusInv'
  OBVIOUS
<1>1. CASE PassEnd \/ AccesslogWritten
  <2>1. CASE Destroy /\ UNCHANGED <<reqVars, respVars>>
    <3>1. UNCHANGED <<i, opened, done, req, taken, resp, file>>
      BY <2>1 DEF Destroy, DestroyHolding, reqVars, respVars
    <3>2. Asked' = Asked
      BY <3>1 DEF Asked
    <3>. QED  BY <3>1, <3>2 DEF StatusInv, Fresh, Known, Answered, OpenedFor, StatusFor, HasStatus
  <2>2. CASE Reset
    <3>1. i' = 1 /\ done' = {} /\ file'.state = 0 /\ resp' = NoResp
      BY <2>2 DEF Reset, ResetRest, NoFile
    <3>. QED  BY <3>1, Places DEF StatusInv, Fresh, Known, Answered, HasStatus, NoResp, AtFile
  <2>. QED  BY <1>1, <2>1, <2>2, EndStep
<1>2. CASE ~(PassEnd \/ AccesslogWritten)
  <2>1. Fresh' /\ Known'
    BY <1>2, RequestStatus, VirtspaceStatus, IndexStatus, AutoindexStatus, FileOpenStatus,
       FileCallStatus, OtherStatus
  <2>. QED  BY <1>2, <2>1, AnsweredKept DEF StatusInv
<1>. QED  BY <1>1, <1>2

-----------------------------------------------------------------------------
(* The connection implements HttpService. *)

\* A request is logged after its answer, and once.
LogInv ==
    /\ logged <= Len(taken)
    /\ "request" \in done /\ state # "ended" => logged < Len(taken)

\* Only the end of the chain writes a line.
LEMMA LogKept == TypeInv /\ LogInv /\ [Next]_vars => LogInv'
<1>. SUFFICES ASSUME TypeInv, LogInv, [Next]_vars PROVE LogInv'
  OBVIOUS
<1>0. taken \in Seq(Requests) /\ logged \in Nat
  BY DEF TypeInv, DataTypes
<1>1. CASE PassEnd \/ AccesslogWritten
  <2>1. logged < Len(taken) /\ state # "ended"
    BY <1>1, AtEnd, EndStep DEF LogInv
  <2>2. logged' = logged \/ logged' = logged + 1
    BY <1>1, EndStep
  <2>3. taken' = taken /\ (state' = "ended" \/ done' = {})
    BY <1>1, EndStep DEF Destroy, DestroyHolding, Reset, ResetRest, reqVars
  <2>. QED  BY <1>0, <2>1, <2>2, <2>3 DEF LogInv
<1>2. CASE RequestParsed
  <2>1. logged' = logged /\ Len(taken') = Len(taken) + 1
    BY <1>0, <1>2 DEF RequestParsed, pastVars, TypeInv, DataTypes
  <2>. QED  BY <1>0, <2>1 DEF LogInv
<1>3. CASE ~(PassEnd \/ AccesslogWritten \/ RequestParsed)
  <2>1. logged' = logged
    BY <1>3, PastStep DEF pastVars, SendAll, SendWait
  <2>2. taken' = taken
    BY <1>3, ReqStep DEF reqVars, ReceiveData, RequestIncomplete, IndexFound
  <2>3. "request" \in done' => "request" \in done
    BY <1>3, MarkStep
  <2>4. state = "ended" => state' = "ended"
    BY EndedStep DEF vars, chainVars
  <2>. QED  BY <2>1, <2>2, <2>3, <2>4 DEF LogInv
<1>. QED  BY <1>1, <1>2, <1>3

\* The statuses of the responses.
Answers == [n \in 1 .. Len(wire) |-> wire[n].code]

\* The answers are one longer when a header was sent, and otherwise the same.
LEMMA AnswerStep ==
    ASSUME TypeInv, AlignInv, SendAll \/ SendWait
    PROVE  \/ Answers' = Answers
           \/ iov.hdr /\ Answers' = Append(Answers, resp.code)
<1>0. wire \in Seq(Response) /\ resp \in Resp
  BY DEF TypeInv, DataTypes
<1>1. CASE wire' = wire
  BY <1>1 DEF Answers
<1>2. ASSUME NEW v \in [hdr : BOOLEAN, body : Nat], wire' = Received(v), v.hdr <=> iov.hdr
      PROVE  \/ Answers' = Answers
             \/ iov.hdr /\ Answers' = Append(Answers, resp.code)
  <2>1. /\ wire' \in Seq(Response)
        /\ Len(wire') = IF v.hdr THEN Len(wire) + 1 ELSE Len(wire)
        /\ \A k \in 1 .. Len(wire') - 1 : wire'[k] = wire[k]
        /\ Len(wire') > 0 => wire'[Len(wire')].code = Continued(v).code
    BY <1>2, ReceivedFields
  <2>2. Answers \in Seq(Statuses) /\ Len(Answers) = Len(wire)
    <3>0. \A n \in 1 .. Len(wire) : wire[n] \in Response
      BY <1>0
    <3>1. \A n \in 1 .. Len(wire) : wire[n].code \in Statuses
      BY <3>0 DEF Response
    <3>. QED  BY <1>0, <3>1 DEF Answers
  <2>3. CASE ~v.hdr
    <3>1. Len(wire') = Len(wire) /\ (Len(wire) > 0 => wire'[Len(wire)].code = wire[Len(wire)].code)
      BY <2>1, <2>3 DEF Continued
    <3>2. \A n \in 1 .. Len(wire) : wire'[n].code = wire[n].code
      BY <1>0, <2>1, <3>1
    <3>. QED  BY <3>1, <3>2 DEF Answers
  <2>4. CASE v.hdr
    <3>1. Len(wire') = Len(wire) + 1 /\ wire'[Len(wire) + 1].code = resp.code
      BY <1>0, <2>1, <2>4 DEF Continued, Header
    <3>2. \A n \in 1 .. Len(wire) : wire'[n].code = wire[n].code
      BY <1>0, <2>1, <3>1
    <3>3. Answers' = [n \in 1 .. Len(wire) + 1 |->
                         IF n = Len(wire) + 1 THEN resp.code ELSE wire[n].code]
      BY <1>0, <3>1, <3>2 DEF Answers
    <3>4. Append(Answers, resp.code) = [n \in 1 .. Len(wire) + 1 |->
                         IF n = Len(wire) + 1 THEN resp.code ELSE wire[n].code]
      BY <1>0, <2>2 DEF Answers, Resp
    <3>. QED  BY <1>2, <2>4, <3>3, <3>4
  <2>. QED  BY <2>3, <2>4
<1>. QED  BY <1>1, <1>2, SendAligned

\* Every step of the connection is a step of the service, or changes nothing of it.
LEMMA ServiceStep ==
    ASSUME NothingFails, TypeInv, CloseInv, AlignInv, StatusInv, LogInv, [Next]_vars
    PROVE  [Service!Next]_(Service!vars)
<1>0. /\ wire \in Seq(Response) /\ taken \in Seq(Requests) /\ logged \in Nat
      /\ Len(Answers) = Len(wire)
  <2>1. wire \in Seq(Response)
    BY DEF TypeInv, DataTypes
  <2>2. \A n \in 1 .. Len(wire) : wire[n].code \in Statuses
    <3>1. \A n \in 1 .. Len(wire) : wire[n] \in Response
      BY <2>1
    <3>. QED  BY <3>1 DEF Response
  <2>3. Answers \in Seq(Statuses) /\ Len(Answers) = Len(wire)
    BY <2>1, <2>2 DEF Answers
  <2>. QED  BY <2>3 DEF TypeInv, DataTypes
<1>1. CASE RequestParsed
  <2>1. /\ "request" \notin done /\ wire' = wire /\ logged' = logged
        /\ taken' = Append(taken, Head(buf)) /\ Head(buf) \in Requests
    BY <1>1 DEF RequestParsed, Processing, pastVars, TypeInv, DataTypes
  <2>2. Len(wire) = Len(taken)
    BY <1>0, <2>1 DEF AlignInv
  <2>3. Service!Take
    BY <1>0, <2>1, <2>2 DEF Service!Take, Answers
  <2>. QED  BY <2>3 DEF Service!Next
<1>2. CASE SendAll \/ SendWait
  <2>1. taken' = taken /\ logged' = logged
    BY <1>2 DEF SendAll, SendWait, reqVars
  <2>2. CASE Answers' = Answers
    BY <2>1, <2>2 DEF Service!vars, Answers
  <2>3. CASE iov.hdr /\ Answers' = Append(Answers, resp.code)
    <3>1. i = AtSend /\ i > AtFile /\ "response" \in done /\ "request" \in done
      BY <2>3, RequestBehind, Places DEF AlignInv, CloseInv, Begun, AtSend, AtFile
    <3>2. resp.code \in Fits(taken[Len(taken)])
      <4>1. "autoindex" \in done /\ ("file" \in done \/ file.state = 2)
        BY <3>1, Order DEF StatusInv, Answered, Known, OpenedFor, Begun
      <4>. QED  BY <3>1, <4>1 DEF StatusInv, Known, StatusFor, Asked
    <3>3. Len(wire) < Len(taken)
      BY <1>0, <2>3, <3>1 DEF AlignInv, HeaderSent
    <3>4. Service!Answer
      BY <1>0, <2>1, <2>3, <3>2, <3>3 DEF Service!Answer, Answers
    <3>. QED  BY <3>4 DEF Service!Next
  <2>. QED  BY <1>2, <2>2, <2>3, AnswerStep
<1>3. CASE PassEnd \/ AccesslogWritten
  <2>1. wire' = wire /\ taken' = taken /\ Answers' = Answers
    BY <1>3, EndStep DEF Reset, ResetRest, reqVars, Answers
  <2>2. CASE logged' = logged
    BY <2>1, <2>2 DEF Service!vars, Answers
  <2>3. CASE logged' = logged + 1
    <3>1. logged < Len(taken) /\ "response" \in done /\ ~iov.hdr
      BY <1>3, AtEnd, EndStep, Places DEF LogInv, AlignInv, AtLog, AtSend
    <3>2. Len(wire) = Len(taken)
      BY <1>0, <3>1 DEF AlignInv, HeaderSent
    <3>3. Service!Log
      BY <1>0, <2>1, <2>3, <3>1, <3>2 DEF Service!Log, Answers
    <3>. QED  BY <3>3 DEF Service!Next
  <2>. QED  BY <1>3, <2>2, <2>3, EndStep
<1>4. CASE ~(RequestParsed \/ SendAll \/ SendWait \/ PassEnd \/ AccesslogWritten)
  <2>1. wire' = wire /\ logged' = logged /\ taken' = taken
    BY <1>4, PastStep, ReqStep DEF pastVars, reqVars, ReceiveData, RequestIncomplete, IndexFound
  <2>. QED  BY <2>1 DEF Service!vars
<1>. QED  BY <1>1, <1>2, <1>3, <1>4

(***************************************************************************)
(* When nothing fails, a connection implements HttpService: every request  *)
(* parsed is answered once, in order, with a status that fits it, and      *)
(* logged at most once, after its answer -- over every filter that may     *)
(* answer it, every suspension and every split of the bytes.               *)
(***************************************************************************)
THEOREM ServiceImplemented ==
    ASSUME NothingFails
    PROVE  Spec => ServiceSpec
<1>1. "oom" \notin MayHappen
  BY DEF NothingFails
<1>. DEFINE Inv == TypeInv /\ CloseInv /\ AlignInv /\ StatusInv /\ LogInv
<1>2. Init => Inv /\ Service!Init
  <2>. SUFFICES ASSUME Init PROVE Inv /\ Service!Init
    OBVIOUS
  <2>1. TypeInv
    BY TypeInit
  <2>2. CloseInv /\ AlignInv
    BY DEF Init, CloseInv, AlignInv, HeaderSent, NoIov
  <2>3. StatusInv
    BY Places DEF Init, StatusInv, Fresh, Known, Answered, HasStatus, NoResp, NoFile, AtFile
  <2>4. LogInv
    BY DEF Init, LogInv
  <2>5. Service!Init
    <3>1. [n \in 1 .. Len(wire) |-> wire[n].code] = <<>>
      BY DEF Init
    <3>. QED  BY <3>1 DEF Init, Service!Init
  <2>. QED  BY <2>1, <2>2, <2>3, <2>4, <2>5
<1>3. Inv /\ [Next]_vars => Inv' /\ [Service!Next]_(Service!vars)
  BY <1>1, TypeStep, CloseKept, AlignKept, StatusKept, LogKept, ServiceStep
<1>. QED  BY <1>2, <1>3, PTL DEF Spec, ServiceSpec, Service!Spec

=============================================================================
