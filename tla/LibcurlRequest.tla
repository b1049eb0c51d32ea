--------------------------- MODULE LibcurlRequest ---------------------------
(***************************************************************************)
(* libcurl_wrap_cli_request() of src/src/libs/utils/libcurl_wrap.c, with   *)
(* the helpers it calls (the POST and PUT option setters, set_headers())   *)
(* and the two callbacks libcurl runs inside curl_easy_perform(): the      *)
(* body read callback and the write callback, installed for both the body  *)
(* and the response headers.                                               *)
(*                                                                         *)
(* The call is a sequence of steps, each guarded by a CHECK_DO that jumps  *)
(* to the cleanup at "end".  Every step that can really fail (an          *)
(* allocation, a curl_easy_setopt, the transfer, a getinfo) fails          *)
(* nondeterministically when its kind is in Faults.  The heap is the four  *)
(* blocks the call allocates and the nodes of its curl_slist; the model    *)
(* tracks which are live, which the function still points to, and which   *)
(* it hands to the caller.  Strings are abstracted to lengths, a received *)
(* body to the sequence of the chunks libcurl delivers.                   *)
(***************************************************************************)
EXTENDS Integers, Sequences

CONSTANTS
    Methods,        \* libcurl_wrap_method_t values the caller may pass
    Bodies,         \* body: NULL or a strlen()
    MaxHdrs,        \* bound on the caller's header array
    MaxChunks,      \* bound on the body chunks the server sends
    HdrLines,       \* header lines of a response (one header callback each)
    MaxRead,        \* bound on size*nmemb of a read callback
    Faults,         \* the kinds of failure that may happen
    NULL

FaultKinds == {"init", "calloc", "setopt", "slist", "perform", "realloc",
               "getinfo"}

ASSUME
    /\ Methods \subseteq {"GET", "POST", "PUT", "MAX"}
    /\ Bodies \subseteq Nat \cup {NULL}
    /\ MaxHdrs \in Nat /\ MaxChunks \in Nat /\ HdrLines \in Nat \ {0}
    /\ MaxRead \in Nat \ {0}
    /\ Faults \subseteq FaultKinds

\* libcurl_wrap_req_ctx_t as the call sees it: find_header()'s answers for
\* "User-Agent" and for "Transfer-Encoding: chunked" stand for the header
\* array's contents; stats and hdrsOut say whether stats_ctx and
\* ref_headers_out_str are non-NULL.
Requests ==
    {r \in [method : Methods, body : Bodies, nhdrs : 0..MaxHdrs,
            ua : BOOLEAN, chunked : BOOLEAN, stats : BOOLEAN,
            hdrsOut : BOOLEAN] :
        (IF r.ua THEN 1 ELSE 0) + (IF r.chunked THEN 1 ELSE 0) <= r.nhdrs}

\* The heap blocks of the call: the CURL handle, the URL, and the buffers
\* of the body and header write contexts.
Blocks == {"curl", "url", "data", "hdata"}

\* Two CURLcode values: the one a write callback's 0 return produces, and
\* one standing for every transfer error.
CURLE_WRITE_ERROR == 23
CURLE_OPERATION_TIMEDOUT == 28

VARIABLES
    req,            \* *libcurl_wrap_req_ctx
    replyLen,       \* body chunks the server sends
    pc,             \* the step of the call
    heap,           \* block -> "none", "live" or "freed"
    ptr,            \* block -> the function's pointer to it is non-NULL
    badFree,        \* a block was freed twice
    slistLive,      \* curl_slist nodes allocated and not freed
    slistRef,       \* of them, the nodes reachable from hdr_list
    hi,             \* headers appended so far by set_headers()
    upSrc,          \* what libcurl uploads: "none", "body" or "stdin"
    readLeft,       \* curl_read_mem_ctx.size_left
    sent,           \* bytes the read callback has handed to libcurl
    upDone,         \* the upload is over
    nHdr,           \* header lines delivered
    nBody,          \* body chunks delivered
    wbuf,           \* curl_write_mem_ctx: the chunks received
    hbuf,           \* curl_write_mem_ctx_hdr: the header lines received
    response,       \* *ref_response_str: NULL or the chunks handed over
    hdrsOut,        \* *ref_headers_out_str: NULL or the lines handed over
    httpCode,       \* *ref_http_ret_code
    statsSet,       \* *stats_ctx has been filled in
    endCode         \* end_code, the value returned

vars == <<req, replyLen, pc, heap, ptr, badFree, slistLive, slistRef, hi,
          upSrc, readLeft, sent, upDone, nHdr, nBody, wbuf, hbuf, response,
          hdrsOut, httpCode, statsSet, endCode>>

Steps == {"begin", "init", "url", "opts", "hdrs", "wsetup", "hsetup",
          "tuning", "perform", "finish", "end", "returned"}

TypeOK ==
    /\ req \in Requests
    /\ replyLen \in 0..MaxChunks
    /\ pc \in Steps
    /\ heap \in [Blocks -> {"none", "live", "freed"}]
    /\ ptr \in [Blocks -> BOOLEAN]
    /\ badFree \in BOOLEAN
    /\ slistLive \in 0..MaxHdrs /\ slistRef \in 0..slistLive
    /\ hi \in 0..MaxHdrs
    /\ upSrc \in {"none", "body", "stdin"}
    /\ readLeft \in Nat /\ sent \in Nat /\ upDone \in BOOLEAN
    /\ nHdr \in 0..HdrLines /\ nBody \in 0..MaxChunks
    /\ wbuf \in Seq(1..MaxChunks) /\ hbuf \in Seq(1..HdrLines)
    /\ response \in {NULL} \cup Seq(1..MaxChunks)
    /\ hdrsOut \in {NULL} \cup Seq(1..HdrLines)
    /\ httpCode \in {404, 200}
    /\ statsSet \in BOOLEAN
    /\ endCode \in {-1, 0, CURLE_WRITE_ERROR, CURLE_OPERATION_TIMEDOUT}

\* The caller's variables: response_str = nullptr as in curl_req() and
\* plottingThr(); the function's locals at their initialisers.
Init ==
    /\ req \in Requests
    /\ replyLen \in 0..MaxChunks
    /\ pc = "begin"
    /\ heap = [b \in Blocks |-> "none"]
    /\ ptr = [b \in Blocks |-> FALSE]
    /\ badFree = FALSE
    /\ slistLive = 0 /\ slistRef = 0
    /\ hi = 0
    /\ upSrc = "none" /\ readLeft = 0 /\ sent = 0 /\ upDone = FALSE
    /\ nHdr = 0 /\ nBody = 0 /\ wbuf = <<>> /\ hbuf = <<>>
    /\ response = NULL /\ hdrsOut = NULL
    /\ httpCode = 404
    /\ statsSet = FALSE
    /\ endCode = -1

Fails(kind) == kind \in Faults

Goto(l) == pc' = l

\* CHECK_DO(..., goto end) with end_code still -1.
GotoEnd == pc' = "end"

Alloc(b) ==
    /\ heap' = [heap EXCEPT ![b] = "live"]
    /\ ptr' = [ptr EXCEPT ![b] = TRUE]

memVars == <<heap, ptr, badFree, slistLive, slistRef>>
upVars == <<upSrc, readLeft, sent, upDone>>
rxVars == <<nHdr, nBody, wbuf, hbuf>>
outVars == <<response, hdrsOut, httpCode, statsSet, endCode>>

-----------------------------------------------------------------------------
(* libcurl_wrap_cli_request() up to curl_easy_perform()                    *)

\* The argument checks pass (every caller passes its request and both
\* references); *ref_http_ret_code = 404; a method >= METHOD_MAX ends it.
Begin ==
    /\ pc = "begin"
    /\ httpCode' = 404
    /\ IF req.method = "MAX" THEN GotoEnd ELSE Goto("init")
    /\ UNCHANGED <<req, replyLen, memVars, hi, upVars, rxVars, response,
                   hdrsOut, statsSet, endCode>>

\* curl = curl_easy_init().
EasyInit ==
    /\ pc = "init"
    /\ \/ Fails("init") /\ GotoEnd /\ UNCHANGED memVars
       \/ Alloc("curl") /\ Goto("url") /\ UNCHANGED <<badFree, slistLive, slistRef>>
    /\ UNCHANGED <<req, replyLen, hi, upVars, rxVars, outVars>>

\* host and port are non-NULL and the URL is far below URL_MAX_SIZE for
\* every request of this repository; url = calloc(url_size), snprintf,
\* curl_easy_setopt(CURLOPT_URL).
ComposeUrl ==
    /\ pc = "url"
    /\ \/ Fails("calloc") /\ GotoEnd /\ UNCHANGED memVars
       \/ /\ Alloc("url")
          /\ \/ Fails("setopt") /\ GotoEnd
             \/ Goto("opts")
          /\ UNCHANGED <<badFree, slistLive, slistRef>>
    /\ UNCHANGED <<req, replyLen, hi, upVars, rxVars, outVars>>

\* What libcurl will upload.  POST with a body reads it through
\* curl_read_body_callback; POST without a body declares
\* POSTFIELDSIZE = size_left = 0, unless find_header() saw
\* "Transfer-Encoding: chunked", in which case no size and no read
\* function are set.  PUT (CURLOPT_PUT is CURLOPT_UPLOAD) without a body
\* sets no read function either.  libcurl's default read function is
\* fread() on CURLOPT_READDATA, which defaults to stdin.
UploadSource(r) ==
    CASE r.method = "POST" ->
            IF r.body # NULL THEN "body" ELSE IF r.chunked THEN "stdin" ELSE "none"
      [] r.method = "PUT" -> IF r.body # NULL THEN "body" ELSE "stdin"
      [] OTHER -> "none"

\* libcurl_wrap_cli_request_post_options() and _put_options(): every
\* curl_easy_setopt may fail (return -1, goto end); size_left = strlen(body).
MethodOptions ==
    /\ pc = "opts"
    /\ \/ /\ req.method \in {"POST", "PUT"}
          /\ Fails("setopt")
          /\ GotoEnd
          /\ UNCHANGED upVars
       \/ /\ upSrc' = UploadSource(req)
          /\ readLeft' = IF upSrc' = "body" THEN req.body ELSE 0
          /\ sent' = 0
          /\ upDone' = (upSrc' = "none")
          /\ Goto("hdrs")
    /\ UNCHANGED <<req, replyLen, memVars, hi, rxVars, outVars>>

\* Bug variant: the loop runs one turn past the NULL terminator.
SetHeaderPastEnd ==
    /\ pc = "hdrs"
    /\ hi <= req.nhdrs
    /\ \/ slistLive' = slistLive + 1 /\ slistRef' = slistRef + 1
       \/ Fails("slist") /\ slistRef' = 0 /\ UNCHANGED slistLive
    /\ hi' = hi + 1
    /\ UNCHANGED <<req, replyLen, pc, heap, ptr, badFree, upVars, rxVars,
                   outVars>>

\* set_headers(), one turn of its loop: *ref_hdr_list =
\* curl_slist_append(*ref_hdr_list, hdr).  On an allocation failure
\* curl_slist_append returns NULL and leaves the list alone: hdr_list
\* becomes NULL and the nodes appended so far are unreachable.
SetHeader ==
    /\ pc = "hdrs"
    /\ hi < req.nhdrs
    /\ \/ slistLive' = slistLive + 1 /\ slistRef' = slistRef + 1
       \/ Fails("slist") /\ slistRef' = 0 /\ UNCHANGED slistLive
    /\ hi' = hi + 1
    /\ UNCHANGED <<req, replyLen, pc, heap, ptr, badFree, upVars, rxVars,
                   outVars>>

\* The loop ends at the NULL terminator; CURLOPT_HTTPHEADER is set if the
\* list is non-NULL, and a failure there is only logged.
SetHeadersDone ==
    /\ pc = "hdrs"
    /\ hi = req.nhdrs
    /\ Goto("wsetup")
    /\ UNCHANGED <<req, replyLen, memVars, hi, upVars, rxVars, outVars>>

\* CURLOPT_WRITEFUNCTION; curl_write_mem_ctx.data = calloc(1, 1);
\* CURLOPT_WRITEDATA.  The header context is set up the same way.
BufferSetup(b, next) ==
    /\ \/ Fails("setopt") /\ GotoEnd /\ UNCHANGED memVars
       \/ Fails("calloc") /\ GotoEnd /\ UNCHANGED memVars
       \/ /\ Alloc(b)
          /\ \/ Fails("setopt") /\ GotoEnd
             \/ Goto(next)
          /\ UNCHANGED <<badFree, slistLive, slistRef>>
    /\ UNCHANGED <<req, replyLen, hi, upVars, rxVars, outVars>>

WriteSetup == pc = "wsetup" /\ BufferSetup("data", "hsetup")

HeaderSetup == pc = "hsetup" /\ BufferSetup("hdata", "tuning")

\* CURLOPT_VERBOSE if asked, CURLOPT_USERAGENT if find_header() found a
\* User-Agent, CURLOPT_TIMEOUT, CURLOPT_NOSIGNAL.
RequestOptions ==
    /\ pc = "tuning"
    /\ \/ Fails("setopt") /\ GotoEnd
       \/ Goto("perform")
    /\ UNCHANGED <<req, replyLen, memVars, hi, upVars, rxVars, outVars>>

-----------------------------------------------------------------------------
(* curl_easy_perform(): libcurl uploads, then calls the header and body    *)
(* write callbacks, and returns CURLE_OK or an error code                  *)

\* Bug variant: p_read moves on but size_left is never decremented.
ReadBodyNoAdvance ==
    /\ pc = "perform"
    /\ upSrc = "body" /\ ~upDone
    /\ \E max \in 1..MaxRead :
          IF readLeft = 0
          THEN upDone' = TRUE /\ UNCHANGED <<readLeft, sent>>
          ELSE LET n == IF readLeft > max THEN max ELSE readLeft
               IN /\ sent' = sent + n
                  /\ UNCHANGED <<readLeft, upDone>>
    /\ UNCHANGED <<req, replyLen, pc, memVars, hi, upSrc, rxVars, outVars>>

\* curl_read_body_callback(dest, size, nmemb): libcurl asks for up to
\* size*nmemb (> 0) bytes; the callback copies min(size_left, max), moves
\* p_read on and returns the count, or returns 0 once size_left is 0,
\* which ends the upload.
ReadBody ==
    /\ pc = "perform"
    /\ upSrc = "body" /\ ~upDone
    /\ \E max \in 1..MaxRead :
          IF readLeft = 0
          THEN upDone' = TRUE /\ UNCHANGED <<readLeft, sent>>
          ELSE LET n == IF readLeft > max THEN max ELSE readLeft
               IN /\ readLeft' = readLeft - n
                  /\ sent' = sent + n
                  /\ UNCHANGED upDone
    /\ UNCHANGED <<req, replyLen, pc, memVars, hi, upSrc, rxVars, outVars>>

\* libcurl's default read function: fread() on stdin until end of file.
ReadStdin ==
    /\ pc = "perform"
    /\ upSrc = "stdin" /\ ~upDone
    /\ upDone' = TRUE
    /\ UNCHANGED <<req, replyLen, pc, memVars, hi, upSrc, readLeft, sent,
                   rxVars, outVars>>

\* Bug variant: each chunk is copied to the start of the buffer instead of
\* at data[size].
WriteCallbackOverwrite(buf, item) ==
    \/ /\ Fails("realloc")
       /\ endCode' = CURLE_WRITE_ERROR
       /\ GotoEnd
       /\ UNCHANGED <<nHdr, nBody, wbuf, hbuf>>
    \/ /\ buf = "data"
       /\ wbuf' = <<item>> /\ nBody' = nBody + 1
       /\ UNCHANGED <<endCode, pc, nHdr, hbuf>>
    \/ /\ buf = "hdata"
       /\ hbuf' = <<item>> /\ nHdr' = nHdr + 1
       /\ UNCHANGED <<endCode, pc, nBody, wbuf>>

\* curl_write_body_callback(): realloc(data, size + realsize + 1), append,
\* NUL-terminate.  A failed realloc returns 0 and libcurl aborts the
\* transfer with CURLE_WRITE_ERROR; the old buffer stays in the context.
WriteCallback(buf, item) ==
    \/ /\ Fails("realloc")
       /\ endCode' = CURLE_WRITE_ERROR
       /\ GotoEnd
       /\ UNCHANGED <<nHdr, nBody, wbuf, hbuf>>
    \/ /\ buf = "data"
       /\ wbuf' = Append(wbuf, item) /\ nBody' = nBody + 1
       /\ UNCHANGED <<endCode, pc, nHdr, hbuf>>
    \/ /\ buf = "hdata"
       /\ hbuf' = Append(hbuf, item) /\ nHdr' = nHdr + 1
       /\ UNCHANGED <<endCode, pc, nBody, wbuf>>

\* A response header line, once the upload is over.
WriteHeader ==
    /\ pc = "perform"
    /\ upDone /\ nHdr < HdrLines
    /\ WriteCallback("hdata", nHdr + 1)
    /\ UNCHANGED <<req, replyLen, memVars, hi, upVars, response, hdrsOut,
                   httpCode, statsSet>>

\* A chunk of the response body, after the headers.
WriteBody ==
    /\ pc = "perform"
    /\ upDone /\ nHdr = HdrLines /\ nBody < replyLen
    /\ WriteCallback("data", nBody + 1)
    /\ UNCHANGED <<req, replyLen, memVars, hi, upVars, response, hdrsOut,
                   httpCode, statsSet>>

\* curl_easy_perform() returns CURLE_OK: the exchange is complete.
PerformOk ==
    /\ pc = "perform"
    /\ upDone /\ nHdr = HdrLines /\ nBody = replyLen
    /\ Goto("finish")
    /\ UNCHANGED <<req, replyLen, memVars, hi, upVars, rxVars, outVars>>

\* curl_easy_perform() fails at any point (connection refused, reset,
\* CURLOPT_TIMEOUT): end_code = curl_code, goto end.
PerformFail ==
    /\ pc = "perform"
    /\ Fails("perform")
    /\ endCode' = CURLE_OPERATION_TIMEDOUT
    /\ GotoEnd
    /\ UNCHANGED <<req, replyLen, memVars, hi, upVars, rxVars, response,
                   hdrsOut, httpCode, statsSet>>

-----------------------------------------------------------------------------
(* After the transfer                                                      *)

\* Bug variant: the body buffer is handed over without
\* "curl_write_mem_ctx.data = NULL; // Avoid double referencing".
FinishNoDetach ==
    /\ pc = "finish"
    /\ statsSet' = req.stats
    /\ LET giveData == Len(wbuf) > 0
           giveHdrs == req.hdrsOut /\ Len(hbuf) > 0
       IN /\ response' = IF giveData THEN wbuf ELSE response
          /\ wbuf' = IF giveData THEN <<>> ELSE wbuf
          /\ hdrsOut' = IF giveHdrs THEN hbuf ELSE hdrsOut
          /\ hbuf' = IF giveHdrs THEN <<>> ELSE hbuf
          /\ ptr' = [ptr EXCEPT !["hdata"] = @ /\ ~giveHdrs]
    /\ \/ Fails("getinfo") /\ UNCHANGED <<httpCode, endCode>>
       \/ httpCode' = 200 /\ endCode' = 0
    /\ GotoEnd
    /\ UNCHANGED <<req, replyLen, heap, badFree, slistLive, slistRef, hi,
                   upVars, nHdr, nBody>>

\* The stats getinfo calls are only CHECKed; the body buffer goes to
\* *ref_response_str if it holds anything (data = NULL, size = 0), the
\* header buffer to *ref_headers_out_str likewise if asked; then
\* CURLINFO_RESPONSE_CODE, whose failure is a goto end with end_code -1.
Finish ==
    /\ pc = "finish"
    /\ statsSet' = req.stats
    /\ LET giveData == Len(wbuf) > 0
           giveHdrs == req.hdrsOut /\ Len(hbuf) > 0
       IN /\ response' = IF giveData THEN wbuf ELSE response
          /\ wbuf' = IF giveData THEN <<>> ELSE wbuf
          /\ hdrsOut' = IF giveHdrs THEN hbuf ELSE hdrsOut
          /\ hbuf' = IF giveHdrs THEN <<>> ELSE hbuf
          /\ ptr' = [ptr EXCEPT !["data"] = @ /\ ~giveData,
                                 !["hdata"] = @ /\ ~giveHdrs]
    /\ \/ Fails("getinfo") /\ UNCHANGED <<httpCode, endCode>>
       \/ httpCode' = 200 /\ endCode' = 0
    /\ GotoEnd
    /\ UNCHANGED <<req, replyLen, heap, badFree, slistLive, slistRef, hi,
                   upVars, nHdr, nBody>>

\* end: curl_easy_cleanup, free(url), curl_slist_free_all(hdr_list) and
\* the two buffers, each if its pointer is non-NULL; return end_code.
Cleanup ==
    /\ pc = "end"
    /\ heap' = [b \in Blocks |-> IF ptr[b] THEN "freed" ELSE heap[b]]
    /\ badFree' = (badFree \/ \E b \in Blocks : ptr[b] /\ heap[b] # "live")
    /\ ptr' = [b \in Blocks |-> FALSE]
    /\ slistLive' = slistLive - slistRef
    /\ slistRef' = 0
    /\ Goto("returned")
    /\ UNCHANGED <<req, replyLen, hi, upVars, rxVars, outVars>>

Returned == pc = "returned"

Next ==
    \/ Begin \/ EasyInit \/ ComposeUrl \/ MethodOptions
    \/ SetHeader \/ SetHeadersDone \/ WriteSetup \/ HeaderSetup
    \/ RequestOptions
    \/ ReadBody \/ ReadStdin \/ WriteHeader \/ WriteBody
    \/ PerformOk \/ PerformFail
    \/ Finish \/ Cleanup
    \/ Returned /\ UNCHANGED vars

Spec == Init /\ [][Next]_vars

-----------------------------------------------------------------------------
(* Properties                                                              *)

\* The blocks the caller owns once the call has handed them over.
CallerOwned ==
    {b \in {"data"} : response # NULL} \cup {b \in {"hdata"} : hdrsOut # NULL}

\* The cleanup at "end" frees each block exactly once, whichever step
\* failed; what it hands to the caller through *ref_response_str and
\* *ref_headers_out_str is never freed by it; and once the call has
\* returned, every block and curl_slist node it allocated is either freed
\* or owned by the caller.
HeapSafe ==
    /\ ~badFree
    /\ \A b \in CallerOwned : heap[b] = "live"
    /\ Returned =>
          /\ \A b \in Blocks : heap[b] = "live" => b \in CallerOwned
          /\ slistLive = 0

\* The call returns 0 exactly when the transfer completed and the status
\* code was read, and then *ref_http_ret_code is that status and
\* *ref_response_str holds the whole body in the order libcurl delivered
\* it (or stays NULL for an empty body); any other return leaves 404.
ResponseIsBody ==
    Returned =>
        /\ (endCode = 0) <=> (httpCode = 200)
        /\ endCode = 0 =>
              response = IF replyLen = 0 THEN NULL
                         ELSE [i \in 1..replyLen |-> i]

\* The read callback hands libcurl the body and nothing beyond it: the
\* bytes sent and the bytes left always make up strlen(body), and a call
\* that returns 0 has sent all of it.
UploadIsBody ==
    /\ upSrc = "body" => sent + readLeft = req.body
    /\ Returned /\ endCode = 0 /\ upSrc = "body" => sent = req.body

======================================================================================================================================================
