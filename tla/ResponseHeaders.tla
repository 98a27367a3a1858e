-------------------------- MODULE ResponseHeaders ---------------------------
(***************************************************************************)
(* How the back-ends read a response.  libcurl calls headerCallback for    *)
(* each line of each response it receives, redirects included; its body is *)
(* HttpCurl's subject.  WinINet's send() opens a request, sends it, asks   *)
(* for the headers of the last response, which come in a buffer where a    *)
(* NUL ends each line and one more ends the list, parses them, and reads   *)
(* the body piece by piece.                                                *)
(*                                                                         *)
(* Text is a sequence of characters; "HTTP/" counts as one.  A step is one *)
(* line for headerCallback, one iteration of its loops for parseHeaders.   *)
(* Positions count from 0, as in the code.                                 *)
(***************************************************************************)
EXTENDS Integers, Sequences, Functions

CONSTANTS
  Headers,      \* headers a server may send
  Reasons,      \* what may follow the code in a status line
  Errors,       \* the errors GetLastError() returns
  BufferLen,    \* the size of the buffer the body is read into
  MaxBody,      \* bound: the length of a body
  MaxHeaders,   \* bound: the headers of a response
  MaxResponses  \* bound: the responses libcurl receives for a request

NUL == "NUL"
CRLF == <<"CR", "LF">>
Code == <<"2", "0", "0">>

\* What a server can send: a NUL is not allowed in a head, nor a colon in a name, and a
\* colon is followed by a space or not.
ASSUME ResponseHeadersAssumption ==
  /\ \A header \in Headers :
       /\ header.name \in Seq(STRING) /\ {":", NUL} \cap Range(header.name) = {}
       /\ header.gap \in {<<>>, <<" ">>}
       /\ header.value \in Seq(STRING) /\ NUL \notin Range(header.value)
  /\ \A reason \in Reasons : reason \in Seq(STRING) /\ NUL \notin Range(reason)
  /\ {BufferLen, MaxBody, MaxHeaders, MaxResponses} \subseteq Nat

VARIABLES
  backend,      \* "curl" or "wininet"
  responses,    \* the responses received
  buffer,       \* the text: libcurl's next lines, or WinINet's buffer
  length,       \* of WinINet's buffer, with or without the last NUL
  position,     \* the lines seen by libcurl, or the loops' index
  key,          \* parseHeaders: where the name of the next header is
  statusStr,    \* parseHeaders: where the code is, or -1
  headers,      \* the headers found
  pc,           \* libcurl: "lines"; send(): "open", "send", "query", "fill",
                \* "status", "headers", "read"; "done"
  request,      \* send(): is its request handle open?
  err,          \* send(): the error to be returned
  text,         \* send(): the text read
  body,         \* history: the body that has arrived
  ending        \* history: "none", or how the body ended: "complete" or "broken"

input    == <<backend, responses, length>>
sendVars == <<request, err, text, body, ending>>
vars     == <<input, buffer, position, key, statusStr, headers, pc, sendVars>>

-----------------------------------------------------------------------------
\* Names of headers are compared without case (CaseInsensitiveCompare).
Lower(name) == [i \in DOMAIN name |-> IF name[i] = "A" THEN "a" ELSE name[i]]

Text(header)   == header.name \o <<":">> \o header.gap \o header.value
Status(reason) == <<"HTTP/", " ">> \o Code \o reason

Concat(lines) ==
  LET First[n \in 0 .. Len(lines)] == IF n = 0 THEN <<>> ELSE First[n - 1] \o lines[n]
  IN  First[Len(lines)]

\* the lines of a response, each with its end
Lines(response, end) ==
  <<Status(response.reason) \o end>>
    \o [n \in 1 .. Len(response.headers) |-> Text(response.headers[n]) \o end]
    \o <<end>>

\* what libcurl passes to headerCallback, and WinINet to parseHeaders
CurlLines == [r \in DOMAIN responses |-> Lines(responses[r], CRLF)]
WinBuffer(response) == Concat(Lines(response, <<NUL>>))

\* (*data)[name] = value
Assign(data, name, value) ==
  [k \in DOMAIN data \cup {name} |-> IF k = name THEN value ELSE data[k]]

\* mutant: the last header of a name counts
InsertOver(data, name, value) == Assign(data, name, value)

\* data.insert({name, value})
Insert(data, name, value) == IF name \in DOMAIN data THEN data ELSE Assign(data, name, value)
Nothing == [k \in {} |-> <<>>]

FirstOf(chars, c) ==
  LET found == {i \in DOMAIN chars : chars[i] = c}
  IN  IF found = {} THEN 0 ELSE CHOOSE i \in found : \A j \in found : i <= j

-----------------------------------------------------------------------------
Init ==
  /\ \E hs \in UNION {[1 .. n -> Headers] : n \in 0 .. MaxHeaders}, reason \in Reasons :
       LET last == [reason |-> reason, headers |-> hs]
       IN  \/ /\ backend = "curl"
              /\ \E first \in {<<>>} \cup {<<[reason |-> reason, headers |-> <<h>>]>> : h \in Headers} :
                   responses = Append(first, last)
              /\ Len(responses) <= MaxResponses
              /\ buffer = Concat(CurlLines)
              /\ length = Len(buffer)
              /\ pc = "lines"
           \/ /\ backend = "wininet"
              /\ responses = <<last>>
              /\ buffer = WinBuffer(last)
              /\ length \in {Len(buffer) - 1, Len(buffer)}
              /\ pc = "open"
  /\ position = 0
  /\ key = 0
  /\ statusStr = -1
  /\ headers = Nothing
  /\ request = FALSE
  /\ err = "NoError"
  /\ text = <<>>
  /\ body = <<>>
  /\ ending = "none"

\* mutant: the name keeps the colon
HeaderOfWithColon(line) ==
  LET separator == FirstOf(line, ":")
      value     == SubSeq(line, separator + 2, Len(line))
  IN  <<SubSeq(line, 1, separator),
        IF Len(value) < 2 THEN value ELSE SubSeq(value, 1, Len(value) - 2)>>

\* The name and the value in a header line; a value shorter than the line's end
\* makes value.size() - 2 wrap, and is kept as it is.
HeaderOf(line) ==
  LET separator == FirstOf(line, ":")
      value     == SubSeq(line, separator + 2, Len(line))
  IN  <<SubSeq(line, 1, separator - 1),
        IF Len(value) < 2 THEN value ELSE SubSeq(value, 1, Len(value) - 2)>>

\* mutant: a new response does not clear the headers
headerCallbackKeeps ==
  /\ pc = "lines"
  /\ position < Len(buffer)
  /\ position' = position + 1
  /\ LET line   == buffer[position + 1]
         header == HeaderOf(line)
     IN  headers' = IF FirstOf(line, "HTTP/") = 0 /\ FirstOf(line, ":") # 0
                    THEN Assign(headers, Lower(header[1]), header[2])
                    ELSE headers
  /\ UNCHANGED <<input, buffer, key, statusStr, pc, sendVars>>

\* headerCallback takes the next line.
headerCallback ==
  /\ pc = "lines"
  /\ position < Len(buffer)
  /\ position' = position + 1
  /\ LET line   == buffer[position + 1]
         header == HeaderOf(line)
     IN  headers' = IF FirstOf(line, "HTTP/") # 0 THEN Nothing
                    ELSE IF FirstOf(line, ":") # 0
                    THEN Assign(headers, Lower(header[1]), header[2])
                    ELSE headers
  /\ UNCHANGED <<input, buffer, key, statusStr, pc, sendVars>>

EndOfLines ==
  /\ pc = "lines"
  /\ position = Len(buffer)
  /\ pc' = "done"
  /\ UNCHANGED <<input, buffer, position, key, statusStr, headers, sendVars>>

-----------------------------------------------------------------------------
\* The code for WinINet's errors; most are listed, a timeout is not.
fromWinINetError(error) ==
  CASE error = "HTTP_COOKIE_DECLINED" -> "CookieDeclined"
    [] error \in {"HTTP_HEADER_NOT_FOUND", "HTTP_DOWNLEVEL_SERVER"} -> "HeaderEmpty"
    [] error = "HTTP_INVALID_HEADER" -> "HeaderInvalid"
    [] error = "HTTP_INVALID_SERVER_RESPONSE" -> "ResponseInvalid"
    [] error \in {"HTTP_NOT_REDIRECTED", "HTTP_REDIRECT_FAILED", "INTERNAL_ERROR"}
         -> "InternalError"
    [] error \in {"BAD_AUTO_PROXY_SCRIPT", "INVALID_PROXY_REQUEST",
                  "PROXY_SERVER_UNREACHABLE"} -> "ProxyResolutionFailure"
    [] error \in {"CANNOT_CONNECT", "EXTENDED_ERROR", "NO_DIRECT_ACCESS",
                  "SERVER_UNREACHABLE"} -> "ConnectionFailure"
    [] error \in {"CHG_POST_IS_NON_SECURE", "SECURITY_CHANNEL_ERROR"} -> "GenericSSLError"
    [] error = "CLIENT_AUTH_CERT_NEEDED" -> "SSLLocalCertificateError"
    [] error \in {"CONNECTION_ABORTED", "CONNECTION_RESET", "DISCONNECTED"}
         -> "ConnectionClosed"
    [] error = "FORCE_RETRY" -> "RetryRequest"
    [] error \in {"HTTPS_HTTP_SUBMIT_REDIR", "HTTPS_TO_HTTP_ON_REDIR", "MIXED_SECURITY",
                  "POST_IS_NON_SECURE"} -> "SSLRequestUnsecure"
    [] error = "INCORRECT_FORMAT" -> "RequestInvalid"
    [] error = "INVALID_CA" -> "SSLCacertError"
    [] error \in {"INVALID_URL", "ITEM_NOT_FOUND", "UNRECOGNIZED_SCHEME"} -> "InvalidURL"
    [] error = "NAME_NOT_RESOLVED" -> "HostResolutionFailure"
    [] error = "NOT_PROXY_REQUEST" -> "NetworkSendFailure"
    [] error = "PROTOCOL_NOT_FOUND" -> "UnsupportedProtocol"
    [] error \in {"SEC_CERT_CN_INVALID", "SEC_CERT_DATE_INVALID", "SEC_CERT_ERRORS",
                  "SEC_CERT_REVOKED", "SEC_INVALID_CERT"} -> "SSLRemoteCertificateError"
    [] OTHER -> "UnknownError"

\* send() returns, and closes the request if there is one.
Return ==
  /\ pc' = "done"
  /\ request' = FALSE
  /\ UNCHANGED <<input, buffer, position, key, statusStr, headers>>

\* One of the calls before the head is there fails.
Fail ==
  /\ pc \in {"open", "send", "query", "fill"}
  /\ \E error \in Errors : err' = fromWinINetError(error)
  /\ Return
  /\ UNCHANGED <<text, body, ending>>

HttpOpenRequest ==
  /\ pc = "open"
  /\ pc' = "send"
  /\ request' = TRUE
  /\ UNCHANGED <<input, buffer, position, key, statusStr, headers, err, text, body, ending>>

\* HttpSendRequestA, then HttpQueryInfoA for the size of the head (its error then is
\* ERROR_INSUFFICIENT_BUFFER) and again to fill a buffer of that size; the last error
\* after a call that succeeds is taken to be none.
Proceed ==
  /\ pc \in {"send", "query", "fill"}
  /\ pc' = CASE pc = "send" -> "query" [] pc = "query" -> "fill" [] pc = "fill" -> "status"
  /\ UNCHANGED <<input, buffer, position, key, statusStr, headers, sendVars>>

At(i) == buffer[i + 1]

\* the C string at a position
StringAt(i) ==
  LET rest == SubSeq(buffer, i + 1, Len(buffer))
  IN  SubSeq(rest, 1, FirstOf(rest, NUL) - 1)

\* The first loop of parseHeaders, on a space: the code is the three characters
\* that follow it; the one after them is overwritten and, with the one after it,
\* skipped.
FindCode ==
  /\ pc = "status"
  /\ position < length - 1
  /\ statusStr = -1 /\ At(position) = " "
  /\ IF position + 4 < length - 1
     THEN /\ statusStr' = position + 1
          /\ buffer' = [buffer EXCEPT ![position + 5] = NUL]
          /\ position' = position + 6
     ELSE position' = position + 5 /\ UNCHANGED <<statusStr, buffer>>
  /\ UNCHANGED <<input, key, headers, pc, sendVars>>

\* ... and on any other character: the line ends at a NUL.
SkipStatus ==
  /\ pc = "status"
  /\ position < length - 1
  /\ ~(statusStr = -1 /\ At(position) = " ")
  /\ position' = position + 1
  /\ IF At(position) = NUL THEN pc' = "headers" /\ key' = position + 1
     ELSE UNCHANGED <<pc, key>>
  /\ UNCHANGED <<input, buffer, statusStr, headers, sendVars>>

\* The loop ends without a NUL: headers are sought if anything is left.
EndOfStatus ==
  /\ pc = "status"
  /\ position >= length - 1
  /\ pc' = IF position < length THEN "headers" ELSE "read"
  /\ key' = position
  /\ UNCHANGED <<input, buffer, position, statusStr, headers, sendVars>>

\* The second loop, at the end of a name (or at a NUL, which counts as one) that
\* something follows: the value begins two characters on, and the next name after
\* it.  When the name was there before, it is the old value that is skipped.
FindValue ==
  /\ pc = "headers"
  /\ position < length - 1
  /\ At(position) \in {":", NUL}
  /\ At(position + 1) # NUL
  /\ buffer' = [buffer EXCEPT ![position + 1] = NUL]
  /\ IF position + 2 < length
     THEN LET name == SubSeq(buffer, key + 1, position)
              end  == position + 2 + Len(headers'[Lower(name)])
          IN  /\ headers' = Insert(headers, Lower(name), StringAt(position + 2))
              /\ position' = end + 1
              /\ key' = IF end < length - 1 THEN end + 1 ELSE key
     ELSE position' = position + 3 /\ UNCHANGED <<headers, key>>
  /\ UNCHANGED <<input, statusStr, pc, sendVars>>

\* ... that nothing follows: no header.
SkipValue ==
  /\ pc = "headers"
  /\ position < length - 1
  /\ At(position) \in {":", NUL}
  /\ At(position + 1) = NUL
  /\ buffer' = [buffer EXCEPT ![position + 1] = NUL]
  /\ key' = position + 1
  /\ position' = position + 1
  /\ UNCHANGED <<input, statusStr, headers, pc, sendVars>>

\* ... in a name.
SkipName ==
  /\ pc = "headers"
  /\ position < length - 1
  /\ At(position) \notin {":", NUL}
  /\ position' = position + 1
  /\ UNCHANGED <<input, buffer, key, statusStr, headers, pc, sendVars>>

EndOfHeaders ==
  /\ pc = "headers"
  /\ position >= length - 1
  /\ pc' = "read"
  /\ UNCHANGED <<input, buffer, position, key, statusStr, headers, sendVars>>

\* what += appends of a buffer: up to the first NUL
CString(chars) == SubSeq(chars, 1, FirstOf(Append(chars, NUL), NUL) - 1)

\* mutant: a buffer that is not full is the last one
ReadFileShort ==
  /\ pc = "read"
  /\ \E n \in 1 .. BufferLen - 1 : \E chars \in [1 .. n -> {"x", NUL}] :
       /\ Len(body) + n <= MaxBody
       /\ body' = body \o chars
       /\ text' = text \o CString(chars)
       /\ IF n < BufferLen - 1 THEN Return
          ELSE UNCHANGED <<input, buffer, position, key, statusStr, headers, pc, request>>
  /\ UNCHANGED <<err, ending>>

\* InternetReadFile reads some of the body, a byte less than fits, and a NUL is put
\* behind it.
ReadFile ==
  /\ pc = "read"
  /\ \E n \in 1 .. BufferLen - 1 : \E chars \in [1 .. n -> {"x", NUL}] :
       /\ Len(body) + n <= MaxBody
       /\ body' = body \o chars
       /\ text' = text \o CString(chars)
  /\ UNCHANGED <<input, buffer, position, key, statusStr, headers, pc, request, err, ending>>

\* ... reads nothing: the body has ended.
EndOfBody ==
  /\ pc = "read"
  /\ ending' = "complete"
  /\ Return
  /\ UNCHANGED <<err, text, body>>

\* ... fails, and has set the number of bytes to zero: the loop ends, too.
ReadFails ==
  /\ pc = "read"
  /\ ending' = "broken"
  /\ Return
  /\ UNCHANGED <<err, text, body>>

Next ==
  \/ HttpOpenRequest \/ Proceed \/ Fail
  \/ ReadFile \/ EndOfBody \/ ReadFails
  \/ headerCallback \/ EndOfLines
  \/ FindCode \/ SkipStatus \/ EndOfStatus
  \/ FindValue \/ SkipValue \/ SkipName \/ EndOfHeaders

Spec == Init /\ [][Next]_vars

-----------------------------------------------------------------------------
\* the status parseHeaders returns
StatusRead == IF statusStr = -1 THEN <<>> ELSE StringAt(statusStr)

Last     == responses[Len(responses)]
Names    == {Lower(Last.headers[i].name) : i \in DOMAIN Last.headers}
NameOf(i) == Lower(Last.headers[i].name)

TypeOK ==
  /\ backend \in {"curl", "wininet"}
  /\ length \in Nat
  /\ position \in Nat
  /\ key \in 0 .. length
  /\ statusStr \in -1 .. length - 1
  /\ \A k \in DOMAIN headers : {":", NUL} \cap (Range(k) \cup (Range(headers[k]) \ {":"})) = {}
  /\ pc \in {"lines", "open", "send", "query", "fill", "status", "headers", "read", "done"}
  /\ request \in BOOLEAN
  /\ err \in {"NoError"} \cup {fromWinINetError(e) : e \in Errors}
  /\ Len(text) <= Len(body) /\ Len(body) <= MaxBody
  /\ ending \in {"none", "complete", "broken"}

\* With libcurl the headers of a response are those of the last one received, none
\* of the redirects before it, each with the last value sent for it; a header that
\* mentions "HTTP/", as Via does, is taken for a status line, and hides itself and
\* the ones before it.
CurlKeepsTheLastResponse ==
  backend = "curl" /\ pc = "done" =>
    LET shown == {i \in DOMAIN Last.headers : \A j \in i .. Len(Last.headers) :
                    "HTTP/" \notin Range(Text(Last.headers[j]))}
    IN  /\ DOMAIN headers = {NameOf(i) : i \in shown}
        /\ \A i \in shown :
             /\ \A j \in shown : j > i => NameOf(j) # NameOf(i)
             /\ Last.headers[i].gap # <<>>
             => headers[NameOf(i)] = Last.headers[i].value

\* With WinINet every header is found, each with the first value sent for it, if
\* the status line has a reason, a space follows each colon, and headers of the
\* same name have values of the same length (the parser skips the length of the
\* value it keeps); and the code of the status line is found whatever follows it,
\* except that a line with nothing behind the code must not be all there is.
WinReadsTheHead ==
  backend = "wininet" /\ pc = "done" /\ err = "NoError" =>
    /\ /\ Len(Last.reason) > 1
       /\ \A i, j \in DOMAIN Last.headers :
            /\ Last.headers[i].gap # <<>>
            /\ NameOf(i) = NameOf(j) =>
                 Len(Last.headers[i].value) = Len(Last.headers[j].value)
       => /\ DOMAIN headers = Names
          /\ \A i \in DOMAIN Last.headers :
               (\A j \in 1 .. i - 1 : NameOf(j) # NameOf(i)) =>
                 headers[NameOf(i)] = Last.headers[i].value
    /\ Last.reason # <<>> \/ Last.headers # <<>> \/ length = Len(buffer)
       => StatusRead = Code

\* Whatever fails, the request is closed.  With WinINet an error comes without any
\* part of a response; without an error the body was read to where it ended, though
\* that is where the connection broke, and is returned whole if it has no NUL.
WinReadsTheBody ==
  backend = "wininet" /\ pc = "done" =>
    /\ ~request
    /\ err # "NoError" => headers = Nothing /\ StatusRead = <<>> /\ text = <<>>
    /\ err = "NoError" => ending # "none" /\ (NUL \notin Range(body) => text = body)
=============================================================================
