---- MODULE RestfulCalls ----
(***************************************************************************)
(* Calls of the helpers of RestfulUtils and AsPackets with samples, one per behaviour:   *)
(* what they return is compared with definitions that say what they are    *)
(* for.                                                                    *)
(***************************************************************************)
EXTENDS AsPackets

CONSTANTS
  SampleRequests,   \* requests to pack: records as request_t
  SampleResponses,  \* responses to pack: records as response_t
  SampleUrls,       \* strings matched as URLs
  SamplePatterns,   \* strings matched against them
  SampleResources,  \* URLs registered behind one of these
  SampleBuffers,    \* strings "key=value;..." searched for a key
  SampleKeys        \* the keys looked for

ASSUME SampleAssumption ==
  \A r \in SampleRequests : r.url # <<>> /\ 0 \notin Range(r.url)

VARIABLE sample   \* the last call: what was called, with what

restfulVars == <<sample>>

RestfulInit == sample = [call |-> "none"]

CallPack ==
  \/ \E r \in SampleRequests : sample' = [call |-> "request", r |-> r]
  \/ \E r \in SampleResponses : sample' = [call |-> "response", r |-> r]

CallMatch ==
  \E u \in SampleUrls, p \in SamplePatterns :
    sample' = [call |-> "url", url |-> u, pattern |-> p]

\* register_url_handler and on_request of the library for C: the newest URL first.
Register(list, url) == IF Contains(list, url) THEN list ELSE <<url>> \o list
Handler(list, url)  == SelectInSeq(list, LAMBDA u : CheckUrlStart(url, u) > 0)

CallHandler ==
  \E u \in SampleUrls, p \in SamplePatterns, q \in SampleResources :
    sample' = [call |-> "handler", url |-> u, first |-> p, second |-> q]

CallFind ==
  \E b \in SampleBuffers, k \in SampleKeys :
    sample' = [call |-> "key", buffer |-> b, key |-> k]

RestfulNext == sample.call = "none" /\ (CallPack \/ CallMatch \/ CallHandler \/ CallFind)
RestfulSpec == RestfulInit /\ [][RestfulNext]_restfulVars

(***************************************************************************)
(* Properties.                                                             *)
(***************************************************************************)
\* What one library packs, each of the two unpacks as it was, and it takes no packet
\* for a message that lost its last bytes, is followed by a stray one, or has another
\* byte for its version or in one of its lengths, though sizes are compared in 32
\* bits: the receiver copies a payload from where the two length fields put it
\* (restful_utils.c:93 and :162, request.ts:255 and :305).
PacketsReadBack ==
  LET Truncated(packet) == {SubSeq(packet, 1, n) : n \in 1 .. Len(packet) - 1}
      Exact(packet, Unpack(_), r, places) ==
        /\ Unpack(packet) = r
        /\ \A other \in Truncated(packet) \cup {Append(packet, 0)} : Unpack(other) = Null
        /\ \A i \in places : \A b \in 0 .. 255 :
             b # packet[i] => Unpack([packet EXCEPT ![i] = b]) = Null
      request  == {1} \cup 13 .. 18   \* the version and the lengths
      response == {1} \cup 13 .. 16
  IN /\ sample.call = "request" =>
          \A packet \in {PackRequest(sample.r), AsPackRequest(sample.r)} :
            /\ Exact(packet, UnpackRequest, sample.r, request)
            /\ Exact(packet, AsUnpackRequest, sample.r, request)
     /\ sample.call = "response" =>
          \A packet \in {PackResponse(sample.r), AsPackResponse(sample.r)} :
            /\ Exact(packet, UnpackResponse, sample.r, response)
            /\ Exact(packet, AsUnpackResponse, sample.r, response)

\* What may follow a leading string in a URL, as the comment on check_url_start
\* lists it: nothing, or what begins with "/" or "?".
LeadingMatches(url, stem) ==
  \E n \in 1..(Len(url) + 1) :
    LET tail == SubSeq(url, n, Len(url))
    IN  /\ url = stem \o tail
        /\ tail = <<>> \/ Head(tail) \in {Slash, Query}

\* The URLs a pattern stands for, as the comment on match_url lists them.
PatternMatches(url, p) ==
  LET Goes(stem) == \E n \in 1..(Len(url) + 1) : url = stem \o SubSeq(url, n, Len(url))
  IN  IF EndsWith(p, Slash)
      THEN WithoutLastSlash(url) = WithoutLast(p) \/ Goes(p)
      ELSE IF EndsWith(p, Star) THEN Goes(WithoutLast(p))
      ELSE url = p

\* check_url_start and match_url accept exactly the URLs their comments list,
\* with and without the first and the last "/", and the offset check_url_start
\* returns is that of what follows the leading string: the manager cuts the
\* name of an app out of a URL with it (restful_utils.c:345 and :399).
UrlMatches(u, p) ==
  LET stem == WithoutLastSlash(WithoutFirstSlash(p))
      n == CheckUrlStart(u, p)
      m == WithoutFirstSlash(u)
  IN  /\ (n > 0) <=> (stem # <<>> /\ LeadingMatches(m, stem))
      /\ n > 0 => \/ n = Len(u) /\ m = stem
                  \/ WithoutFirstSlash(SubSeq(u, 1, n))
                       \in {Append(stem, Slash), Append(stem, Query)}
      /\ MatchUrl(p, u) <=>
           /\ WithoutLastSlash(m) # <<>>
           /\ WithoutFirstSlash(p) # <<>>
           /\ PatternMatches(m, WithoutFirstSlash(p))

\* A request goes to the handler that was registered last of those whose URL leads
\* the one it asks for, and to none when there is none; the AssemblyScript library,
\* which compares what is before the first "/", has a handler too, as long as both
\* URLs begin alike and there is no query (request.c:302, request.ts:440).
HandlerLeads(u, p, q) ==
  LET registered == Register(Register(<<>>, p), q)
      Leads(r) == /\ WithoutLastSlash(WithoutFirstSlash(r)) # <<>>
                  /\ LeadingMatches(WithoutFirstSlash(u), WithoutLastSlash(WithoutFirstSlash(r)))
      leading == {i \in DOMAIN registered : Leads(registered[i])}
      h == Handler(registered, u)
      Alike(r) == (r # <<>> /\ r[1] = Slash) <=> (u # <<>> /\ u[1] = Slash)
  IN  /\ IF leading = {} THEN h = 0 ELSE h \in leading /\ \A i \in leading : h <= i
      /\ (h > 0 /\ Alike(registered[h]) /\ ~Contains(u, Query))
         => AsHandler(AsRegister(AsRegister(<<>>, p), q), u) > 0

\* URLs are matched as the comments of the helpers say, and a request finds the
\* handler registered for it: the two definitions above, on every sample.
UrlsMatchAsDocumented ==
  /\ sample.call = "url" => UrlMatches(sample.url, sample.pattern)
  /\ sample.call = "handler" => HandlerLeads(sample.url, sample.first, sample.second)

\* Where a piece begins that has the key.
KeyStarts(b, k) ==
  {i \in 1..Len(b) :
     /\ b[i] \notin {Space, Delimiter}
     /\ \E j \in 0..(i - 1) : /\ j = 0 \/ b[j] = Delimiter
                              /\ \A x \in (j + 1)..(i - 1) : b[x] = Space
     /\ IsPrefix(k, SubSeq(b, i, Len(b)))}

\* What is up to the next delimiter, or what the caller has room for.
ValueOf(text, found) ==
  \E n \in 0..Len(text) :
    /\ found = SubSeq(text, 1, n)
    /\ \A i \in 1..n : text[i] # Delimiter
    /\ \/ n = Len(text)
       \/ text[n + 1] = Delimiter
       \/ n = ValueRoom - 1

\* The value found is the text behind "key=" in the first piece that has this
\* key, cut to the room of the caller, and NULL says that no piece has it: a
\* key that is a prefix of another, or occurs inside a value, is not taken for
\* it (restful_utils.c:453).
KeyFoundIsFirst ==
  sample.call = "key" =>
    LET b == sample.buffer
        k == Append(sample.key, Equal)
        Starts == KeyStarts(b, k)
        found == FindKeyValue(b, sample.key)
    IN  IF Starts = {} THEN found = Null
        ELSE LET first == CHOOSE i \in Starts : \A j \in Starts : i <= j
             IN  ValueOf(SubSeq(b, first + Len(k), Len(b)), found)
====
