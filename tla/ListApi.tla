------------------------------- MODULE ListApi -------------------------------
(* The rider's tours read in pages (GetTours, GetMapData, lib/paging.js,      *)
(* lib/db.js) while other requests change them, and the compression of the    *)
(* answers (lib/compression.js).  The list is in the order of createdAt, the  *)
(* newest first; a page is found by its position.                             *)
EXTENDS Integers, Sequences, FiniteSets, SequencesExt

CONSTANTS
  TourIds,
  MaxPageSize,
  Limits,         \* limits a client may send, 0 for none
  Codings,        \* what Accept-Encoding may hold, in its order: <<coding, weight>> pairs
  MinCompressed,  \* MIN_COMPRESSED_BYTES, in items
  Changes         \* bound

ASSUME ListApiAssumption ==
  IsFiniteSet(TourIds) /\ MaxPageSize \in Nat \ {0} /\ MinCompressed \in Nat /\ Changes \in Nat

VARIABLES
  listing,    \* the rider's tours
  untouched,  \* tours there since the reading began, and not edited since
  limit,      \* the client's, 0 before it begins
  token,      \* the offset the continuation token holds, -1 for none
  read,       \* the items of all pages so far
  reply,      \* the last answer: status, coding, number of items
  ups, downs  \* changes since the reading began that move tours towards the head, or the tail

listApiVars == <<listing, untouched, limit, token, read, reply, ups, downs>>

-----------------------------------------------------------------------------

NoToken == -1

\* Mutant: a token is taken for a position that counts from one.
pageRequestFromOne(l, t) ==
  CASE l = 0 /\ t = NoToken -> [kind |-> "all", limit |-> 0, offset |-> 0]
    [] l \in 1..MaxPageSize /\ t = NoToken -> [kind |-> "page", limit |-> l, offset |-> 0]
    [] l \in 1..MaxPageSize /\ t > 0 -> [kind |-> "page", limit |-> l, offset |-> t - 1]
    [] OTHER -> [kind |-> "invalid", limit |-> 0, offset |-> 0]
(* pageRequest: everything, one page, or what is no request.                 *)
pageRequest(l, t) ==
  CASE l = 0 /\ t = NoToken -> [kind |-> "all", limit |-> 0, offset |-> 0]
    [] l \in 1..MaxPageSize /\ t = NoToken -> [kind |-> "page", limit |-> l, offset |-> 0]
    [] l \in 1..MaxPageSize /\ t > 0 -> [kind |-> "page", limit |-> l, offset |-> t]
    [] OTHER -> [kind |-> "invalid", limit |-> 0, offset |-> 0]

(* One item past the page tells whether another follows.                     *)
queryUserPage(offset, l) ==
  LET items == SubSeq(listing, offset + 1, Min({offset + l + 1, Len(listing)})) IN
  [items |-> SubSeq(items, 1, Min({l, Len(items)})), more |-> Len(items) > l]

accepted(accept) == {offer[1] : offer \in {o \in Range(accept) : o[2] > 0}}

(* Brotli, else gzip; a small body is sent as it is.                         *)
chooseEncoding(accept, size) ==
  IF size < MinCompressed THEN "none"
  ELSE IF "br" \in accepted(accept) THEN "br"
  ELSE IF "gzip" \in accepted(accept) THEN "gzip" ELSE "none"

-----------------------------------------------------------------------------

ListApiInit ==
  /\ listing \in {SetToSeq(some) : some \in SUBSET TourIds}
  /\ untouched = {} /\ limit = 0 /\ token = NoToken /\ read = <<>> /\ ups = 0 /\ downs = 0
  /\ reply = [status |-> 0, kind |-> "all", accept |-> <<>>, coding |-> "none", size |-> 0]

Answer(request, accept, page) ==
  /\ read' = (IF request.offset = 0 THEN <<>> ELSE read) \o page.items
  /\ token' = IF page.more THEN request.offset + request.limit ELSE NoToken
  /\ reply' = [status |-> 200, kind |-> request.kind, accept |-> accept, size |-> Len(page.items),
               coding |-> chooseEncoding(accept, Len(page.items))]

(* A first request; the client reads on with the limit it began with.        *)
GetTours(l, t, accept) ==
  LET request == pageRequest(l, t) IN
  /\ limit' = IF request.kind = "page" THEN l ELSE 0
  /\ ups' = 0 /\ downs' = 0 /\ untouched' = Range(listing) /\ UNCHANGED listing
  /\ CASE request.kind = "invalid" ->
            /\ read' = <<>> /\ token' = NoToken
            /\ reply' = [status |-> 400, kind |-> "invalid", accept |-> accept, coding |-> "none", size |-> 0]
       [] request.kind = "all" -> Answer(request, accept, [items |-> listing, more |-> FALSE])
       [] OTHER -> Answer(request, accept, queryUserPage(request.offset, request.limit))

NextPage(accept) ==
  LET request == pageRequest(limit, token) IN
  /\ token # NoToken /\ Answer(request, accept, queryUserPage(request.offset, request.limit))
  /\ UNCHANGED <<listing, untouched, limit, ups, downs>>

Reading == limit # 0 /\ ups + downs < Changes

(* The date of an uploaded tour is its GPX file's: it may come in anywhere.  *)
UploadAt(t, place) ==
  /\ Reading /\ t \in TourIds \ Range(listing) /\ listing' = InsertAt(listing, place, t)
  /\ downs' = downs + 1 /\ UNCHANGED <<untouched, limit, token, read, reply, ups>>
DeleteAt(place) ==
  /\ Reading /\ listing' = RemoveAt(listing, place) /\ untouched' = untouched \ {listing[place]}
  /\ ups' = ups + 1 /\ UNCHANGED <<limit, token, read, reply, downs>>
(* EditTour moves a tour to its new date.                                    *)
EditAt(place, to) ==
  /\ Reading /\ place # to
  /\ listing' = InsertAt(RemoveAt(listing, place), to, listing[place])
  /\ untouched' = untouched \ {listing[place]}
  /\ ups' = IF place < to THEN ups + 1 ELSE ups
  /\ downs' = IF to < place THEN downs + 1 ELSE downs
  /\ UNCHANGED <<limit, token, read, reply>>

ListApiNext ==
  \/ \E accept \in Codings : NextPage(accept) \/ \E l \in Limits, t \in {NoToken, 0} : GetTours(l, t, accept)
  \/ \E place \in 1..(Len(listing) + 1) : \E t \in TourIds : UploadAt(t, place)
  \/ \E place \in DOMAIN listing : DeleteAt(place) \/ \E to \in DOMAIN listing : EditAt(place, to)

-----------------------------------------------------------------------------

Done == limit # 0 /\ token = NoToken

(* Pages found by position miss a tour that nobody touched only for a change *)
(* that moved another towards the tail or took it away, and repeat one only  *)
(* for one that came in before it: while nothing changes they are the list   *)
(* (paging.js, db.js).                                                       *)
PagesAddUp ==
  /\ Done => Cardinality(untouched \ Range(read)) <= ups
  /\ Cardinality({i \in DOMAIN read : read[i] \in untouched}) <= Cardinality(untouched \cap Range(read)) + downs
  /\ Done /\ ups + downs = 0 => read = listing

(* No page holds more than was asked for, and none is offered that is empty, *)
(* unless tours were deleted or moved meanwhile (paging.js).                 *)
PagesAsAsked ==
  reply.kind = "page" =>
    /\ reply.size <= limit
    /\ token # NoToken /\ ups = 0 => token < Len(listing)

(* An answer is compressed only in a coding the client gives a weight, and   *)
(* only when that is worth it (compression.js).                              *)
CodingAccepted ==
  reply.coding # "none" =>
    /\ \E offer \in Range(reply.accept) : offer[1] = reply.coding /\ offer[2] > 0
    /\ reply.size >= MinCompressed

(* What a client that pages through its tours is sent (paging.js, db.js:84,  *)
(* compression.js).                                                          *)
PagesSound == PagesAddUp /\ PagesAsAsked /\ CodingAccepted

=============================================================================
