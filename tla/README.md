# webrick in TLA+

TLA+ modules, TLC runs and TLAPS proofs for
[go-ruby-webrick/webrick](../src/README.md), a Go port of the deterministic
core of Ruby's WEBrick HTTP server: request parsing, response building, mount
dispatch and the helpers around them. The library does no I/O and starts no
threads; the host reads the socket, runs the worker threads, calls
`ParseRequest`, `HTTPServer.Service` and `Response.Bytes`, and writes the
bytes back.

## Inventory

### Response (`httpresponse.go`, the response side of `header.go`)
- State: version, status, chunked flag, keep-alive flag, body, Set-Cookie
  lines, and the header, which is a map plus a separate list of its keys; the
  method, version and keep-alive decision copied from the request.
- Operations: `SetRequest`, `Set`, `Delete`, `SetStatus`, `SetChunked`, an
  assignment to `Body`, `AddCookie`, `SetRedirect`, `SetError`, and `Bytes`,
  which runs `setupHeader` (and so changes the response), `sendHeader` and
  `sendBody`.
- Hard: the calls come in any order from a handler that knows nothing of the
  framing; rendering changes what it renders; a render may fail on an invalid
  field and be repeated; an error page replaces a half-built answer.
- Correct when: the peer, reading the head, finds the body the response held
  and the end of the message; the host and the peer agree on whether the
  connection stays; an error closes it; old clients get what they understand.

### HTTPServer and MountTable (`httpserver.go`)
- State: a Go map from mount directory to servlet, without a lock.
- Operations: `Mount`, `MountProc`, `Unmount`, `SearchServlet` (`Scan`, then
  `Get`), `Service`.
- Hard: worker threads are the host's, so searches may meet table writes;
  `Scan` and `Get` are two accesses; the longest prefix comes out of a lexical
  sort.
- Correct when: every answer comes from the longest mount over the path.

### Servlets (`httpservlet.go`)
- State: the handler map of an `AbstractServlet`; a `ProcServlet` has one proc.
- Operations: `Handle`, `Service`.
- Correct when: the methods announced in `Allow` are the methods not refused.

### Request parser (`httprequest.go`)
- State: a cursor over the bytes the host read, and the request filled in.
- Operations: `readRequestLine`, `readHeader`, `parseURI`, `readBody`,
  `readChunked`; then the accessors, one of which (`Query`) memoises.
- Hard: caps on lines and on the header block, cut lines, truncated input,
  widths of the lengths, two framings that exclude each other.
- Correct when: a well-formed message yields its own fields and body whatever
  follows it; a message cut short is refused; nothing but a `Status` comes out
  of a malformed one.

### Header and query models (`header.go`)
- State: `Request.Query` parses the query string or the form in the body at its
  first call and keeps the result; the fields it reads are exported.
- Operations: `ParseHeader` folds continuation lines and keeps repeated fields;
  `ParseQuery` splits, unescapes and chains repeated keys.
- Hard: order and repetition; a memo over fields a host may assign.
- Correct when: the names and values a client put in a form come out, in order,
  each chained to its first; every call gives what the first one gave.

### Request URI (`uri.go`)
- No state. `parseURI` takes the origin form or the absolute form, splits it,
  decodes and normalises the path, and takes host and port from the target, the
  Host field or the configuration.
- Hard: two parsers for one authority; decoding comes before normalising, so an
  escape may become a slash, a dot or a query sign.
- Correct when: a path arrives as it was meant in every spelling, and a request
  means the same in both forms.

### Cookies (`cookie.go`)
- State, within one call: the version and the cookie last begun.
- Hard: `$Version` is about the cookies after it, `$Path`, `$Domain` and `$Port`
  about the one before, and a request may have several Cookie fields.
- Correct when: each cookie arrives once, in its place, with its own attributes.

### FileHandler (`filehandler.go`)
- No state of its own; `ResolveFile` asks the host's `IsDir` and `IsFile`,
  segment by segment, then about the index names, then about the file, and
  checks each name against the patterns that are not to be disclosed.
- Hard: the file system may change between two questions; the name is checked
  after the question; the glob matcher keeps one star only.
- Correct when: the answer was right at some moment of the call; what is served
  lies under the root; a concealed name is indistinguishable from nothing.

### HTTPUtils (`httputils.go`)
- Pure functions: `NormalizePath`, escaping, `SplitHeaderValue`, `ParseQValues`,
  `ParseRangeHeader`, `Quote` and `Dequote`, `MimeType`.
- Hard: `NormalizePath` rewrites a text until nothing matches, each time at the
  first match; the list readers go by regular expressions in Ruby, by loops here.
- Correct when: the rewriting ends, and means one walk with a stack; each reader
  undoes what a client wrote.

### HTTPStatus (`httpstatus.go`), HTTPVersion (`httpversion.go`), HTMLUtils (`htmlutils.go`), Config (`config.go`)
- Pure functions and tables.

## How the parts meet

The library is a set of calls; the host (src/README.md, "seams") drives them:

1. it reads bytes from a connection and gives all it has to `ParseRequest`,
   which returns a `Request` or a `*Status`;
2. it builds a `Response`, wires the request in with `SetRequest`, and calls
   `HTTPServer.Service`, which looks the mount up, sets `script_name` and
   `path_info` on the request and calls the servlet;
3. the servlet fills the response; an error it returns reaches
   `Response.SetError` through the host;
4. the host writes `Response.Bytes()` and keeps or closes the connection by
   `Response.KeepAlive()`, whose value began as the request's.

Shared state is the mount table alone, and only if the host lets `Mount` or
`Unmount` run beside a worker. Nothing is persisted and nothing is timed, so
there is no recovery and no timeout to model.

## Modules

| Module | Stands for | State and actions |
|---|---|---|
| `HTTPVersion`, `HTTPStatus` | `httpversion.go`, `httpstatus.go` | operators: versions and their order; status categories, `NewStatus` with its nil |
| `Recipient` | the peer (external) | operators: where an HTTP/1.1 reader ends a message and whether it expects another |
| `ResponseOps` | `httpresponse.go`, the methods | operators on a record `res`, one per method; `SetupHeader` is composed of the five paragraphs of `setupHeader`, `Wire` is `sendHeader` and `sendBody` |
| `HTTPResponse` | the life of one `Response` | `res`, `stage`, the last message `wire`; one action per exported method, `Bytes` renders |
| `MountTable` | `MountTable` | operators: `NormalizeMount`, the pattern a key matches by, what `Scan` returns, `splitMount`'s two halves |
| `Routing` | abstract specification | a call is asked and answered; an answer takes the longest mount in one step |
| `Servlets` | `httpservlet.go` | operators: `Handle`, the dispatch of `Service`, the Allow list |
| `HTTPServer` | `HTTPServer` on worker threads | the table, a table write in progress, per worker where its `Service` is; a table write begins and ends, a search walks, finds and gets |
| `ByteReader` | `reqParser` | operators: `readLine` and `readN` over a cursor, with machine integers |
| `RequestHeader` | `header.go`, request side | operators: line classification, `ParseHeader`, `Values`, `Joined` |
| `RequestSender` | the client (external) | operators: a request as it is meant, and the symbols sent for it |
| `HTTPRequest` | `ParseRequest` | the cursor and the fields filled in so far; one action per read, `Return` ends the call |
| `Characters`, `Escapes` | text helpers; `Escape*`, `Unescape*` of `httputils.go` | operators on sequences of byte codes |
| `PathMeaning` | a walk with a stack (reference) | operators |
| `Normalisation` | abstract specification | one step from a raw path to its meaning |
| `NormalizePath` | `NormalizePath` | the text being rewritten; one action per substitution and per phase |
| `RequestURI` | `uri.go` | operators: `ParseURI` and its parts |
| `HeaderValues` | the list readers of `httputils.go` | operators: `SplitHeaderValue`, `ParseQValues`, `ParseRangeHeader`, `Quote`, `Dequote` |
| `Cookies` | `ParseCookies` | operators; the fold over the items of a field |
| `FormQuery` | `ParseQuery`, `Request.Query` | method, content type, the two fields, the memo; the client sends pairs, the host assigns fields, `Query` is called |
| `Glob` | `globMatch`, `fnmatchCasefold` | operators: the loop, one `Round` at a time |
| `RequestValues` | the readers of a request's values | `kind`, what the client means, what it has written; the client adds an element, a cookie, a character |
| `FileHandler` | `ResolveFile` | the tree (external), the segments left, the path walked, where the call is; one action per answer of the host, and the changes other programs make |
| `StaticSite` | a request for a file | the request, the mounts, the phase; `Route` is `parseURI` and the dispatch, then `FileHandler`'s steps |
| `MC*` | instances for TLC | |
| `Characters_proofs` | lemmas on texts, paths and induction | |
| `HTTPResponse_proofs`, `HTTPServer_proofs`, `HTTPRequest_proofs`, `FileHandler_proofs`, `NormalizePath_proofs`, `RequestURI_proofs`, `RequestValues_proofs` | theorems (`StaticSite`'s at the end of `FileHandler_proofs`) | |

`HTTPResponse` uses `ResponseOps`, `Recipient`, `HTTPStatus` and
`HTTPVersion`; `HTTPServer` uses `Servlets` and `MountTable` and is shown to
implement `Routing`; `HTTPRequest` uses `RequestSender`, `RequestHeader`,
`ByteReader` and `HTTPVersion`. `StaticSite` composes `RequestURI`, `MountTable`
and `FileHandler`, the three that take a path apart one after the other.
`RequestValues` puts a client in front of `RequestURI`, `HeaderValues`,
`Cookies`, `FormQuery`, `Glob` and `NormalizePath`, and the last is shown to
implement `Normalisation`.

### Modelling decisions

- **Response.** A header value is either one of a few texts the code
  distinguishes, or a decimal number. The header is a function and a list, as
  in the code, so a mistake that parts them is visible. The three fatal ways
  out are kept: `InvalidHeader` (a CR or LF in a field or cookie) leaves the
  response in the state `setupHeader` gave it, and a panic in `SetError` leaves
  the fields assigned before it. `SetRequest` is called once, before the
  servlet, as the host loop does.
- **Server.** A mount is an assignment to a Go map: when a `Scan` walks it at
  the same time, a key that is added or removed may or may not be seen
  (`Unsteady`), and the runtime may stop the process (`Throw`). A host that
  keeps writes and searches apart is `Serialised = TRUE`. `Init` allows every
  table over the mounts, the state after whatever was mounted before serving.
  `Register` (`Handle` on an `AbstractServlet`) is atomic. `Service` gives
  `OPTIONS *` the status 200 as a `*Status`; what the host makes of it is the
  host's affair.
- **Request.** The input is a sequence of symbols: a method with its space, a
  version, a field name with its colon, a number, a letter, a space, CR, LF,
  NUL. Lines, caps and counts are in symbols. Numbers are one symbol with a
  value; `MaxInt` is the largest int and `readN`'s addition wraps around as in
  the code. Names and codings are compared without regard to case in the code
  and are in one case here. Of `parseURI` the model keeps that a target
  without a leading slash (and without a scheme) is refused.
- **Client.** `RequestSender` and `VerdictIsDeserved`'s list of faults are
  written from the grammar and the limits, not from the parser: they know
  nothing of cursors, cut lines put together or the order of checks. What is
  called a request is what keeps to `Grammar`; bytes that do not (a bare CR in a
  value, an empty chunk before the last) come into the model only as a request
  cut short or as what follows one.

- **Texts.** From `Characters` on, a text is a sequence of byte codes, since
  escapes, dots and quotes are what the properties are about. Letters fold in
  ASCII. Weights are thousandths, `-2` stands for a parameter that is no weight.
  Ports and range bounds are small numbers; the width of `Atoi` is modelled in
  `HTTPRequest` alone, where it matters.
- **URI.** `ParseURI` uses `PathMeaning!Meaning` where the code calls
  `NormalizePath`; `ImplementsMeaning` is what makes that the same.
- **File system.** External: other programs create an entry, unlink a file or
  an empty directory, or rename a directory away with all it holds, while a call is in progress.
  `truths` collects the answers that were right at some moment of the call,
  `changes` what was done to the tree; both are history. Of `ResolveFile`'s
  locals only the path walked is kept. The constants hold what the callers
  guarantee: the root is an expanded path, `path_info` is a normalised path (both
  as assumptions that name the form), the index names and entries are names.
- **Glob.** The loop is a function over its rounds; `Rounds` bounds their number
  by how often a place is resumed from, and `OverAtEnd` proves that they are
  enough.
- **Values.** `RequestValues` is several small machines under one specification:
  `kind` is chosen at the start and stays. For kinds other than `path` the
  `NormalizePath` in it is asked about the empty path, refuses it and is idle.
- **Form.** `sent` and `first` are history: the pairs behind each field, and what
  the first call of `Query` was about.

## Runs

| Run | Question | Bounds |
|---|---|---|
| `response` | after any calls in any order, do head, payload, flags and the peer agree? | 3 calls besides `SetRequest` and any number of renderings, 9 requests, 3 bodies, 8 field settings, 5 errors: 268,756 states |
| `routing_races` | what may a search miss when the host does not serialise? | 1 worker, every table over 4 mounts (5 spellings, "/a" and "/a/" are one), 3 table writes around its searches: 1,446,965 states |
| `routing_serialised` | does a serialised host implement `Routing`; do Allow lists stay true? | 2 workers, 2 mounts, 2 writes, 3 registered methods in any order: about 518,000 states |
| `request` | what becomes of every message, whole, cut or followed by another? | below: 192,055 states |
| `request_returns` | does the call end? | a request without a body, with a fixed one and with each coding, cut everywhere: 9,028 states |
| `static_site` | does a request for a file, however spelt, reach it; when is the answer right though the tree changes? | 3 changes to any of the 31 trees over 5 entries, 9 paths in 8 to 10 spellings, any of 3 neighbouring mounts: 111,998 states |
| `request_values` | does each reader undo what the client wrote; is the rewriting of a path one walk? | 3 elements, 2 Cookie fields, plain texts of 4 pieces, 3 pairs, raw paths of 5 pieces or 7 characters: about 461,000 states |

Why the bounds are enough. *Response*: every disagreement found takes at most
three calls (a field, a status or mode, and a body or error), and rendering
brings the response to a fixed point (`SetupHeaderIdempotent`, proved), so more
renderings add nothing. The settings are the fields `setupHeader`
reads, with the values it tells apart, and one field with a line break in it. *Server*: a search touches at most two
mounts that matter (the one it should return and the one it returns), a third
write can undo the second, and "/a-" is there because it sorts between "/a"
and "/a/a". A second worker adds nothing to `routing_races`, since workers only
read the table; two of them are in the refinement run. *Request*: the caps
scale 2083, 4096 and 112 KiB down to 6, 4 and 17 symbols, so request lines and
header lines at the cap, one and two above it, and header blocks on either side
of the limit occur. `MaxInt = 63` is beyond every input's length, so only a
stated length can wrap. Blocks have up to two fields of any kind (three of the
filler field, with which the limit is met), payloads up to two chunks and two
trailer fields; every proper prefix is tried as a truncated input, and a whole
request is followed by nothing, by another request, or by a blank line.
*Static site*: a resolution asks at most five questions here, on trees with one
directory level below the root, two indices and a concealed name; with three
changes an entry can vanish, return as something else and vanish again between
two of them. The
name of the entry holds a query sign, an escape and a byte beyond ASCII, so a
second decoding or a cut in the wrong place shows. The tree changes only for the
plain spelling and without other mounts, since by then the spelling is gone.
*Values*: a directive, a memo or a weight reaches at most one neighbour on
either side, so three elements (over two Cookie fields) have every position
among their neighbours; raw paths of five pieces hold two names
with two parent references and anything between; patterns of five characters
hold three stars with a letter between each two.

What the runs show, property by property, is written above each property in its
module. The ones with most behind them:

- `FramingExact`: a rendered message is received as exactly the body the
  response held **iff** none of three named causes applies (chunked mode on a
  bodyless status, a Transfer-Encoding field without chunked mode, a stale
  Content-Length). The run thereby shows that there is no fourth.
- `UntouchedSearchIsExact` and `OnlyUnmountHides`: without a table write the
  answer is the longest mount; with writes, a mount that was there all along is
  hidden only when a longer one is unmounted between `Scan` and `Get`, in which
  case the request gets `NotFound` and does not fall back.
- `ImplementsRouting`: for a serialising host the two-access search is one
  atomic step.
- `VerdictIsDeserved`: a complete request is accepted unless it has one of the
  listed faults, and is refused for one it has. Two faults are the caps' own: a
  header line of k caps and two symbols is cut so that its last piece is a bare
  CRLF, which ends the header block early (the run holds it as `CutFields`);
  and a stated length close to the largest int (`Overlong`, see below).
- `AcceptedIsWhole`: a body that is handed over is the one meant, and a request
  cut short is accepted only when it was cut inside the trailer, where the code
  takes the end of input for the end of the message.
- `KeptAliveIsDrained`: on a kept connection the cursor is at the end of the
  request, unless a trailer line was cut as above.
- `GrowingTreeIsRead`, `ShrinkingTreeIsRead`: while entries are only added, or
  only unlinked, the answer of the unsynchronised questions was right at one
  moment of the call. Two exceptions are exact: a later index is served though
  an earlier one was made after it had been asked for; and when a directory is
  renamed away with its contents, or changes of both kinds meet, the answer may
  never have been right, of which `AnswerAccountsForPath` says what remains.
- `ConcealedIsAbsent`: nothing shows of a concealed name, though it is looked at
  after the question about it. The condition is that no index name is itself
  concealed: a concealed index that is found ends the search with `NotFound`.
- `FileArrives`: across URI, mount table and handler, no spelling of a path
  reaches another file or another servlet.
- `ImplementsMeaning`, `RewritingKeepsMeaning`, `Returns`: rewriting at the first
  match, pattern after pattern, comes to an end and is one walk with a stack.
- `FormsAgree`: the two forms of a target agree but for three kinds of
  authority: an empty port (taken for part of the name by the Host reader), a
  port that is no number, and a bracket not closed or followed by more, which
  the absolute form refuses and Host puts up with.
- `ElementsArrive`: no comma or escaped quote inside quotes moves the end of an
  element. What is behind an empty element arrives too: that is the code's
  reading and not the one its comment quotes (see the smaller divergences).
- `RangesSelectTheirBytes`: with one exception, "-0", which selects the whole
  body; the ranges behind an empty element count, as in `ElementsArrive`.
- `CookiesArrive`: the version stated before a cookie in its field, the other
  directives after it; nothing crosses from one field to the next.
- `PatternsCover`: forgetting all stars but the last loses no match, unless the
  name holds a "*" itself.
- `QueryIsTheFirst`: whatever a host assigns later, `Query` is what the first
  call found; `FormArrives` says that this was the client's form.

`CHECK_DEADLOCK FALSE` stands where the system ends: a response that is no
longer used, a process killed by the runtime, a call that has returned, a value
of the greatest length. The serialised server run checks deadlock.

### Violations: where the code and its own words part

| Run | The code | What is said of it |
|---|---|---|
| `BodylessSendsNothing` | a chunked 204/304 is followed by a terminating chunk | setupHeader's "delete-for-bodyless"; "204 no-content clears the body" |
| `DowngradeIsComplete` | an HTTP/1.0 client gets `Transfer-Encoding: chunked` before plain bytes | "chunked should be downgraded for HTTP/1.0" |
| `SetErrorAnswers` | `SetError(NewStatus(418))` panics on the nil status | "anything else becomes 500" |
| `ErrorPageArrives` | an error page is framed by the Content-Length set before it | "generates the default error-page HTML" |
| `NeverPanics` | a length near the largest int wraps in `readN` and panics | "ok=false if fewer remain"; "returns a *Status on any malformed input" |

### Smaller divergences

The definitions hold what the code does in these places too, and the properties
above name the exceptions that follow; they have no run of their own.

- `filehandler.go:170`: with the root "/" the question to the host is about
  "//a", while `filehandler.go:21` promises it an expanded path.
- `filehandler.go:252`: a "*" in a name is compared before the pattern's star is
  tried, so the pattern "*" does not match the name "**"; the comment at 239
  says a star is any run.
- `httputils.go:453`: an unterminated or empty pair of quotes is accepted; the
  regular expression in the comment at 440 matches neither.
- `httputils.go:475`: an empty element between two commas is passed over and
  the list goes on, in `SplitHeaderValue` and so in `ParseRangeHeader`: "a,, b"
  gives "a" and "b". The expression in the comment at 441 matches no empty
  element and each match must begin where the last ended (`\G`), so that scan
  ends there and gives "a" alone.
- `httputils.go:548`: the Accept entry "a;l=1" is dropped; by the expression in
  the comment at 537 its value is the whole entry, since a value may hold ";".
- `httputils.go:632`: "0-0x" is read as the open range "0-"; the expression in
  the comment at 627 is not anchored at its end and reads "0-0".
- `cookie.go:85`: `$Path`, `$Domain` and `$Port` go to the cookie before them;
  the comment at 75 has them apply to the cookies that follow.

### Fairness

`HTTPRequest!Spec`, `NormalizePath!Spec` and `RequestValues!VSpec` assume weak
fairness of the steps of a call: once made, it runs to its end; the client and
the host are under no such assumption. It is what makes `Returns` meaningful in
either module; it is the only fairness assumed. The
response and the server promise nothing that must eventually happen: a host may
stop at any point, and no part of the library waits for another.

## Proofs

All theorems hold for every value of the constants that satisfies the named
assumptions of the modules. Few invariants are inductive as they stand: each is
proved with what has to be known of a call half done, and TLC checked each such
strengthening before it was proved.

- **`HTTPResponse_proofs`.** Per operator: what it leaves
  alone and that it keeps a response well formed. `SetupHeaderSettles`: after
  `setupHeader` the response is *settled* (framing, flag and Connection field
  agree); `SetupHeaderIdempotent`: a settled response is a fixed point. The
  invariants are not inductive by themselves, because they speak of the message
  last written: `HTTPResponse!IInv` adds that a sent response is settled, that
  its message was written from it, and that only a client older than HTTP/1.0
  gets a message without a head. From it: `TypeCorrect`, `HeaderStaysOrdered`,
  `ConnectionAlwaysAgrees`, `KeptAliveAlwaysDelimited`, `FailureAlwaysCloses`,
  `RenderingAlwaysStable`, `OldClientsAlwaysGetPlainBytes` and
  `FramingAlwaysExact`. For the last one the peer's reading is computed case by
  case from a settled response: `Dechunk` of what `sendBody` writes is the body
  (by the fixed point of its recursion, for a body of any length), a numeric
  Content-Length is the length read, and one that is no number is no length, as
  `Recipient` has it.
- **`HTTPServer_proofs`.** `ScanFindsLongest`: of the prefixes of one path the
  lexical order is the order by length, so the last match in sorting order is
  the longest. `HTTPServer!IInv` adds what a worker in the middle of its search
  knows: if no write has touched the search, it has found what `Scan` would find
  now. From it: `TypeCorrect`, `UntouchedSearchAlwaysExact`,
  `SerialisedGetSucceeds`, and the refinement `ServerImplementsRouting`, one step
  of `Routing` or a stutter per action. `OnlyUnmountEverHides` is about searches
  that writes do touch, and needs `RaceInv`: a mount that came or went is on
  record until its latest change, and the mount `Scan` returned is mounted or on
  record as gone, and hides no longer one but those that came meanwhile.
  `AllowAlwaysKept` adds that a route leads to a servlet (`AllowInv`).
- **`HTTPRequest_proofs`.** Facts about `readLine` and `readN` (their results
  are parts of the data and leave the cursor inside it). `HTTPRequest!IInv`
  adds that the byte count is the cursor while the header is read, without
  which the limit says nothing about the cursor, and that the length
  `readBody` takes has passed `readHeader`'s checks, without which it need not
  be a number. From it: `TypeCorrect`, `HeaderReadAlwaysBounded` and
  `NarrowNumbersNeverPanic`: if no client states a length within the input's
  own length of the largest int, `NeverPanics` holds. The condition of the
  finding is therefore exact.

  What a verdict says of the request that was sent: `VerdictAlwaysDeserved`,
  `AcceptedAlwaysWhole`, `KeptAliveAlwaysDrained` and `FieldsAlwaysArrive`, for
  requests with any number of fields, continuation lines, chunks and trailer
  fields, cut anywhere or followed by anything. They are from three assumptions.
  `ClientsAssumption`: a request keeps to the grammar of `RequestSender`
  (`Grammar`); its bytes have a length that is an int; and a number that states
  how much data there is states it rightly or is more than ever comes (a client
  that states less sends a shorter request, and the rest is what follows it).
  `CapsAssumption`: lines may have more than two symbols, and the cap on the
  request line is no more than the one on the whole head (4096, 2083 and 112 KiB
  in the code). `SymbolsAssumption` and `FieldNamesAssumption`: what the symbols
  of the text are. None of the four properties is inductive, since a verdict
  depends on everything read before. `PInv` holds, phase by phase, what has been
  found out so far: in the header the cursor is *inside* a block (`Inside`: after
  whole lines, none of which is cut to a blank one, and a multiple of the cap
  into the next), or the input has ended first, and `rawHeader` is what stands
  between; after the head its header is `ParseHeader` of the block sent
  (`HeadTaken`); in the body k chunks have been taken, all sound, the body is
  their data and the cursor is where the next one begins (`ChunksTaken`,
  `ChunkAt`); in the trailer it is inside a block again. The argument: one
  `readLine` from inside a block stays inside it or reads the blank line at its
  end, or a piece that looks like one (`ReadWithin`), which is where `CutFields`
  and `TrailerSplit` come from; `eachLine` over a block gives back its lines
  (`EachLineGrows`, line by line), and `ParseHeader` over these the values sent
  (`BlockParses`, an induction over the fields, with the continuation lines of
  each inside it); a block that is cut inside a line is refused (`CutNoticed`),
  so that ending the header early is never taken for a whole one. The attempt
  corrected two faults in places the instance does not have: a length that wraps
  must also be one that does not come (`Overlong`), and a space in the extension
  of a chunk may be part of another symbol (`BadChunk`). TLC checked `PInv` on
  the instance of `request`, with the natural number in `Inside` bounded.
- **`Characters_proofs`.** Induction, for sets instead of
  predicates: a set that holds 0 and the successor of each of its numbers holds
  all numbers (`Induction`); the same for sequences, element by element
  (`SeqInduction`), and for paths, segment by segment (`PathInduction`). A proof
  by induction names the set of the texts with the property and shows that it
  is closed. What a recursive function or a fold of the community modules
  returns is reached through the function it chooses: that one exists is an
  induction, that there is only one another, and then it is the one chosen
  (`FlattenIs`). With these: `FlattenScan`, that the segments of a path are all
  of it, and what appending a segment does to splitting, joining and cleaning.
- **`FileHandler_proofs`.** From `RootAssumption` (the root is an expanded
  path), `EntriesAssumption`, `DirectoryIndexAssumption` and
  `PathInfosAssumption` (`path_info` is a normalised path); the number of
  changes to the tree is not bounded. `BaseInv` says where the call is: the
  segments walked and those ahead are the path, and where it stands is below the
  root. From it `TypeAlwaysOK` and `AnswerAlwaysAccountsForPath`. The four
  properties about a tree that changes have an invariant each, which says what
  the questions asked so far still mean: `StillInv` (nothing on the way has
  changed, so the tree would answer them alike), `MaskedInv` (the tree without
  the concealed entries would), `GrowInv` (what was a directory is one; what was
  not found was not there at a moment of the call) and `ShrinkInv` (what was not
  found is not there; a directory is gone only after what it held). From these
  `OnlyTheWayEverMatters`, `ConcealedIsAlwaysAbsent`, `GrowingTreeIsAlwaysRead`
  and `ShrinkingTreeIsAlwaysRead`. The attempts to prove them showed four cases
  the instance does not have: a root "/", below which the reference answer has
  to take the code's "//a"; a concealed index name, which is now a condition of
  `ConcealedIsAbsent`; a pattern that conceals the empty name of a bare slash;
  and an index that is overtaken by one that is concealed, which `Overtaken` now
  covers.

  `StaticSite`, in the same module, needs no `PathInfosAssumption` of what it
  routes: from `MountsAssumption` (mount directories are texts) and
  `RequestsAssumption` (a target is octets that begin with a slash and means a
  place: its path, escapes taken once, walked) `FileAlwaysArrives` and
  `SiteResolves`. `MeaningIsNormal` (the names of a walk are proper names, an
  induction over the segments, so the path they make is a normalised one) and
  `InfoIsNormal` (so is what the dispatch leaves of it) show that
  `PathInfosAssumption` is what `parseURI` and `Service` provide; `SiteInv` says
  that until a request is handled a resolution is about to begin (`Starting`),
  and from then on that `FileHandler`'s invariant holds. `FoundIsMeant` is the
  longest-prefix search again, from the order of two prefixes of one path;
  `FileIsResolved` computes the reference answer where the path leads to a file.
  The attempt corrected `FileArrives` in two places the instance does not have:
  below a root "/" the place is the expanded path, and a concealed name of the
  root itself is looked at too.
- **`NormalizePath_proofs`.** From `RawPathsAssumption` alone (a path is a text):
  `RewritingAlwaysKeepsMeaning` and the refinement `NormalizePathImplements`.
  `NInv` says what each phase has achieved (an absolute text; no doubled slash;
  no dot segment once the dot pattern has stopped matching) and that the text
  means what the path given means. The argument: a match cuts the text at
  slashes into a \o (m \o b), and what comes before and after matters to a walk
  by its walk only (`WalkConcat`, `MeaningConcat`); what a match takes out walks
  nowhere (`Dropped`, `DotDropped`, `ParentDropped`); collapsing doubled slashes
  takes out empty segments (`CollapseIs`, an induction over the characters);
  when no pattern matches, what is left has names only, or begins with parent
  references (`LeftAbove`), so that it means itself (`CleanMeaning`) or is above
  the root, which is what `hasParentRef` finds (`Refused`).
- **`RequestURI_proofs`.** `TargetIs`: what `parseURI` makes of any target of bytes
  that begins with a slash. `Escape8bit` leaves every percent sign, query sign
  and slash where it is and decodes to what it was given (`Unescape8bit`, an
  induction over the length; an escape cut short at a byte beyond ASCII stays
  cut short), and one slash more in front walks nowhere (`OneSlash`), so that the
  path is the meaning of the decoded text before the query sign. `EscapedPathIs`
  and `EscapedTextIs`: what `EscapePath` and `Escape` write holds no query sign
  and decodes to what was written.
- **`RequestValues_proofs`.** From `PatternsAssumption` (patterns and names are
  texts) and the assumptions of `NormalizePath`, `FormQuery` and targets below. `GlobCovers`:
  `globMatch`, which goes back to the last star only, says yes of a name where a
  cutting of the name gives every character of the pattern its due, and only
  there. What each round keeps (`RunKeeps`): where the cursors are, the pattern
  up to there covers the name up to there (`Sound`), so that yes is deserved;
  and, given a cutting, the places since the last star keep their distances in
  it while the star has taken no more than the cutting gives it (`InStep`), so
  that the round that would fail does not come. The second needs a name without
  a star of its own, which the code would take for the pattern's. `OverAtEnd`:
  each round comes further in `Come`, a pass over both texts per place resumed
  from, so that `Rounds` is a bound and the loop ends. From these
  `PatternsAlwaysCover`. The rest says that the composition is its parts: a step
  of it is a step of `NormalizePath`, of the form, or of neither, so that
  `PathsKeepTheirMeaning`, `ValuesImplementMeaning`, `FormsArrive` and
  `QueriesStayTheFirst` hold of `VSpec`, which the run checks.

  The form. From `TextsAssumption` (names and values are texts of
  bytes), `NamesAssumption` (no name is empty: a browser does not submit an
  unnamed control, and `ParseQuery` drops the empty element that one without a
  value would be) and `SeparatorsAssumption` (one or more of "&" and ";"); the
  number of pairs is not bounded. `EveryFormArrives`: what `EscapeForm` writes
  holds none of "&", ";", "=", and no escape is cut short (`Complete`), so that
  the next one is read by itself and `UnescapeForm` gives the text back
  (`WrittenIs`, an induction over its bytes); a pair is cut where it was joined
  (`PairIs`); the separators, however many, add one element (`SplitSeparated`);
  an element is one value more in the query, and the query is the form of one
  pair more (`InsertedIs`). `QueryStaysTheFirst` holds since the form that was
  parsed is kept with the query. Both are theorems of `FormSpec`, the form alone.

  Targets. From `PathPiecesAssumption` (a target is put together from texts of
  bytes): `EncodedPathsArrive`, from `TargetIs` and the lemmas on escapes of
  `RequestURI_proofs`; a path that is its own meaning is absolute, so that
  nothing else is asked of it.

  Lists and ranges. From `ElementsAssumption` (an element is bytes that do not
  begin with a blank; some of its backslashes escape what follows them, those
  inside quotes that are not escaped themselves; its quotes are closed and its
  commas inside them) and `ByteRangesAssumption` (a range is "a-b", "a-" or "-n"
  in digits, and what it asks for of the bytes there are). The number of elements
  and their lengths are not bounded. `ElementIs`: read from its beginning, an
  element ends outside quotes and has no bare comma, though the assumption
  counts quotes and the reader keeps a mode (an induction over its places).
  `ModeConcat`: behind a text that ends outside quotes, a text is read as by
  itself. With it `SplitHeaderGrows`, one bare comma more cuts where it stands
  and nothing before it moves, and `ElementGrows`, which takes in the blanks and
  the empty element that may come with the comma. The strengthening, `ListKept`,
  is that the text so far is `Closed`. A range is such an element
  (`PlainIsElement`) and means by itself what was asked for (`OneRangeIs`);
  `RangeKept` says so of the list behind "bytes=".

  Preferences. From `EntriesAssumption`: an entry is a value that holds neither
  blank, comma nor semicolon, or such a value, a semicolon and a parameter without
  a comma; it weighs 1000 thousandths without a parameter, by its number
  (`QNumber`) if the parameter is blanks, "q=" and a number, and is to be dropped
  otherwise. How often a weight recurs and how many entries there are is not
  bounded. `EntryIs`: `MatchQValue` tells the three apart, its first semicolon is
  the entry's own and its trimmed tail begins where the "q" is. `AcceptKept`: the
  text is cut where its entries were joined. The order is the hard part, for the
  definition ranks (a place is as far back as there are places `Ahead` of it) and
  the property lists weight after weight: `OrderedRanks`, a number in its order
  has all the smaller ones before it; `RanksDiffer`, no two places share a rank;
  `RankInBlock`, before a place come all places of a greater weight and the
  earlier ones of its own; and `SortIs`, by induction over the weights, the blocks
  one after the other are the places by rank.

  The two forms of a target. From `PathPiecesAssumption` and
  `AuthoritiesAssumption` (an authority is printable ASCII without "/" and "?":
  those signs end it, a field is trimmed of blanks, and what is beyond ASCII is
  escaped in a target only). `SchemeIs`: "http://", the authority and the rest
  are found again where they were joined, and no slash of theirs is collapsed.
  `AuthoritiesAgree`: what `SplitAuthority` takes, `ParseHostHeader` takes for
  the same host and port, unless the authority ends in a colon with no bracket
  before it; the rest is read alike by `LeadingSlashesIs`. `FormsAlwaysAgree` puts them
  together; its invariant is that the authority and the rest are such texts.

Checked by TLC only: of `request_values` the reader of cookies (`CookiesArrive`),
an induction over texts like those above that has not been carried out;
`Returns`, in both modules, since liveness under fairness is out of the prover's
reach.

## Not modelled

- The exchange over one byte stream, request after request: `ParseRequest` gets
  all the bytes the host has and does not say how many it used, so the code has
  no loop to model; `KeptAliveIsDrained` says where its cursor stands.
- `MimeType`: a look-up of a suffix in a table; the table is data.
- `ParseHTTPVersion` and the `String` methods: conversions no property tells
  apart.
- `HTMLUtils`, `Config`, wording of pages and status lines, dates: no property
  is about them.
- The socket, the accept loop, TLS, logging: the host's, outside the
  repository.

## Plan

Done, in this order: Response; Server with Routing; Request parser; the readers
of its values (`NormalizePath` with its abstract specification, `RequestURI`,
`HeaderValues`, `Cookies`, `FormQuery`, `Glob`); `FileHandler`; the composition
`StaticSite`. Then theorems, in this order: Response, Server, Request parser
(bounds and lengths), `FileHandler`, `NormalizePath`, `FormQuery`, `Glob` and the
readers' composition, `RequestURI`, `StaticSite`, the Request parser again (its
verdicts, bodies and fields), lists, byte ranges, preferences and the two forms of
a target. What is left is to prove about the last reader of `RequestValues`:
cookies, as an induction over their items.
