---------------------------- MODULE SeafowlQuery ----------------------------
(***************************************************************************)
(* How DbSeafowl makes a request of a query: the method is guessed from    *)
(* its text, a read goes out as a GET whose URL is the fingerprint of the  *)
(* normalized text and whose header is that text, so that an HTTP cache in *)
(* front of Seafowl can answer it, and a write as a POST of the text       *)
(* itself.                                                                 *)
(*                                                                         *)
(* A query is a sequence of tokens: blanks, line ends, the mark of a line  *)
(* comment, the mark that begins or ends a quotation, keywords and         *)
(* identifiers, with "created_at" for the ones that contain the letters of *)
(* a keyword.                                                              *)
(***************************************************************************)
EXTENDS Naturals, SequencesExt

Blanks == {" ", "newline"}
Words == {"SELECT", "WITH", "CREATE", "created_at"}
Tokens == Blanks \cup {"--", "'"} \cup Words

\* sql.trim()
Trim(query) ==
    LET solid == {i \in DOMAIN query : query[i] \notin Blanks}
    IN  IF solid = {} THEN << >> ELSE SubSeq(query, Min(solid), Max(solid))

\* normalizeQueryForHTTPHeader: trimmed, and each line end, quoted or not, a blank.
normalizeQueryForHTTPHeader(query) ==
    LET trimmed == Trim(query)
    IN  [i \in DOMAIN trimmed |-> IF trimmed[i] = "newline" THEN " " ELSE trimmed[i]]

\* The text, in capitals, has the letters CREATE somewhere.
Creates(token) == token \in {"CREATE", "created_at"}

guessMethodForQuery(query) ==
    LET text == Trim(query)
    IN  IF \/ text # << >> /\ Creates(Head(text))
           \/ /\ text # << >> /\ Head(text) = "WITH"
              /\ \E i \in DOMAIN text : Creates(text[i])
        THEN "POST" ELSE "GET"

\* SHA-256 in hexadecimal: no two texts in use have the same one.
Fingerprint(text) == [sha256 |-> text]

\* Mutant: the text is fingerprinted as it was written.
makeQueryURLAsWritten(query) ==
    IF query = << >> \/ guessMethodForQuery(query) # "GET" THEN [path |-> "q"]
    ELSE [path |-> "q", fingerprint |-> Fingerprint(query)]

\* /q, or /q/<fingerprint>.csv for a read.
makeQueryURL(query) ==
    IF query = << >> \/ guessMethodForQuery(query) # "GET" THEN [path |-> "q"]
    ELSE [path |-> "q", fingerprint |-> Fingerprint(normalizeQueryForHTTPHeader(query))]

\* Mutant: a read is sent as it was written, not as it was fingerprinted.
makeFetchOptionsAsWritten(query, headers) ==
    [method |-> guessMethodForQuery(query), headers |-> headers, text |-> query]

(***************************************************************************)
(* The text a request carries, in X-Seafowl-Query for a GET, in its body   *)
(* for a POST; either way with the headers of the credential.              *)
(***************************************************************************)
makeFetchOptions(query, headers) ==
    LET method == guessMethodForQuery(query)
    IN  [method |-> method, headers |-> headers,
         text   |-> IF method = "GET" THEN normalizeQueryForHTTPHeader(query) ELSE query]
=============================================================================
