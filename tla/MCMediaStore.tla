---------------------------- MODULE MCMediaStore ----------------------------
(* MediaStore on small instances. *)
EXTENDS MediaStore, TLC

File(name, size, mime) == [name |-> name, size |-> size, mime |-> mime]

\* a, ../a, a..a, a followed by an ellipsis, nothing but dots, and two dots apart;
\* then one that is empty, one too large and one of another type.
FilesInUse ==
    {File(<<"a">>, 10, "image/png"), File(<<".", ".", "/", "a">>, 1, "image/png"),
     File(<<"a", ".", ".", "a">>, 1, "image/png"),
     File(<<"a", "other", "ellipsis">>, 1, "image/png"),
     File(<<"a", "\\", ".", ".">>, 1, "image/png"),
     File(<<"a", ".", "other", ".", "a">>, 1, "image/png"),
     File(<<"a">>, 0, "image/png"), File(<<"a">>, 11, "image/png"),
     File(<<"a">>, 1, "text/html")}

Media == Plain(<<"m">>)
Other == Plain(<<"o">>)
Backup == Plain(<<"b">>)

UrlAt(origin, path) == [form |-> "url", origin |-> origin, path |-> path]

Standard == [url |-> UrlAt("cdn", <<Media>>), bucket |-> Text("word"),
             maxSizeMb |-> Text("empty"), allowedMime |-> <<>>]

\* With a base path and without, any type, no URL, and not configured.
Settings ==
    {Standard, [Standard EXCEPT !.url = UrlAt("cdn", <<>>)],
     [Standard EXCEPT !.allowedMime = <<"", "">>],
     [Standard EXCEPT !.url = [form |-> "word", origin |-> "cdn", path |-> <<>>]],
     [Standard EXCEPT !.bucket = Text("empty")], [Standard EXCEPT !.maxSizeMb = Text("word")]}

BucketKeys == {<<Backup>>}

UrlsInUse ==
    {UrlAt("cdn", <<Media, Backup>>), UrlAt("cdn", <<Other, Backup>>), UrlAt("elsewhere", <<Media, Backup>>),
     UrlAt("cdn", <<Media>>), [form |-> "word", origin |-> "cdn", path |-> <<Media, Backup>>]}

-----------------------------------------------------------------------------
(* sanitizeFilename over every name of up to five characters: what it       *)
(* returns is clean, and it leaves clean names alone.                       *)
Names == UNION {[1..n -> Characters] : n \in 0..5}

ASSUME \A name \in Names :
    /\ CleanName(SanitizeFilename(name))
    /\ CleanName(name) => SanitizeFilename(name) = name

-----------------------------------------------------------------------------
Symmetry == Permutations(Uploads) \cup Permutations(Deletes)
=============================================================================
