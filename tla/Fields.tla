------------------------------- MODULE Fields -------------------------------
(***************************************************************************)
(* The fields a request can ask the API for, and the structures an answer  *)
(* is read into.  A field is the path of its names; that a path is written *)
(* with dots and a selection with commas is left out.                      *)
(***************************************************************************)
EXTENDS Sequences

\* The two kinds of variants field_enum! generates: all() of a leaf block, and
\* of a nested block, whose paths go on in the inner enum.
Leaf(names)         == {<<n>> : n \in names}
Nested(name, inner) == {<<name>> \o path : path \in inner}

ItemField       == Leaf({"name", "type", "path", "size", "md5", "sha256", "file"})
ShareField      == Leaf({"is_owned", "is_root", "rights"})
CommentIdsField == Leaf({"public_resource", "private_resource"})
ExifField       == Leaf({"date_time", "gps_latitude", "gps_longitude"})
PhotoSizeField  == Leaf({"url", "name"})

EmbeddedField ==
  Leaf({"total", "limit", "offset", "path", "sort", "public_key"})
    \cup Nested("items", ItemField)

ResourceField ==
  Leaf({"name", "type", "path", "created", "modified", "size", "mime_type", "md5",
        "sha256", "preview", "public_key", "public_url", "media_type", "file",
        "resource_id", "revision", "photoslice_time", "views_count",
        "antivirus_status"})
    \cup Nested("_embedded", EmbeddedField) \cup Nested("share", ShareField)
    \cup Nested("comment_ids", CommentIdsField) \cup Nested("exif", ExifField)
    \cup Nested("sizes", PhotoSizeField)

\* Mutant of DefaultFields: the type of the resource itself is not asked for.
BugDefaultFields ==
  Leaf({"name", "path", "size", "md5", "sha256", "file"})
    \cup Nested("_embedded", {<<"total">>} \cup Nested("items", ItemField))

\* ResourceField::default.
DefaultFields ==
  Leaf({"name", "type", "path", "size", "md5", "sha256", "file"})
    \cup Nested("_embedded", {<<"total">>} \cup Nested("items", ItemField))

-----------------------------------------------------------------------------
(* What serde reads out of an answer; what it has no member for is dropped.  *)

Item     == Leaf({"name", "type", "path", "size", "md5", "sha256", "file"})
Embedded == Leaf({"total", "limit", "offset", "path", "sort", "public_key"})
              \cup Nested("items", Item)

\* Mutant of Resource: a member embedded, which no answer has.
BugResource == {path \in ResourceField : path[1] # "_embedded"}

\* The members of Resource; each of them is an Option.
Resource ==
  Leaf({"name", "type", "path", "created", "modified", "size", "mime_type", "md5",
        "sha256", "preview", "public_key", "public_url", "media_type", "file",
        "resource_id", "revision", "photoslice_time", "views_count",
        "antivirus_status"})
    \cup Nested("_embedded", Embedded)
    \cup Nested("share", Leaf({"is_owned", "is_root", "rights"}))
    \cup Nested("comment_ids", Leaf({"public_resource", "private_resource"}))
    \cup Nested("exif", Leaf({"date_time", "gps_latitude", "gps_longitude"}))
    \cup Nested("sizes", Leaf({"url", "name"}))

\* The members of Link; it cannot be read without any of them.
Link == Leaf({"method", "href", "templated"})

-----------------------------------------------------------------------------
(* The API: a resource has these fields, and the answer those asked for.     *)

Has(share) ==
  IF share = "folder" THEN ResourceField \ Leaf({"size", "md5", "sha256", "file"})
                      ELSE ResourceField \ Nested("_embedded", EmbeddedField)

Shown(share, asked) == Has(share) \cap asked
=============================================================================
