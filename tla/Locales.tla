------------------------------ MODULE Locales ------------------------------
(***************************************************************************)
(* Which language and which region a request is answered in, and which of  *)
(* the texts of a row is shown.  Every lookup takes the rows of the locale *)
(* or region table as a set, as the queries find them.                     *)
(***************************************************************************)
EXTENDS Naturals, Sequences

CONSTANTS
    Tags,        \* the language tags a client may send
    BaseOf,      \* the part of a tag in front of its first "-" or "_"
    StartsWith   \* the pairs <<code, prefix>> for which ILIKE 'prefix%' holds

NoTag == "none"       \* an absent parameter, header or cookie
NoText == "no text"   \* translate finds no row to show

Locale(code, is_default, position) ==
    [code |-> code, is_default |-> is_default, is_active |-> TRUE,
     position |-> position]

\* The row with the least position (ORDER BY position LIMIT 1).
First(rows) == CHOOSE r \in rows : \A other \in rows : r.position <= other.position

-----------------------------------------------------------------------------
(* domain/i18n.                                                            *)

Codes(locales) == {l.code : l \in {r \in locales : r.is_active}}

\* settings.default_locale, used while the table names no default.
ConfiguredLocale == "zh-CN"

DefaultLocale(locales) ==
    LET defaults == {l \in locales : l.is_default}
    IN  IF defaults = {} THEN ConfiguredLocale ELSE (CHOOSE l \in defaults : TRUE).code

WithPrefix(locales, prefix) ==
    {l \in locales : l.is_active /\ <<l.code, prefix>> \in StartsWith}

MutantResolveLocale(locales, requested) ==
    IF requested # NoTag /\ BaseOf[requested] # requested
           /\ WithPrefix(locales, BaseOf[requested]) # {}
    THEN First(WithPrefix(locales, BaseOf[requested])).code
    ELSE DefaultLocale(locales)

\* A parameter without a subtag is never taken for a prefix: "zh" is unknown.
ResolveLocale(locales, requested) ==
    CASE requested = NoTag -> DefaultLocale(locales)
      [] requested \in Codes(locales) -> requested
      [] requested \notin Codes(locales) \union {NoTag, BaseOf[requested]}
            /\ WithPrefix(locales, BaseOf[requested]) # {} ->
             First(WithPrefix(locales, BaseOf[requested])).code
      [] OTHER -> DefaultLocale(locales)

\* In a header it is: "zh" finds zh-CN.
Hosted(locales, tag) ==
    tag \in Codes(locales) \/ WithPrefix(locales, BaseOf[tag]) # {}

ResolveHeader(locales, tags) ==
    LET hits == {i \in DOMAIN tags : Hosted(locales, tags[i])}
        tag == tags[CHOOSE i \in hits : \A j \in hits : i <= j]
    IN  CASE hits = {} -> DefaultLocale(locales)
          [] hits # {} /\ tag \in Codes(locales) -> tag
          [] OTHER -> First(WithPrefix(locales, BaseOf[tag])).code

\* text is the function from the languages of the translation rows to what is
\* shown in them.
Translate(locales, text, locale) ==
    CASE locale \in DOMAIN text -> text[locale]
      [] locale \notin DOMAIN text /\ DefaultLocale(locales) \in DOMAIN text ->
             text[DefaultLocale(locales)]
      [] OTHER -> NoText

-----------------------------------------------------------------------------
(* core/deps.py and domain/region.                                         *)

\* ?locale= beats Accept-Language.
GetLocale(locales, query, header) ==
    IF query # NoTag THEN ResolveLocale(locales, query) ELSE ResolveHeader(locales, header)

\* ?region= beats X-Region, which beats the cookie.
RegionCode(query, header, cookie) ==
    CASE query # NoTag -> query
      [] query = NoTag /\ header # NoTag -> header
      [] OTHER -> cookie

ResolveRegion(regions, code) ==
    LET named == {r \in regions : r.code = code}
        defaults == {r \in regions : r.is_default}
    IN  CASE named # {} -> CHOOSE r \in named : TRUE
          [] named = {} /\ defaults # {} -> CHOOSE r \in defaults : TRUE
          [] OTHER -> First(regions)

GetRegion(regions, query, header, cookie) ==
    ResolveRegion(regions, RegionCode(query, header, cookie))

=============================================================================
