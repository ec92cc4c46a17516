----------------------------- MODULE MCStartup -----------------------------
(***************************************************************************)
(* An instance of Startup for TLC: the first category and the first        *)
(* product of the seed, and requests that rename, shadow, hide, delete and *)
(* restore it.  No request and no start takes more than one id, so there   *)
(* is always one left to draw.                                             *)
(***************************************************************************)
EXTENDS Startup

FirstCategory == SubSeq(CATEGORIES, 1, 1)
FirstProduct == SubSeq(PRODUCTS, 1, 1)

\* The provider may lack two of the currencies, and know others.
SomeAnswers == {{"CNY", "EUR", "GBP", "JPY"}, {"CNY", "JPY", "CHF"}}

\* A product with a generated SKU whose Japanese slug is that of the seeded
\* one, and a draft with a text in the default language.
SomePayloads ==
    {[status |-> "published", text |-> "ja" :> "neon-tee", skus |-> {}],
     [status |-> "draft", text |-> "zh-CN" :> "tee", skus |-> {"TEE"}]}

SomePatches ==
    {[status |-> "draft", text |-> <<>>],
     [status |-> "published", text |-> "zh-CN" :> "shirt"],
     [status |-> Unchanged, text |-> "ja" :> "neon-tee" @@ "en" :> "shirt"]}

SomeHeadings == {<<>>, Heading("clothes")}

SomeTags == {"zh-CN", "en", "ja", "zh", "en-GB", "fr"}

FirstSubtag ==
    [tag \in SomeTags |->
        CASE tag = "zh-CN" -> "zh" [] tag = "en-GB" -> "en" [] OTHER -> tag]

SomePrefixes ==
    {<<"zh-CN", "zh-CN">>, <<"zh-CN", "zh">>, <<"en", "en">>, <<"ja", "ja">>}

=============================================================================
