--------------------------- MODULE MCAdapterCall ---------------------------
(***************************************************************************)
(* The calls checked.  First the requests: every combination of the fields *)
(* an adapter treats together, and messages with every kind of block, for  *)
(* every profile, answered by one word.  Then the messages: what each      *)
(* vendor can send, completed and streamed, for a request that offers      *)
(* tools and for one that asks for a schema.                               *)
(***************************************************************************)
EXTENDS AdapterCall

CONSTANT Unnamed   \* TRUE: Gemini may leave a call's id empty

Item(kind, id, name, body, sig, index) ==
    [kind |-> kind, id |-> id, name |-> name, body |-> body, sig |-> sig, index |-> index]
TextItem(body) == Item("text", Nothing, <<>>, body, Nothing, 0)
ThinkingItem(body, sig) == Item("thinking", Nothing, <<>>, body, sig, 0)
CallItem(id, name, body, sig, index) == Item("call", id, name, body, sig, index)

Tokens(written, reasoning, inside) ==
    [fresh |-> 3, cached |-> 2, written |-> written, output |-> 5, reasoning |-> reasoning,
     inside |-> inside]

Msg(items, stop, usage) == [items |-> items, stop |-> stop, usage |-> usage, blocked |-> FALSE]

----------------------------------------------------------------------------
\* Requests.

User(content) == Message("user", content, <<>>, Nothing)
Hello == User(<<Text(<<"q">>)>>)
Media(kind, data, url, mime) == [kind |-> kind, data |-> data, url |-> url, mime |-> mime]

Request(messages, limits, thinking, choice, tools, schema) ==
    [messages |-> messages, maxTokens |-> limits.maxTokens, fields |-> limits.fields,
     seed |-> limits.seed, thinking |-> thinking,
     choice |-> choice, tools |-> tools, schema |-> schema]

\* Names of tools; the last is long enough to be sent in pieces.
F == <<"f">>
H == <<"g">>
GetWeather == <<"get_", "weather">>

Mode(mode) == [mode |-> mode, name |-> IF mode = "tool" THEN F ELSE Nothing]
Tool(name, params) == [name |-> name, params |-> params]
Think(budget, effort) == [budget |-> budget, effort |-> effort]

Limits(maxTokens, fields, seed) == [maxTokens |-> maxTokens, fields |-> fields, seed |-> seed]

\* The numbers at the edges of genai's int32, and one inside.
FieldLimits ==
    {Limits(0, {}, Nothing), Limits(MaxInt32, SilentFields, MaxInt32), Limits(MaxInt32 + 1, {}, Nothing),
     Limits(MaxInt32 + 1, SilentFields, 7), Limits(0, SilentFields, -MaxInt32 - 1),
     Limits(0, SilentFields, MaxInt32 + 1), Limits(0, {}, -MaxInt32 - 2)}

Thinkings ==
    {Nothing, Think(2, Nothing), Think(MaxInt32, Nothing), Think(MaxInt32 + 1, "high"),
     Think(0, "low"), Think(0, Nothing)}

\* No adapter looks at a limit or a seed together with a choice, a tool or a schema.
FieldRequests ==
    {Request(<<Hello>>, limits, thinking, Mode("auto"), <<>>, "absent") :
        limits \in FieldLimits, thinking \in Thinkings}
    \cup {Request(<<Hello>>, Limits(0, SilentFields, 7), thinking, choice, tools, schema) :
            thinking \in Thinkings,
            choice \in {Mode(m) : m \in {"auto", "none", "required", "tool"}},
            tools \in {<<>>, <<Tool(F, "object")>>, <<Tool(F, "null"), Tool(H, "emptykey")>>},
            schema \in {"absent", "object", "other"}}

Sources ==
    {Media(kind, TRUE, Nothing, mime) : kind \in {"image", "document"}, mime \in {"png", "pdf", Nothing}}
    \cup {Media(kind, FALSE, url, Nothing) :
            kind \in {"image", "document"}, url \in {Nothing, "https", "data:png", "data:odd"}}

Foreign == [kind |-> "thinking", provider |-> "elsewhere", text |-> <<"t">>, raw |-> Nothing]

Conversations ==
    {<<User(<<b, Text(<<"q">>)>>)>> : b \in Sources}
    \cup {<<Hello, Message("assistant", <<Foreign>>, <<Call("c", F, args)>>, Nothing),
            Message("tool", content, <<>>, "c"), Message("tool", <<>>, <<>>, "d"), Message("system", <<Text(<<"s">>)>>, <<>>, Nothing)>> :
            args \in {<<>>, <<"x">>, <<"cut">>},
            content \in {<<Text(<<"r">>)>>} \cup {<<Text(<<"r">>), b>> : b \in Sources}}
    \cup {<<User(<<>>)>>, <<User(<<Foreign>>)>>}

Plain(messages) == Request(messages, Limits(0, {}, Nothing), Nothing, Mode("auto"), <<>>, "absent")

\* The profiles of the tables, and one that claims everything.
ProfilesOf(provider) ==
    {Gates} \cup
    CASE provider = "anthropic" -> A!Profiles
      [] provider \in {"openai", "compat"} -> O!Profiles
      [] provider = "google" -> G!Profiles

Stop(provider) ==
    CASE provider = "anthropic" -> "end_turn" [] provider = "google" -> "STOP" [] OTHER -> "stop"

AnyUsage == Tokens(0, 0, TRUE)

Scenario(provider, caps, signing, reqs, msgs, modes) ==
    [provider |-> provider, caps |-> caps, signing |-> signing, reqs |-> reqs, msgs |-> msgs,
     modes |-> modes]

RequestScenarios ==
    UNION {{Scenario(provider, caps, "ReasoningEffort" \in caps, reqs,
                     {Msg(<<TextItem(<<"a">>)>>, Stop(provider), AnyUsage)}, {"complete"}) :
                caps \in ProfilesOf(provider),
                reqs \in {FieldRequests, {Plain(messages) : messages \in Conversations}}} :
            provider \in Providers}

----------------------------------------------------------------------------
\* Messages.

Thinks(sig) == ThinkingItem(<<"t", "u">>, sig)
Says == TextItem(<<"a", "b">>)

AnthropicMessages ==
    {Msg(items, stop, Tokens(1, reasoning, TRUE)) :
        items \in {<<>>, <<Says>>, <<Thinks("s1"), Says, CallItem("c1", F, <<"x", "y">>, Nothing, 0)>>,
                   <<Thinks("s1"), Item("redacted", Nothing, <<>>, <<>>, "s2", 0),
                     CallItem("c1", F, <<>>, Nothing, 0), CallItem("c2", F, <<"x", "y">>, Nothing, 0)>>,
                   <<Item("server", "w", <<"search">>, <<"z">>, Nothing, 0), Says,
                     CallItem("c1", F, <<"x">>, Nothing, 0)>>,
                   <<CallItem("c1", <<"emit_answer">>, <<"x", "y">>, Nothing, 0)>>},
        stop \in {"end_turn", "tool_use", "max_tokens", "pause_turn"}, reasoning \in {0, 4}}
    \cup {Msg(<<>>, Nothing, Tokens(0, 0, TRUE))}

\* No adapter looks at the usage together with the finish reason.
OpenAIMessages ==
    {Msg(items, end[1], end[2]) :
        items \in {<<>>, <<Says>>, <<Thinks(Nothing), Item("details", Nothing, <<"d1">>, <<"o", "p">>, Nothing, 0), Says>>,
                   <<Item("refusal", Nothing, <<>>, <<"n">>, Nothing, 0)>>,
                   <<CallItem("c1", F, <<>>, Nothing, 0), CallItem("c2", GetWeather, <<"x", "y">>, Nothing, 2)>>,
                   <<Thinks(Nothing), CallItem("c1", GetWeather, <<"x", "y">>, Nothing, 1),
                     CallItem("c2", H, <<"cut">>, Nothing, 2)>>,
                   <<CallItem(Nothing, F, <<"x">>, Nothing, 0), CallItem(Nothing, F, <<"y">>, Nothing, 1)>>},
        end \in {<<"stop", Tokens(0, 4, TRUE)>>, <<"stop", Tokens(0, 4, FALSE)>>, <<"tool_calls", Nothing>>,
                 <<"length", Tokens(0, 4, TRUE)>>, <<"abort", Nothing>>}}
    \cup {Msg(<<>>, Nothing, Nothing), Msg(<<Says>>, Nothing, Nothing)}

GoogleIds == IF Unnamed THEN {Nothing} ELSE {"c1"}

GoogleMessages ==
    {Msg(items, stop, usage) :
        items \in {<<>>, <<Says>>, <<Thinks(Nothing), Says>>}
            \cup {<<Thinks("s1"), CallItem(id, F, <<"x">>, "s2", 0), Says>> : id \in GoogleIds}
            \cup {<<CallItem(id, F, <<>>, "s2", 0), CallItem("c2", F, <<"y">>, sig, 0)>> :
                    id \in GoogleIds, sig \in {Nothing, "s3"}}
            \cup {<<CallItem(id, F, <<>>, Nothing, 0)>> : id \in GoogleIds},
        stop \in {"STOP", "FINISH_REASON_UNSPECIFIED", "MAX_TOKENS", "SAFETY", "OTHER"},
        usage \in {Nothing, Tokens(0, 4, TRUE)}}
    \cup {Msg(<<>>, Nothing, Nothing), [Msg(<<>>, Nothing, Nothing) EXCEPT !.blocked = TRUE]}

MessagesOf(provider) ==
    CASE provider = "anthropic" -> AnthropicMessages
      [] provider \in {"openai", "compat"} -> OpenAIMessages
      [] provider = "google" -> GoogleMessages

\* A request that offers tools, and one that wants an answer by a schema.
Offers == [Plain(<<Hello>>) EXCEPT !.tools = <<Tool(F, "object"), Tool(H, "object")>>]
Wants == [Plain(<<Hello>>) EXCEPT !.schema = "object"]

MessageScenarios ==
    {Scenario(provider, CeilingOf(provider), TRUE,
              IF provider = "anthropic" THEN {Offers, Wants} ELSE {Offers},
              MessagesOf(provider), {"complete", "stream", "silent", "synthetic"}) : provider \in Providers}

MCScenarios == RequestScenarios \cup MessageScenarios

GeminiScenario ==
    {Scenario("google", CeilingOf("google"), TRUE, {Offers}, GoogleMessages, {"complete"})}
============================================================================
