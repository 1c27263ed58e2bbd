---- MODULE MCBufferApi ----
EXTENDS BufferApi

MCZero == "zero"
MCByte == {"a", "b", MCZero}
MCData == {<<>>, <<"a">>, <<"b">>, <<"a", "b">>}
====
