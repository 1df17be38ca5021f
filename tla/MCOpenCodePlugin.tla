-------------------------- MODULE MCOpenCodePlugin --------------------------
EXTENDS OpenCodePlugin, TLC

CONSTANT a
OneSession == {a}
MCCalls == 1..(MaxEvents + 2 * MaxTransforms)
MCClients == {"ingestion", "context"}
MCClientOf == [c \in MCCalls |-> IF c <= MaxEvents THEN "ingestion" ELSE "context"]
=============================================================================
