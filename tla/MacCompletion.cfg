SPECIFICATION FairSpec
CONSTANT Requests = {r1, r2}
PROPERTY CompletionDelivers
