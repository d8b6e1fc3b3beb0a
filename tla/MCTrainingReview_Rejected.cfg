CONSTANTS
    r1 = r1
    NoReply = NoReply
    Records = {r1}
    Replies <- SampleReplies
    Written <- Plain
    MaxReviews = 6
SPECIFICATION ReviewSpec
CHECK_DEADLOCK FALSE
PROPERTY RejectedStaysOut
