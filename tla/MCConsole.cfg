SPECIFICATION SpecWoken
CONSTANTS
    UART_BUFFER_SIZE = 2
    CONSOLE_BUFFER_SIZE = 2
    NoChar = "0xff"
    Prompt = ">"
    Printable <- TwoLetters
    MaxTyped = 4
CHECK_DEADLOCK FALSE
INVARIANTS TypeOK NothingReordered ScreenShowsCommand
PROPERTIES QueueSpec CommandReturns
